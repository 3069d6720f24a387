-------------------------- MODULE LocalStoreProofs --------------------------
(***************************************************************************)
(* Proofs about LocalStore for every set of sites, workers, readers and    *)
(* lifetimes, every set of failing calls and every bound, deaths of the    *)
(* broker included.                                                        *)
(*                                                                         *)
(* Neither ServedNotExpired nor ReaperSparesLive is inductive.  Both rest  *)
(* on one fact about the disk, DiskMatchesFile: whatever directory has a   *)
(* site's name, the expiry file of that name is its own, or its push has   *)
(* not recorded a deadline yet.  KeptMatchesFile is the same fact for the  *)
(* directory a push may still rename back, and the rest of IInv says why   *)
(* no other mutator can come between (Mutex) and why a version is in one   *)
(* place only (Unique, Below, Owner).  NoLeftovers is proved from IInv by  *)
(* saying of every stage and backup whose it is (LeftoverInv).             *)
(***************************************************************************)
EXTENDS LocalStore, TLAPS

Outside  == {"idle", "put", "delete", "reap"}
Unset    == {"put", "stage", "aside", "install", "expire", "undo", "rollback"}
HasKept  == Moved \cup {"unstage", "drop", "stat", "ok", "fail"}
Deleting == {"remove", "removing", "unlink"}

\* A deadline that was still to come at t, or is not known yet.
StillOpen(d, t) == d = Pending \/ ~Elapsed(d, t)

\* Only the holder of mutationMu is past its Lock.
Mutex == \A p \in Procs : pc[p] \notin Outside => mu = p

\* The reaper runs no push.
ReaperOnlyReaps == pc[Reaper] \notin (Unset \cup {"unstage", "drop", "stat", "delete"})

\* Versions are given out in order and only once.
Below == /\ \A s \in Sites : disk[s] <= pushes
         /\ \A p \in Procs : ver[p] <= pushes /\ kept[p] <= pushes
Unique == \A p, q \in Procs : p # q /\ ver[p] = ver[q] => ver[p] = Absent

\* A push under way has an upload at hand, which has no deadline before
\* SetExpiry.
VerAtHand == \A p \in Procs :
    pc[p] \in Unset \cup {"unstage", "drop", "stat"} => ver[p] # Absent
Pushing == \A p \in Procs : pc[p] \in Unset => due[ver[p]] = Pending
Unused  == \A v \in Versions : pushes < v => due[v] = Pending

\* Nobody else's directory holds it, and it is no push's backup.
Owner ==
    \A p \in Procs : pc[p] \in Unset =>
        /\ \A s \in Sites : disk[s] = ver[p] =>
               s = site[p] /\ pc[p] \in {"expire", "undo", "rollback"}
        /\ \A q \in Procs : kept[q] # ver[p]

KeptOnlyAfterAside ==
    \A p \in Procs : pc[p] \notin HasKept => kept[p] = Absent

\* Where the holder's directory is at each of its steps.
Installed == \A p \in Procs : pc[p] = "expire" => disk[site[p]] = ver[p]
Removed   == \A p \in Procs : pc[p] = "unlink" => disk[site[p]] = Absent

DiskMatchesFile ==
    \A s \in Sites : disk[s] # Absent =>
        due[disk[s]] = Pending \/ due[disk[s]] = expiryFile[s]
KeptMatchesFile ==
    \A p \in Procs : pc[p] \in Moved /\ kept[p] # Absent =>
        due[kept[p]] = Pending \/ due[kept[p]] = expiryFile[site[p]]

\* What a reader past its check can still be served.
SinceInThePast == \A r \in Readers : since[r] <= clock
CheckedDisk ==
    \A r \in Readers :
        (at[r] \in {"open", "serve"} /\ old[r] = Absent /\ disk[asked[r]] # Absent) =>
            StillOpen(due[disk[asked[r]]], since[r])
CheckedKept ==
    \A r \in Readers, p \in Procs :
        (/\ at[r] \in {"open", "serve"}
         /\ old[r] = Absent
         /\ pc[p] \in Moved
         /\ site[p] = asked[r]
         /\ kept[p] # Absent) => StillOpen(due[kept[p]], since[r])
Served ==
    \A r \in Readers : at[r] = "served" =>
        /\ got[r] # Absent
        /\ old[r] = Absent => StillOpen(due[got[r]], since[r])

\* What the reaper has listed stays expired while it holds the mutex.
ReaperList ==
    /\ now <= clock
    /\ pc[Reaper] \in {"next"} \cup Deleting =>
           \A s \in todo : Elapsed(expiryFile[s], now)
    /\ pc[Reaper] \in Deleting =>
           /\ site[Reaper] \notin todo
           /\ Elapsed(expiryFile[site[Reaper]], now)

MutexInv  == Mutex /\ ReaperOnlyReaps
Numbering == Below /\ Unique /\ KeptOnlyAfterAside
Places    == Pushing /\ Unused /\ Owner /\ Installed /\ Removed
FileInv   == DiskMatchesFile /\ KeptMatchesFile
ReaderInv == SinceInThePast /\ CheckedDisk /\ CheckedKept /\ Served

\* What is staged or moved aside belongs to the holder of mutationMu, or its
\* own clean-up failed.
Staged(v) == /\ mu # Nobody /\ pc[mu] \in {"aside", "install", "rollback", "unstage"}
             /\ v = ver[mu]
MovedAside(s, v) == /\ mu # Nobody /\ site[mu] = s /\ pc[mu] \in Moved \cup {"drop"}
                /\ v = kept[mu]
LeftoverInv ==
    /\ \A v \in stages : v \in spoilt \/ Staged(v)
    /\ \A s \in Sites : \A v \in backups[s] : v \in spoilt \/ MovedAside(s, v)

TypeInv == TypeOK /\ VerAtHand
IInv == /\ TypeInv /\ MutexInv /\ Numbering /\ Places
        /\ FileInv /\ ReaderInv /\ ReaperList

-----------------------------------------------------------------------------
\* The placeholder for a request not yet made is a site.
LEMMA AnySiteType == AnySite \in Sites
  BY SitesAssumption DEF AnySite

\* A deadline is a time or Never, and lies ahead of the moment it is set.
LEMMA DeadlineType ==
    ASSUME NEW t \in Nat, NEW lifetime \in (Nat \ {0}) \cup {Never}
    PROVE  Deadline(t, lifetime) \in Deadlines
  BY NeverAssumption DEF Deadline, Deadlines

LEMMA DeadlineAhead ==
    ASSUME NEW t \in Nat, NEW lifetime \in (Nat \ {0}) \cup {Never},
           NEW u \in Nat, u <= t
    PROVE  ~Elapsed(Deadline(t, lifetime), u)
<1>1. CASE lifetime = Never
  BY <1>1 DEF Deadline, Elapsed
<1>2. CASE lifetime \in Nat \ {0}
  <2>1. Deadline(t, lifetime) = t + lifetime
    BY <1>2, NeverAssumption DEF Deadline
  <2> QED
    BY <1>2, <2>1 DEF Elapsed
<1> QED
  BY <1>1, <1>2

\* What has not elapsed had not elapsed earlier.
LEMMA ElapsedLater ==
    ASSUME NEW d \in Deadlines, NEW t \in Nat, NEW u \in Nat, u <= t,
           ~Elapsed(d, t)
    PROVE  ~Elapsed(d, u)
  BY NeverAssumption DEF Deadlines, Elapsed

\* What TypeOK says of version numbers, as numbers.
LEMMA NumbersType ==
    TypeOK => /\ pushes \in Nat
              /\ \A s \in Sites : disk[s] \in Nat
              /\ \A p \in Procs : ver[p] \in Nat /\ kept[p] \in Nat
  BY BoundsAssumption DEF TypeOK, Versions, Absent

\* The program starts well typed.
LEMMA TypeInit == Init => TypeInv
  BY AnySiteType, BoundsAssumption, NeverAssumption
  DEF Init, TypeInv, TypeOK, VerAtHand, Unset, Procs, Versions, Deadlines,
      Absent, Stations

\* No step breaks a type, and a push under way keeps its upload at hand.
LEMMA TypeNext == TypeInv /\ [Next]_vars => TypeInv'
<1> SUFFICES ASSUME TypeInv, [Next]_vars PROVE TypeInv'
  OBVIOUS
<1> USE AnySiteType DEF TypeInv, TypeOK, VerAtHand
<1>1. ASSUME NEW w \in Workers, PutSite(w) PROVE TypeInv'
  <2>1. pushes + 1 \in Versions /\ pushes' \in 0 .. MaxPushes
    BY <1>1, BoundsAssumption DEF PutSite, Versions
  <2>2. w \in Procs
    BY DEF Procs
  <2>3. ver' = [ver EXCEPT ![w] = pushes + 1] /\ pc' = [pc EXCEPT ![w] = "put"]
    BY <1>1 DEF PutSite, Goto
  <2>4. VerAtHand'
    BY <2>1, <2>2, <2>3, BoundsAssumption DEF Versions, Absent, Unset
  <2>5. TypeOK'
    BY <1>1, <2>1, <2>2, <2>3 DEF PutSite, Goto, Stations,
       diskVars, reqVars, readVars, bounds, history
  <2> QED
    BY <2>4, <2>5 DEF TypeInv
<1>2. ASSUME NEW w \in Workers, UploadFails(w) PROVE TypeInv'
  BY <1>2 DEF UploadFails, Goto, Stations, Unset, Procs,
     diskVars, reqVars, readVars, bounds, history
<1>3. ASSUME NEW w \in Workers, DeleteSite(w) PROVE TypeInv'
  BY <1>3 DEF DeleteSite, Goto, Stations, Unset, Procs,
     diskVars, reqVars, readVars, bounds, history
<1>4. ASSUME NEW p \in Procs, LockMutation(p) PROVE TypeInv'
  BY <1>4 DEF LockMutation, Goto, Stations, Unset,
     diskVars, reqVars, readVars, bounds, history
<1>5. ASSUME NEW p \in Procs, Stage(p) PROVE TypeInv'
  BY <1>5 DEF Stage, Goto, Stations, Unset,
     diskVars, reqVars, readVars, bounds, history
<1>6. ASSUME NEW p \in Procs, StageFails(p) PROVE TypeInv'
  BY <1>6 DEF StageFails, Goto, Stations, Unset,
     diskVars, reqVars, readVars, bounds, history
<1>7. ASSUME NEW p \in Procs, Aside(p) PROVE TypeInv'
  BY <1>7 DEF Aside, Goto, Stations, Unset,
     diskVars, reqVars, readVars, bounds, history
<1>8. ASSUME NEW p \in Procs, AsideFails(p) PROVE TypeInv'
  BY <1>8 DEF AsideFails, Fault, Goto, Stations, Unset,
     diskVars, reqVars, readVars, bounds, history
<1>9. ASSUME NEW p \in Procs, Install(p) PROVE TypeInv'
  BY <1>9 DEF Install, Goto, Stations, Unset,
     diskVars, reqVars, readVars, bounds, history
<1>10. ASSUME NEW p \in Procs, InstallFails(p) PROVE TypeInv'
  BY <1>10 DEF InstallFails, Fault, Goto, Stations, Unset,
     diskVars, reqVars, readVars, bounds, history
<1>11. ASSUME NEW p \in Procs, SetExpiry(p) PROVE TypeInv'
  <2>1. Deadline(clock, ttl[p]) \in Deadlines
    <3>1. clock \in Nat /\ ttl[p] \in (Nat \ {0}) \cup {Never}
      BY TTLsAssumption
    <3> QED
      BY <3>1, DeadlineType
  <2> QED
    BY <1>11, <2>1 DEF SetExpiry, Goto, Stations, Unset,
       diskVars, reqVars, readVars, bounds, history
<1>12. ASSUME NEW p \in Procs, SetExpiryFails(p) PROVE TypeInv'
  BY <1>12 DEF SetExpiryFails, Fault, Goto, Stations, Unset,
     diskVars, reqVars, readVars, bounds, history
<1>13. ASSUME NEW p \in Procs, Undo(p) PROVE TypeInv'
  BY <1>13 DEF Undo, Fault, Goto, Stations, Unset,
     diskVars, reqVars, readVars, bounds, history
<1>14. ASSUME NEW p \in Procs, Rollback(p) PROVE TypeInv'
  BY <1>14 DEF Rollback, Unstaging, Fault, Goto, Stations, Unset,
     diskVars, reqVars, readVars, bounds, history
<1>15. ASSUME NEW p \in Procs, DropBackup(p) PROVE TypeInv'
  BY <1>15 DEF DropBackup, Fault, Goto, Stations, Unset,
     diskVars, reqVars, readVars, bounds, history
<1>16. ASSUME NEW p \in Procs, StatInstalled(p) PROVE TypeInv'
  <2>1. CASE pc' = [pc EXCEPT ![p] = "ok"]
    BY <1>16, <2>1 DEF StatInstalled, Fault, Goto, Stations, Unset,
       diskVars, reqVars, readVars, bounds, history
  <2>2. CASE pc' = [pc EXCEPT ![p] = "fail"]
    BY <1>16, <2>2 DEF StatInstalled, Fault, Goto, Stations, Unset,
       diskVars, reqVars, readVars, bounds, history
  <2> QED
    BY <1>16, <2>1, <2>2 DEF StatInstalled, Goto
<1>17. ASSUME NEW p \in Procs, DeleteMissing(p) PROVE TypeInv'
  BY <1>17 DEF DeleteMissing, Goto, Stations, Unset,
     diskVars, reqVars, readVars, bounds, history
<1>18. ASSUME NEW p \in Procs, RemoveBegins(p) PROVE TypeInv'
  BY <1>18 DEF RemoveBegins, Goto, Stations, Unset,
     diskVars, reqVars, readVars, bounds, history
<1>19. ASSUME NEW p \in Procs, RemoveEnds(p) PROVE TypeInv'
  BY <1>19 DEF RemoveEnds, Fault, Goto, Stations, Unset,
     diskVars, reqVars, readVars, bounds, history
<1>20. ASSUME NEW p \in Procs, UnlinkExpiry(p) PROVE TypeInv'
  BY <1>20 DEF UnlinkExpiry, Fault, Done, Deadlines, Goto, Stations, Unset,
     diskVars, reqVars, readVars, bounds, history
<1>21. ASSUME NEW p \in Procs, Respond(p) PROVE TypeInv'
  BY <1>21 DEF Respond, Goto, Stations, Unset,
     diskVars, reqVars, readVars, bounds, history
<1>22. ASSUME WatchExpiries PROVE TypeInv'
  BY <1>22 DEF WatchExpiries, Goto, Stations, Unset, Procs,
     diskVars, reqVars, readVars, bounds, history
<1>23. ASSUME ListExpired PROVE TypeInv'
  BY <1>23 DEF ListExpired, Fault, Goto, Stations, Unset, Procs,
     diskVars, reqVars, readVars, bounds, history
<1>24. ASSUME NextExpired PROVE TypeInv'
  BY <1>24 DEF NextExpired, Goto, Stations, Unset, Procs,
     diskVars, reqVars, readVars, bounds, history
<1>25. ASSUME Tick PROVE TypeInv'
  BY <1>25 DEF Tick,
     diskVars, reqVars, readVars, bounds, history
<1>26. ASSUME Crash PROVE TypeInv'
  BY <1>26 DEF Crash, Stations, Unset,
     diskVars, reqVars, readVars, bounds, history
<1>27. ASSUME NEW r \in Readers, StatDir(r) PROVE TypeInv'
  BY <1>27 DEF StatDir,
     diskVars, reqVars, readVars, bounds, history
<1>28. ASSUME NEW r \in Readers, StatExpiry(r) PROVE TypeInv'
  BY <1>28 DEF StatExpiry, Under, DeadlineOf, Forget,
     diskVars, reqVars, readVars, bounds, history
<1>29. ASSUME NEW r \in Readers, OpenSite(r) PROVE TypeInv'
  BY <1>29 DEF OpenSite, Under, DeadlineOf, Forget,
     diskVars, reqVars, readVars, bounds, history
<1>30. ASSUME NEW r \in Readers, ServeSite(r) PROVE TypeInv'
  <2>1. Under(r) \in Versions \cup {Absent}
    BY DEF Under
  <2> QED
    BY <1>30, <2>1 DEF ServeSite, Forget,
       diskVars, reqVars, readVars, bounds, history
<1>31. ASSUME NEW r \in Readers, EndRead(r) PROVE TypeInv'
  BY <1>31 DEF EndRead, Forget,
     diskVars, reqVars, readVars, bounds, history
<1>32. ASSUME UNCHANGED vars PROVE TypeInv'
  BY <1>32 DEF vars, diskVars, reqVars, readVars, bounds, history
<1>33. ASSUME NEW p \in Procs, RemoveStage(p) PROVE TypeInv'
  BY <1>33 DEF RemoveStage, Fault, Goto, Stations, Unset,
     diskVars, reqVars, readVars, bounds, history
<1>34. ASSUME NEW p \in Procs, AsideUnseen(p) PROVE TypeInv'
  BY <1>34 DEF AsideUnseen, Fault, Goto, Stations, Unset,
     diskVars, reqVars, readVars, bounds, history
<1>35. ASSUME NEW p \in Procs, DeleteUnseen(p) PROVE TypeInv'
  BY <1>35 DEF DeleteUnseen, Fault, Goto, Stations, Unset,
     diskVars, reqVars, readVars, bounds, history
<1> QED
  BY <1>1, <1>2, <1>3, <1>4, <1>5, <1>6, <1>7, <1>8, <1>9, <1>10, <1>11,
     <1>12, <1>13, <1>14, <1>15, <1>16, <1>17, <1>18, <1>19, <1>20, <1>21,
     <1>22, <1>23, <1>24, <1>25, <1>26, <1>27, <1>28, <1>29, <1>30, <1>31,
     <1>32, <1>33, <1>34, <1>35 DEF Next, Replace, Delete, Mutate, Reap, Read


\* mutationMu excludes: LockMutation needs it free and only Respond, or the
\* death of the process, frees it.
LEMMA MutexNext == TypeInv /\ MutexInv /\ [Next]_vars => MutexInv'
<1> SUFFICES ASSUME TypeInv /\ MutexInv, [Next]_vars PROVE MutexInv'
  OBVIOUS
<1> USE ProcsAssumption
    DEF TypeInv, TypeOK, MutexInv, Mutex, ReaperOnlyReaps, Outside, Unset,
        Procs
<1>1. ASSUME NEW w \in Workers, PutSite(w) PROVE MutexInv'
  BY <1>1 DEF PutSite, Goto,
     diskVars, reqVars, readVars, bounds, history
<1>2. ASSUME NEW w \in Workers, UploadFails(w) PROVE MutexInv'
  BY <1>2 DEF UploadFails, Goto,
     diskVars, reqVars, readVars, bounds, history
<1>3. ASSUME NEW w \in Workers, DeleteSite(w) PROVE MutexInv'
  BY <1>3 DEF DeleteSite, Goto,
     diskVars, reqVars, readVars, bounds, history
<1>4. ASSUME NEW p \in Procs, LockMutation(p) PROVE MutexInv'
  BY <1>4 DEF LockMutation, Goto,
     diskVars, reqVars, readVars, bounds, history
<1>5. ASSUME NEW p \in Procs, Stage(p) PROVE MutexInv'
  BY <1>5 DEF Stage, Goto,
     diskVars, reqVars, readVars, bounds, history
<1>6. ASSUME NEW p \in Procs, StageFails(p) PROVE MutexInv'
  BY <1>6 DEF StageFails, Goto,
     diskVars, reqVars, readVars, bounds, history
<1>7. ASSUME NEW p \in Procs, Aside(p) PROVE MutexInv'
  BY <1>7 DEF Aside, Goto,
     diskVars, reqVars, readVars, bounds, history
<1>8. ASSUME NEW p \in Procs, AsideFails(p) PROVE MutexInv'
  BY <1>8 DEF AsideFails, Fault, Goto,
     diskVars, reqVars, readVars, bounds, history
<1>9. ASSUME NEW p \in Procs, Install(p) PROVE MutexInv'
  BY <1>9 DEF Install, Goto,
     diskVars, reqVars, readVars, bounds, history
<1>10. ASSUME NEW p \in Procs, InstallFails(p) PROVE MutexInv'
  BY <1>10 DEF InstallFails, Fault, Goto,
     diskVars, reqVars, readVars, bounds, history
<1>11. ASSUME NEW p \in Procs, SetExpiry(p) PROVE MutexInv'
  BY <1>11 DEF SetExpiry, Deadline, Goto,
     diskVars, reqVars, readVars, bounds, history
<1>12. ASSUME NEW p \in Procs, SetExpiryFails(p) PROVE MutexInv'
  BY <1>12 DEF SetExpiryFails, Fault, Goto,
     diskVars, reqVars, readVars, bounds, history
<1>13. ASSUME NEW p \in Procs, Undo(p) PROVE MutexInv'
  BY <1>13 DEF Undo, Fault, Goto,
     diskVars, reqVars, readVars, bounds, history
<1>14. ASSUME NEW p \in Procs, Rollback(p) PROVE MutexInv'
  BY <1>14 DEF Rollback, Unstaging, Fault, Goto,
     diskVars, reqVars, readVars, bounds, history
<1>15. ASSUME NEW p \in Procs, DropBackup(p) PROVE MutexInv'
  BY <1>15 DEF DropBackup, Fault, Goto,
     diskVars, reqVars, readVars, bounds, history
<1>16. ASSUME NEW p \in Procs, StatInstalled(p) PROVE MutexInv'
  BY <1>16 DEF StatInstalled, Fault, Goto,
     diskVars, reqVars, readVars, bounds, history
<1>17. ASSUME NEW p \in Procs, DeleteMissing(p) PROVE MutexInv'
  BY <1>17 DEF DeleteMissing, Goto,
     diskVars, reqVars, readVars, bounds, history
<1>18. ASSUME NEW p \in Procs, RemoveBegins(p) PROVE MutexInv'
  BY <1>18 DEF RemoveBegins, Goto,
     diskVars, reqVars, readVars, bounds, history
<1>19. ASSUME NEW p \in Procs, RemoveEnds(p) PROVE MutexInv'
  BY <1>19 DEF RemoveEnds, Fault, Goto,
     diskVars, reqVars, readVars, bounds, history
<1>20. ASSUME NEW p \in Procs, UnlinkExpiry(p) PROVE MutexInv'
  BY <1>20 DEF UnlinkExpiry, Fault, Done, Goto,
     diskVars, reqVars, readVars, bounds, history
<1>21. ASSUME NEW p \in Procs, Respond(p) PROVE MutexInv'
  BY <1>21 DEF Respond, Goto,
     diskVars, reqVars, readVars, bounds, history
<1>22. ASSUME WatchExpiries PROVE MutexInv'
  BY <1>22 DEF WatchExpiries, Goto,
     diskVars, reqVars, readVars, bounds, history
<1>23. ASSUME ListExpired PROVE MutexInv'
  BY <1>23 DEF ListExpired, Fault, Goto,
     diskVars, reqVars, readVars, bounds, history
<1>24. ASSUME NextExpired PROVE MutexInv'
  BY <1>24 DEF NextExpired, Goto,
     diskVars, reqVars, readVars, bounds, history
<1>25. ASSUME Tick PROVE MutexInv'
  BY <1>25 DEF Tick,
     diskVars, reqVars, readVars, bounds, history
<1>26. ASSUME Crash PROVE MutexInv'
  BY <1>26 DEF Crash,
     diskVars, reqVars, readVars, bounds, history
<1>27. ASSUME NEW r \in Readers, StatDir(r) PROVE MutexInv'
  BY <1>27 DEF StatDir,
     diskVars, reqVars, readVars, bounds, history
<1>28. ASSUME NEW r \in Readers, StatExpiry(r) PROVE MutexInv'
  BY <1>28 DEF StatExpiry, Under, DeadlineOf, Forget,
     diskVars, reqVars, readVars, bounds, history
<1>29. ASSUME NEW r \in Readers, OpenSite(r) PROVE MutexInv'
  BY <1>29 DEF OpenSite, Under, DeadlineOf, Forget,
     diskVars, reqVars, readVars, bounds, history
<1>30. ASSUME NEW r \in Readers, ServeSite(r) PROVE MutexInv'
  BY <1>30 DEF ServeSite, Under, DeadlineOf, Forget,
     diskVars, reqVars, readVars, bounds, history
<1>31. ASSUME NEW r \in Readers, EndRead(r) PROVE MutexInv'
  BY <1>31 DEF EndRead, Forget,
     diskVars, reqVars, readVars, bounds, history
<1>32. ASSUME UNCHANGED vars PROVE MutexInv'
  BY <1>32 DEF vars, diskVars, reqVars, readVars, bounds, history
<1>33. ASSUME NEW p \in Procs, RemoveStage(p) PROVE MutexInv'
  BY <1>33 DEF RemoveStage, Fault, Goto,
     diskVars, reqVars, readVars, bounds, history
<1>34. ASSUME NEW p \in Procs, AsideUnseen(p) PROVE MutexInv'
  BY <1>34 DEF AsideUnseen, Fault, Goto,
     diskVars, reqVars, readVars, bounds, history
<1>35. ASSUME NEW p \in Procs, DeleteUnseen(p) PROVE MutexInv'
  BY <1>35 DEF DeleteUnseen, Fault, Goto,
     diskVars, reqVars, readVars, bounds, history
<1> QED
  BY <1>1, <1>2, <1>3, <1>4, <1>5, <1>6, <1>7, <1>8, <1>9, <1>10, <1>11,
     <1>12, <1>13, <1>14, <1>15, <1>16, <1>17, <1>18, <1>19, <1>20, <1>21,
     <1>22, <1>23, <1>24, <1>25, <1>26, <1>27, <1>28, <1>29, <1>30, <1>31,
     <1>32, <1>33, <1>34, <1>35
  DEF Next, Replace, Delete, Mutate, Reap, Read

\* Uploads are numbered once, and only Aside fills a push's `backup`.
LEMMA VersionsNext == TypeInv /\ MutexInv /\ Numbering /\ [Next]_vars =>
  Numbering'
<1> SUFFICES ASSUME TypeInv /\ MutexInv /\ Numbering, [Next]_vars
             PROVE  Numbering'
  OBVIOUS
<1> USE ProcsAssumption, BoundsAssumption
    DEF TypeInv, TypeOK, MutexInv, Mutex, Numbering, Below, Unique,
        KeptOnlyAfterAside, Versions, Absent, Outside, HasKept, Moved, Procs
<1>1. ASSUME NEW w \in Workers, PutSite(w) PROVE Numbering'
  <2>1. Below'
    <3>1. /\ pushes' = pushes + 1
          /\ UNCHANGED <<disk, kept>>
          /\ \A p \in Procs : ver'[p] = ver[p] \/ ver'[p] = pushes + 1
      BY <1>1 DEF PutSite, diskVars
    <3>2. TypeOK /\ Below
      OBVIOUS
    <3> HIDE DEF TypeInv, TypeOK, MutexInv, Mutex, Numbering, Unique,
                 KeptOnlyAfterAside, Versions, Outside, HasKept, Moved
    <3> QED
      BY <3>1, <3>2, NumbersType
  <2>2. Unique'
    BY <1>1 DEF PutSite, Goto,
       diskVars, reqVars, readVars, bounds, history
  <2>3. KeptOnlyAfterAside'
    BY <1>1 DEF PutSite, Goto,
       diskVars, reqVars, readVars, bounds, history
  <2> QED
    BY <2>1, <2>2, <2>3 DEF Numbering
<1>2. ASSUME NEW w \in Workers, UploadFails(w) PROVE Numbering'
  BY <1>2 DEF UploadFails, Goto,
     diskVars, reqVars, readVars, bounds, history
<1>3. ASSUME NEW w \in Workers, DeleteSite(w) PROVE Numbering'
  BY <1>3 DEF DeleteSite, Goto,
     diskVars, reqVars, readVars, bounds, history
<1>4. ASSUME NEW p \in Procs, LockMutation(p) PROVE Numbering'
  BY <1>4 DEF LockMutation, Goto,
     diskVars, reqVars, readVars, bounds, history
<1>5. ASSUME NEW p \in Procs, Stage(p) PROVE Numbering'
  BY <1>5 DEF Stage, Goto,
     diskVars, reqVars, readVars, bounds, history
<1>6. ASSUME NEW p \in Procs, StageFails(p) PROVE Numbering'
  BY <1>6 DEF StageFails, Goto,
     diskVars, reqVars, readVars, bounds, history
<1>7. ASSUME NEW p \in Procs, Aside(p) PROVE Numbering'
  BY <1>7 DEF Aside, Goto,
     diskVars, reqVars, readVars, bounds, history
<1>8. ASSUME NEW p \in Procs, AsideFails(p) PROVE Numbering'
  BY <1>8 DEF AsideFails, Fault, Goto,
     diskVars, reqVars, readVars, bounds, history
<1>9. ASSUME NEW p \in Procs, Install(p) PROVE Numbering'
  BY <1>9 DEF Install, Goto,
     diskVars, reqVars, readVars, bounds, history
<1>10. ASSUME NEW p \in Procs, InstallFails(p) PROVE Numbering'
  BY <1>10 DEF InstallFails, Fault, Goto,
     diskVars, reqVars, readVars, bounds, history
<1>11. ASSUME NEW p \in Procs, SetExpiry(p) PROVE Numbering'
  BY <1>11 DEF SetExpiry, Deadline, Goto,
     diskVars, reqVars, readVars, bounds, history
<1>12. ASSUME NEW p \in Procs, SetExpiryFails(p) PROVE Numbering'
  BY <1>12 DEF SetExpiryFails, Fault, Goto,
     diskVars, reqVars, readVars, bounds, history
<1>13. ASSUME NEW p \in Procs, Undo(p) PROVE Numbering'
  <2>1. Below'
    <3>1. /\ UNCHANGED <<ver, kept, pushes>>
          /\ \A s \in Sites : disk'[s] = disk[s] \/ disk'[s] = 0
      BY <1>13 DEF Undo, Fault, reqVars
    <3>2. TypeOK /\ Below
      OBVIOUS
    <3> HIDE DEF TypeInv, TypeOK, MutexInv, Mutex, Numbering, Unique,
                 KeptOnlyAfterAside, Versions, Outside, HasKept, Moved
    <3> QED
      BY <3>1, <3>2, NumbersType
  <2>2. Unique'
    BY <1>13 DEF Undo, Fault, Goto,
       diskVars, reqVars, readVars, bounds, history
  <2>3. KeptOnlyAfterAside'
    BY <1>13 DEF Undo, Fault, Goto,
       diskVars, reqVars, readVars, bounds, history
  <2> QED
    BY <2>1, <2>2, <2>3 DEF Numbering
<1>14. ASSUME NEW p \in Procs, Rollback(p) PROVE Numbering'
  BY <1>14 DEF Rollback, Unstaging, Fault, Goto,
     diskVars, reqVars, readVars, bounds, history
<1>15. ASSUME NEW p \in Procs, DropBackup(p) PROVE Numbering'
  BY <1>15 DEF DropBackup, Fault, Goto,
     diskVars, reqVars, readVars, bounds, history
<1>16. ASSUME NEW p \in Procs, StatInstalled(p) PROVE Numbering'
  BY <1>16 DEF StatInstalled, Fault, Goto,
     diskVars, reqVars, readVars, bounds, history
<1>17. ASSUME NEW p \in Procs, DeleteMissing(p) PROVE Numbering'
  BY <1>17 DEF DeleteMissing, Goto,
     diskVars, reqVars, readVars, bounds, history
<1>18. ASSUME NEW p \in Procs, RemoveBegins(p) PROVE Numbering'
  BY <1>18 DEF RemoveBegins, Goto,
     diskVars, reqVars, readVars, bounds, history
<1>19. ASSUME NEW p \in Procs, RemoveEnds(p) PROVE Numbering'
  BY <1>19 DEF RemoveEnds, Fault, Goto,
     diskVars, reqVars, readVars, bounds, history
<1>20. ASSUME NEW p \in Procs, UnlinkExpiry(p) PROVE Numbering'
  BY <1>20 DEF UnlinkExpiry, Fault, Done, Goto,
     diskVars, reqVars, readVars, bounds, history
<1>21. ASSUME NEW p \in Procs, Respond(p) PROVE Numbering'
  BY <1>21 DEF Respond, Goto,
     diskVars, reqVars, readVars, bounds, history
<1>22. ASSUME WatchExpiries PROVE Numbering'
  BY <1>22 DEF WatchExpiries, Goto,
     diskVars, reqVars, readVars, bounds, history
<1>23. ASSUME ListExpired PROVE Numbering'
  BY <1>23 DEF ListExpired, Fault, Goto,
     diskVars, reqVars, readVars, bounds, history
<1>24. ASSUME NextExpired PROVE Numbering'
  BY <1>24 DEF NextExpired, Goto,
     diskVars, reqVars, readVars, bounds, history
<1>25. ASSUME Tick PROVE Numbering'
  BY <1>25 DEF Tick,
     diskVars, reqVars, readVars, bounds, history
<1>26. ASSUME Crash PROVE Numbering'
  BY <1>26 DEF Crash,
     diskVars, reqVars, readVars, bounds, history
<1>27. ASSUME NEW r \in Readers, StatDir(r) PROVE Numbering'
  BY <1>27 DEF StatDir,
     diskVars, reqVars, readVars, bounds, history
<1>28. ASSUME NEW r \in Readers, StatExpiry(r) PROVE Numbering'
  BY <1>28 DEF StatExpiry, Under, DeadlineOf, Forget,
     diskVars, reqVars, readVars, bounds, history
<1>29. ASSUME NEW r \in Readers, OpenSite(r) PROVE Numbering'
  BY <1>29 DEF OpenSite, Under, DeadlineOf, Forget,
     diskVars, reqVars, readVars, bounds, history
<1>30. ASSUME NEW r \in Readers, ServeSite(r) PROVE Numbering'
  BY <1>30 DEF ServeSite, Under, DeadlineOf, Forget,
     diskVars, reqVars, readVars, bounds, history
<1>31. ASSUME NEW r \in Readers, EndRead(r) PROVE Numbering'
  BY <1>31 DEF EndRead, Forget,
     diskVars, reqVars, readVars, bounds, history
<1>32. ASSUME UNCHANGED vars PROVE Numbering'
  BY <1>32 DEF vars, diskVars, reqVars, readVars, bounds, history
<1>33. ASSUME NEW p \in Procs, RemoveStage(p) PROVE Numbering'
  BY <1>33 DEF RemoveStage, Fault, Goto,
     diskVars, reqVars, readVars, bounds, history
<1>34. ASSUME NEW p \in Procs, AsideUnseen(p) PROVE Numbering'
  BY <1>34 DEF AsideUnseen, Fault, Goto,
     diskVars, reqVars, readVars, bounds, history
<1>35. ASSUME NEW p \in Procs, DeleteUnseen(p) PROVE Numbering'
  BY <1>35 DEF DeleteUnseen, Fault, Goto,
     diskVars, reqVars, readVars, bounds, history
<1> QED
  BY <1>1, <1>2, <1>3, <1>4, <1>5, <1>6, <1>7, <1>8, <1>9, <1>10, <1>11,
     <1>12, <1>13, <1>14, <1>15, <1>16, <1>17, <1>18, <1>19, <1>20, <1>21,
     <1>22, <1>23, <1>24, <1>25, <1>26, <1>27, <1>28, <1>29, <1>30, <1>31,
     <1>32, <1>33, <1>34, <1>35
  DEF Next, Replace, Delete, Mutate, Reap, Read

\* A version whose push is under way is in its own site's directory or nowhere.
LEMMA PlacesNext == TypeInv /\ MutexInv /\ Numbering /\ Places /\ [Next]_vars
  => Places'
<1> SUFFICES ASSUME TypeInv /\ MutexInv /\ Numbering /\ Places, [Next]_vars
             PROVE  Places'
  OBVIOUS
<1> USE ProcsAssumption
    DEF TypeInv, TypeOK, MutexInv, Mutex, VerAtHand, Numbering, Below, Unique,
        KeptOnlyAfterAside, Places, Pushing, Unused, Owner, Installed,
        Removed, Absent, Outside, HasKept, Moved, Unset, Procs
<1>1. ASSUME NEW w \in Workers, PutSite(w) PROVE Places'
  <2>1. Pushing'
    <3>1. /\ UNCHANGED due
          /\ pc' = [pc EXCEPT ![w] = "put"]
          /\ ver' = [ver EXCEPT ![w] = pushes + 1]
          /\ pushes < MaxPushes
      BY <1>1 DEF PutSite, Goto, history
    <3>2. due[pushes + 1] = Pending
      BY <3>1, BoundsAssumption DEF Unused, Versions
    <3>3. ASSUME NEW p \in Procs, pc'[p] \in Unset PROVE due'[ver'[p]] = Pending
      BY <3>1, <3>2, <3>3
    <3> QED
      BY <3>3
  <2>2. Unused'
    BY <1>1 DEF PutSite, Goto, Versions,
       diskVars, reqVars, readVars, bounds, history
  <2>3. Owner'
    BY <1>1 DEF PutSite, Goto, Versions,
       diskVars, reqVars, readVars, bounds, history
  <2>4. Installed'
    BY <1>1 DEF PutSite, Goto, Versions,
       diskVars, reqVars, readVars, bounds, history
  <2>5. Removed'
    BY <1>1 DEF PutSite, Goto, Versions,
       diskVars, reqVars, readVars, bounds, history
  <2> QED
    BY <2>1, <2>2, <2>3, <2>4, <2>5 DEF Places
<1>2. ASSUME NEW w \in Workers, UploadFails(w) PROVE Places'
  BY <1>2 DEF UploadFails, Goto,
     diskVars, reqVars, readVars, bounds, history
<1>3. ASSUME NEW w \in Workers, DeleteSite(w) PROVE Places'
  BY <1>3 DEF DeleteSite, Goto,
     diskVars, reqVars, readVars, bounds, history
<1>4. ASSUME NEW p \in Procs, LockMutation(p) PROVE Places'
  BY <1>4 DEF LockMutation, Goto,
     diskVars, reqVars, readVars, bounds, history
<1>5. ASSUME NEW p \in Procs, Stage(p) PROVE Places'
  BY <1>5 DEF Stage, Goto,
     diskVars, reqVars, readVars, bounds, history
<1>6. ASSUME NEW p \in Procs, StageFails(p) PROVE Places'
  BY <1>6 DEF StageFails, Goto,
     diskVars, reqVars, readVars, bounds, history
<1>7. ASSUME NEW p \in Procs, Aside(p) PROVE Places'
  <2>1. Pushing'
    BY <1>7 DEF Aside, Goto,
       diskVars, reqVars, readVars, bounds, history
  <2>2. Unused'
    BY <1>7 DEF Aside, Goto,
       diskVars, reqVars, readVars, bounds, history
  <2>3. Owner'
    BY <1>7 DEF Aside, Goto,
       diskVars, reqVars, readVars, bounds, history
  <2>4. Installed'
    BY <1>7 DEF Aside, Goto,
       diskVars, reqVars, readVars, bounds, history
  <2>5. Removed'
    BY <1>7 DEF Aside, Goto,
       diskVars, reqVars, readVars, bounds, history
  <2> QED
    BY <2>1, <2>2, <2>3, <2>4, <2>5 DEF Places
<1>8. ASSUME NEW p \in Procs, AsideFails(p) PROVE Places'
  BY <1>8 DEF AsideFails, Fault, Goto,
     diskVars, reqVars, readVars, bounds, history
<1>9. ASSUME NEW p \in Procs, Install(p) PROVE Places'
  <2>1. Pushing'
    BY <1>9 DEF Install, Goto,
       diskVars, reqVars, readVars, bounds, history
  <2>2. Unused'
    BY <1>9 DEF Install, Goto,
       diskVars, reqVars, readVars, bounds, history
  <2>3. Owner'
    BY <1>9 DEF Install, Goto,
       diskVars, reqVars, readVars, bounds, history
  <2>4. Installed'
    BY <1>9 DEF Install, Goto,
       diskVars, reqVars, readVars, bounds, history
  <2>5. Removed'
    BY <1>9 DEF Install, Goto,
       diskVars, reqVars, readVars, bounds, history
  <2> QED
    BY <2>1, <2>2, <2>3, <2>4, <2>5 DEF Places
<1>10. ASSUME NEW p \in Procs, InstallFails(p) PROVE Places'
  BY <1>10 DEF InstallFails, Fault, Goto,
     diskVars, reqVars, readVars, bounds, history
<1>11. ASSUME NEW p \in Procs, SetExpiry(p) PROVE Places'
  BY <1>11 DEF SetExpiry, Deadline, Goto, Versions,
     diskVars, reqVars, readVars, bounds, history
<1>12. ASSUME NEW p \in Procs, SetExpiryFails(p) PROVE Places'
  BY <1>12 DEF SetExpiryFails, Fault, Goto,
     diskVars, reqVars, readVars, bounds, history
<1>13. ASSUME NEW p \in Procs, Undo(p) PROVE Places'
  <2>1. Pushing'
    BY <1>13 DEF Undo, Fault, Goto,
       diskVars, reqVars, readVars, bounds, history
  <2>2. Unused'
    BY <1>13 DEF Undo, Fault, Goto,
       diskVars, reqVars, readVars, bounds, history
  <2>3. Owner'
    BY <1>13 DEF Undo, Fault, Goto,
       diskVars, reqVars, readVars, bounds, history
  <2>4. Installed'
    BY <1>13 DEF Undo, Fault, Goto,
       diskVars, reqVars, readVars, bounds, history
  <2>5. Removed'
    BY <1>13 DEF Undo, Fault, Goto,
       diskVars, reqVars, readVars, bounds, history
  <2> QED
    BY <2>1, <2>2, <2>3, <2>4, <2>5 DEF Places
<1>14. ASSUME NEW p \in Procs, Rollback(p) PROVE Places'
  <2>1. Pushing'
    BY <1>14 DEF Rollback, Unstaging, Fault, Goto,
       diskVars, reqVars, readVars, bounds, history
  <2>2. Unused'
    BY <1>14 DEF Rollback, Unstaging, Fault, Goto,
       diskVars, reqVars, readVars, bounds, history
  <2>3. Owner'
    BY <1>14 DEF Rollback, Unstaging, Fault, Goto,
       diskVars, reqVars, readVars, bounds, history
  <2>4. Installed'
    BY <1>14 DEF Rollback, Unstaging, Fault, Goto,
       diskVars, reqVars, readVars, bounds, history
  <2>5. Removed'
    BY <1>14 DEF Rollback, Unstaging, Fault, Goto,
       diskVars, reqVars, readVars, bounds, history
  <2> QED
    BY <2>1, <2>2, <2>3, <2>4, <2>5 DEF Places
<1>15. ASSUME NEW p \in Procs, DropBackup(p) PROVE Places'
  BY <1>15 DEF DropBackup, Fault, Goto,
     diskVars, reqVars, readVars, bounds, history
<1>16. ASSUME NEW p \in Procs, StatInstalled(p) PROVE Places'
  BY <1>16 DEF StatInstalled, Fault, Goto,
     diskVars, reqVars, readVars, bounds, history
<1>17. ASSUME NEW p \in Procs, DeleteMissing(p) PROVE Places'
  BY <1>17 DEF DeleteMissing, Goto,
     diskVars, reqVars, readVars, bounds, history
<1>18. ASSUME NEW p \in Procs, RemoveBegins(p) PROVE Places'
  BY <1>18 DEF RemoveBegins, Goto,
     diskVars, reqVars, readVars, bounds, history
<1>19. ASSUME NEW p \in Procs, RemoveEnds(p) PROVE Places'
  <2>1. Pushing'
    BY <1>19 DEF RemoveEnds, Fault, Goto,
       diskVars, reqVars, readVars, bounds, history
  <2>2. Unused'
    BY <1>19 DEF RemoveEnds, Fault, Goto,
       diskVars, reqVars, readVars, bounds, history
  <2>3. Owner'
    BY <1>19 DEF RemoveEnds, Fault, Goto,
       diskVars, reqVars, readVars, bounds, history
  <2>4. Installed'
    BY <1>19 DEF RemoveEnds, Fault, Goto,
       diskVars, reqVars, readVars, bounds, history
  <2>5. Removed'
    BY <1>19 DEF RemoveEnds, Fault, Goto,
       diskVars, reqVars, readVars, bounds, history
  <2> QED
    BY <2>1, <2>2, <2>3, <2>4, <2>5 DEF Places
<1>20. ASSUME NEW p \in Procs, UnlinkExpiry(p) PROVE Places'
  BY <1>20 DEF UnlinkExpiry, Fault, Done, Goto,
     diskVars, reqVars, readVars, bounds, history
<1>21. ASSUME NEW p \in Procs, Respond(p) PROVE Places'
  BY <1>21 DEF Respond, Goto,
     diskVars, reqVars, readVars, bounds, history
<1>22. ASSUME WatchExpiries PROVE Places'
  BY <1>22 DEF WatchExpiries, Goto,
     diskVars, reqVars, readVars, bounds, history
<1>23. ASSUME ListExpired PROVE Places'
  BY <1>23 DEF ListExpired, Fault, Goto,
     diskVars, reqVars, readVars, bounds, history
<1>24. ASSUME NextExpired PROVE Places'
  BY <1>24 DEF NextExpired, Goto,
     diskVars, reqVars, readVars, bounds, history
<1>25. ASSUME Tick PROVE Places'
  BY <1>25 DEF Tick,
     diskVars, reqVars, readVars, bounds, history
<1>26. ASSUME Crash PROVE Places'
  BY <1>26 DEF Crash,
     diskVars, reqVars, readVars, bounds, history
<1>27. ASSUME NEW r \in Readers, StatDir(r) PROVE Places'
  BY <1>27 DEF StatDir,
     diskVars, reqVars, readVars, bounds, history
<1>28. ASSUME NEW r \in Readers, StatExpiry(r) PROVE Places'
  BY <1>28 DEF StatExpiry, Under, DeadlineOf, Forget,
     diskVars, reqVars, readVars, bounds, history
<1>29. ASSUME NEW r \in Readers, OpenSite(r) PROVE Places'
  BY <1>29 DEF OpenSite, Under, DeadlineOf, Forget,
     diskVars, reqVars, readVars, bounds, history
<1>30. ASSUME NEW r \in Readers, ServeSite(r) PROVE Places'
  BY <1>30 DEF ServeSite, Under, DeadlineOf, Forget,
     diskVars, reqVars, readVars, bounds, history
<1>31. ASSUME NEW r \in Readers, EndRead(r) PROVE Places'
  BY <1>31 DEF EndRead, Forget,
     diskVars, reqVars, readVars, bounds, history
<1>32. ASSUME UNCHANGED vars PROVE Places'
  BY <1>32 DEF vars, diskVars, reqVars, readVars, bounds, history
<1>33. ASSUME NEW p \in Procs, RemoveStage(p) PROVE Places'
  BY <1>33 DEF RemoveStage, Fault, Goto,
     diskVars, reqVars, readVars, bounds, history
<1>34. ASSUME NEW p \in Procs, AsideUnseen(p) PROVE Places'
  BY <1>34 DEF AsideUnseen, Fault, Goto,
     diskVars, reqVars, readVars, bounds, history
<1>35. ASSUME NEW p \in Procs, DeleteUnseen(p) PROVE Places'
  BY <1>35 DEF DeleteUnseen, Fault, Goto,
     diskVars, reqVars, readVars, bounds, history
<1> QED
  BY <1>1, <1>2, <1>3, <1>4, <1>5, <1>6, <1>7, <1>8, <1>9, <1>10, <1>11,
     <1>12, <1>13, <1>14, <1>15, <1>16, <1>17, <1>18, <1>19, <1>20, <1>21,
     <1>22, <1>23, <1>24, <1>25, <1>26, <1>27, <1>28, <1>29, <1>30, <1>31,
     <1>32, <1>33, <1>34, <1>35
  DEF Next, Replace, Delete, Mutate, Reap, Read

\* Every way a directory or an expiry file changes keeps them matched: Install
\* brings a version without a deadline, SetExpiry writes both sides at once,
\* Rollback returns what the file still belongs to, and UnlinkExpiry comes
\* after the directory is gone.
LEMMA FileNext == TypeInv /\ MutexInv /\ Numbering /\ Places /\ FileInv /\
  [Next]_vars => FileInv'
<1> SUFFICES ASSUME TypeInv /\ MutexInv /\ Numbering /\ Places /\ FileInv,
                    [Next]_vars
             PROVE  FileInv'
  OBVIOUS
<1> USE ProcsAssumption
    DEF TypeInv, TypeOK, VerAtHand, MutexInv, Mutex, Places, Pushing, Unused,
        Owner, Installed, Removed, FileInv, DiskMatchesFile, KeptMatchesFile,
        Outside, Moved, Unset, Procs
<1>1. ASSUME NEW w \in Workers, PutSite(w) PROVE FileInv'
  BY <1>1 DEF PutSite, Goto,
     diskVars, reqVars, readVars, bounds, history
<1>2. ASSUME NEW w \in Workers, UploadFails(w) PROVE FileInv'
  BY <1>2 DEF UploadFails, Goto,
     diskVars, reqVars, readVars, bounds, history
<1>3. ASSUME NEW w \in Workers, DeleteSite(w) PROVE FileInv'
  BY <1>3 DEF DeleteSite, Goto,
     diskVars, reqVars, readVars, bounds, history
<1>4. ASSUME NEW p \in Procs, LockMutation(p) PROVE FileInv'
  BY <1>4 DEF LockMutation, Goto,
     diskVars, reqVars, readVars, bounds, history
<1>5. ASSUME NEW p \in Procs, Stage(p) PROVE FileInv'
  BY <1>5 DEF Stage, Goto,
     diskVars, reqVars, readVars, bounds, history
<1>6. ASSUME NEW p \in Procs, StageFails(p) PROVE FileInv'
  BY <1>6 DEF StageFails, Goto,
     diskVars, reqVars, readVars, bounds, history
<1>7. ASSUME NEW p \in Procs, Aside(p) PROVE FileInv'
  BY <1>7 DEF Aside, Goto,
     diskVars, reqVars, readVars, bounds, history
<1>8. ASSUME NEW p \in Procs, AsideFails(p) PROVE FileInv'
  BY <1>8 DEF AsideFails, Fault, Goto,
     diskVars, reqVars, readVars, bounds, history
<1>9. ASSUME NEW p \in Procs, Install(p) PROVE FileInv'
  BY <1>9 DEF Install, Goto,
     diskVars, reqVars, readVars, bounds, history
<1>10. ASSUME NEW p \in Procs, InstallFails(p) PROVE FileInv'
  BY <1>10 DEF InstallFails, Fault, Goto,
     diskVars, reqVars, readVars, bounds, history
<1>11. ASSUME NEW p \in Procs, SetExpiry(p) PROVE FileInv'
  BY <1>11 DEF SetExpiry, Deadline, Goto,
     diskVars, reqVars, readVars, bounds, history
<1>12. ASSUME NEW p \in Procs, SetExpiryFails(p) PROVE FileInv'
  BY <1>12 DEF SetExpiryFails, Fault, Goto,
     diskVars, reqVars, readVars, bounds, history
<1>13. ASSUME NEW p \in Procs, Undo(p) PROVE FileInv'
  BY <1>13 DEF Undo, Fault, Goto,
     diskVars, reqVars, readVars, bounds, history
<1>14. ASSUME NEW p \in Procs, Rollback(p) PROVE FileInv'
  BY <1>14 DEF Rollback, Unstaging, Fault, Goto,
     diskVars, reqVars, readVars, bounds, history
<1>15. ASSUME NEW p \in Procs, DropBackup(p) PROVE FileInv'
  BY <1>15 DEF DropBackup, Fault, Goto,
     diskVars, reqVars, readVars, bounds, history
<1>16. ASSUME NEW p \in Procs, StatInstalled(p) PROVE FileInv'
  BY <1>16 DEF StatInstalled, Fault, Goto,
     diskVars, reqVars, readVars, bounds, history
<1>17. ASSUME NEW p \in Procs, DeleteMissing(p) PROVE FileInv'
  BY <1>17 DEF DeleteMissing, Goto,
     diskVars, reqVars, readVars, bounds, history
<1>18. ASSUME NEW p \in Procs, RemoveBegins(p) PROVE FileInv'
  BY <1>18 DEF RemoveBegins, Goto,
     diskVars, reqVars, readVars, bounds, history
<1>19. ASSUME NEW p \in Procs, RemoveEnds(p) PROVE FileInv'
  BY <1>19 DEF RemoveEnds, Fault, Goto,
     diskVars, reqVars, readVars, bounds, history
<1>20. ASSUME NEW p \in Procs, UnlinkExpiry(p) PROVE FileInv'
  BY <1>20 DEF UnlinkExpiry, Fault, Done, Goto,
     diskVars, reqVars, readVars, bounds, history
<1>21. ASSUME NEW p \in Procs, Respond(p) PROVE FileInv'
  BY <1>21 DEF Respond, Goto,
     diskVars, reqVars, readVars, bounds, history
<1>22. ASSUME WatchExpiries PROVE FileInv'
  BY <1>22 DEF WatchExpiries, Goto,
     diskVars, reqVars, readVars, bounds, history
<1>23. ASSUME ListExpired PROVE FileInv'
  BY <1>23 DEF ListExpired, Fault, Goto,
     diskVars, reqVars, readVars, bounds, history
<1>24. ASSUME NextExpired PROVE FileInv'
  BY <1>24 DEF NextExpired, Goto,
     diskVars, reqVars, readVars, bounds, history
<1>25. ASSUME Tick PROVE FileInv'
  BY <1>25 DEF Tick,
     diskVars, reqVars, readVars, bounds, history
<1>26. ASSUME Crash PROVE FileInv'
  BY <1>26 DEF Crash,
     diskVars, reqVars, readVars, bounds, history
<1>27. ASSUME NEW r \in Readers, StatDir(r) PROVE FileInv'
  BY <1>27 DEF StatDir,
     diskVars, reqVars, readVars, bounds, history
<1>28. ASSUME NEW r \in Readers, StatExpiry(r) PROVE FileInv'
  BY <1>28 DEF StatExpiry, Under, DeadlineOf, Forget,
     diskVars, reqVars, readVars, bounds, history
<1>29. ASSUME NEW r \in Readers, OpenSite(r) PROVE FileInv'
  BY <1>29 DEF OpenSite, Under, DeadlineOf, Forget,
     diskVars, reqVars, readVars, bounds, history
<1>30. ASSUME NEW r \in Readers, ServeSite(r) PROVE FileInv'
  BY <1>30 DEF ServeSite, Under, DeadlineOf, Forget,
     diskVars, reqVars, readVars, bounds, history
<1>31. ASSUME NEW r \in Readers, EndRead(r) PROVE FileInv'
  BY <1>31 DEF EndRead, Forget,
     diskVars, reqVars, readVars, bounds, history
<1>32. ASSUME UNCHANGED vars PROVE FileInv'
  BY <1>32 DEF vars, diskVars, reqVars, readVars, bounds, history
<1>33. ASSUME NEW p \in Procs, RemoveStage(p) PROVE FileInv'
  BY <1>33 DEF RemoveStage, Fault, Goto,
     diskVars, reqVars, readVars, bounds, history
<1>34. ASSUME NEW p \in Procs, AsideUnseen(p) PROVE FileInv'
  <2>1. kept[p] = Absent /\ kept' = kept
    BY <1>34 DEF AsideUnseen, Goto, reqVars, Numbering, KeptOnlyAfterAside, HasKept,
       Moved
  <2> QED
    BY <1>34, <2>1 DEF AsideUnseen, Fault, Goto,
       diskVars, reqVars, readVars, bounds, history
<1>35. ASSUME NEW p \in Procs, DeleteUnseen(p) PROVE FileInv'
  BY <1>35 DEF DeleteUnseen, Fault, Goto,
     diskVars, reqVars, readVars, bounds, history
<1> QED
  BY <1>1, <1>2, <1>3, <1>4, <1>5, <1>6, <1>7, <1>8, <1>9, <1>10, <1>11,
     <1>12, <1>13, <1>14, <1>15, <1>16, <1>17, <1>18, <1>19, <1>20, <1>21,
     <1>22, <1>23, <1>24, <1>25, <1>26, <1>27, <1>28, <1>29, <1>30, <1>31,
     <1>32, <1>33, <1>34, <1>35
  DEF Next, Replace, Delete, Mutate, Reap, Read

\* A reader past its check can only be served what the check covered, or a
\* version whose deadline was set after the reader arrived.
LEMMA ReaderNext == TypeInv /\ MutexInv /\ Numbering /\ Places /\ FileInv /\
  ReaderInv /\ [Next]_vars => ReaderInv'
<1> SUFFICES ASSUME TypeInv /\ MutexInv /\ Numbering /\ Places /\ FileInv /\
                    ReaderInv, [Next]_vars
             PROVE  ReaderInv'
  OBVIOUS
<1> USE ProcsAssumption
    DEF TypeInv, TypeOK, VerAtHand, MutexInv, Mutex, Pushing, Places, FileInv,
        DiskMatchesFile, KeptMatchesFile, ReaderInv, SinceInThePast,
        CheckedDisk, CheckedKept, Served, StillOpen, Outside, Moved, Unset,
        Procs
<1>1. ASSUME NEW w \in Workers, PutSite(w) PROVE ReaderInv'
  BY <1>1 DEF PutSite, Goto,
     diskVars, reqVars, readVars, bounds, history
<1>2. ASSUME NEW w \in Workers, UploadFails(w) PROVE ReaderInv'
  BY <1>2 DEF UploadFails, Goto,
     diskVars, reqVars, readVars, bounds, history
<1>3. ASSUME NEW w \in Workers, DeleteSite(w) PROVE ReaderInv'
  BY <1>3 DEF DeleteSite, Goto,
     diskVars, reqVars, readVars, bounds, history
<1>4. ASSUME NEW p \in Procs, LockMutation(p) PROVE ReaderInv'
  BY <1>4 DEF LockMutation, Goto,
     diskVars, reqVars, readVars, bounds, history
<1>5. ASSUME NEW p \in Procs, Stage(p) PROVE ReaderInv'
  BY <1>5 DEF Stage, Goto,
     diskVars, reqVars, readVars, bounds, history
<1>6. ASSUME NEW p \in Procs, StageFails(p) PROVE ReaderInv'
  BY <1>6 DEF StageFails, Goto,
     diskVars, reqVars, readVars, bounds, history
<1>7. ASSUME NEW p \in Procs, Aside(p) PROVE ReaderInv'
  BY <1>7 DEF Aside, Goto,
     diskVars, reqVars, readVars, bounds, history
<1>8. ASSUME NEW p \in Procs, AsideFails(p) PROVE ReaderInv'
  BY <1>8 DEF AsideFails, Fault, Goto,
     diskVars, reqVars, readVars, bounds, history
<1>9. ASSUME NEW p \in Procs, Install(p) PROVE ReaderInv'
  BY <1>9 DEF Install, Goto,
     diskVars, reqVars, readVars, bounds, history
<1>10. ASSUME NEW p \in Procs, InstallFails(p) PROVE ReaderInv'
  BY <1>10 DEF InstallFails, Fault, Goto,
     diskVars, reqVars, readVars, bounds, history
<1>11. ASSUME NEW p \in Procs, SetExpiry(p) PROVE ReaderInv'
  <2>0. /\ UNCHANGED <<clock, disk, readVars, site, kept>>
        /\ pc' = [pc EXCEPT ![p] = "drop"]
        /\ \A v \in Versions : \/ due'[v] = due[v]
                               \/ due'[v] = Deadline(clock, ttl[p])
    BY <1>11 DEF SetExpiry, Goto, reqVars
  <2>a. ASSUME NEW r \in Readers, NEW v \in Versions, StillOpen(due[v], since[r])
        PROVE  StillOpen(due'[v], since'[r])
    <3>1. /\ clock \in Nat /\ since[r] \in Nat /\ since[r] <= clock
          /\ ttl[p] \in (Nat \ {0}) \cup {Never}
      BY TTLsAssumption
    <3>2. ~Elapsed(Deadline(clock, ttl[p]), since[r])
      BY <3>1, DeadlineAhead
    <3> QED
      BY <2>0, <2>a, <3>2 DEF readVars
  <2>1. SinceInThePast'
    BY <2>0 DEF readVars
  <2>2. CheckedDisk'
    BY <2>0, <2>a DEF readVars
  <2>3. CheckedKept'
    BY <2>0, <2>a DEF readVars
  <2>4. Served'
    BY <2>0, <2>a DEF readVars
  <2> QED
    BY <2>1, <2>2, <2>3, <2>4 DEF ReaderInv
<1>12. ASSUME NEW p \in Procs, SetExpiryFails(p) PROVE ReaderInv'
  BY <1>12 DEF SetExpiryFails, Fault, Goto,
     diskVars, reqVars, readVars, bounds, history
<1>13. ASSUME NEW p \in Procs, Undo(p) PROVE ReaderInv'
  BY <1>13 DEF Undo, Fault, Goto,
     diskVars, reqVars, readVars, bounds, history
<1>14. ASSUME NEW p \in Procs, Rollback(p) PROVE ReaderInv'
  BY <1>14 DEF Rollback, Unstaging, Fault, Goto,
     diskVars, reqVars, readVars, bounds, history
<1>15. ASSUME NEW p \in Procs, DropBackup(p) PROVE ReaderInv'
  BY <1>15 DEF DropBackup, Fault, Goto,
     diskVars, reqVars, readVars, bounds, history
<1>16. ASSUME NEW p \in Procs, StatInstalled(p) PROVE ReaderInv'
  BY <1>16 DEF StatInstalled, Fault, Goto,
     diskVars, reqVars, readVars, bounds, history
<1>17. ASSUME NEW p \in Procs, DeleteMissing(p) PROVE ReaderInv'
  BY <1>17 DEF DeleteMissing, Goto,
     diskVars, reqVars, readVars, bounds, history
<1>18. ASSUME NEW p \in Procs, RemoveBegins(p) PROVE ReaderInv'
  BY <1>18 DEF RemoveBegins, Goto,
     diskVars, reqVars, readVars, bounds, history
<1>19. ASSUME NEW p \in Procs, RemoveEnds(p) PROVE ReaderInv'
  BY <1>19 DEF RemoveEnds, Fault, Goto,
     diskVars, reqVars, readVars, bounds, history
<1>20. ASSUME NEW p \in Procs, UnlinkExpiry(p) PROVE ReaderInv'
  BY <1>20 DEF UnlinkExpiry, Fault, Done, Goto,
     diskVars, reqVars, readVars, bounds, history
<1>21. ASSUME NEW p \in Procs, Respond(p) PROVE ReaderInv'
  BY <1>21 DEF Respond, Goto,
     diskVars, reqVars, readVars, bounds, history
<1>22. ASSUME WatchExpiries PROVE ReaderInv'
  BY <1>22 DEF WatchExpiries, Goto,
     diskVars, reqVars, readVars, bounds, history
<1>23. ASSUME ListExpired PROVE ReaderInv'
  BY <1>23 DEF ListExpired, Fault, Goto,
     diskVars, reqVars, readVars, bounds, history
<1>24. ASSUME NextExpired PROVE ReaderInv'
  BY <1>24 DEF NextExpired, Goto,
     diskVars, reqVars, readVars, bounds, history
<1>25. ASSUME Tick PROVE ReaderInv'
  BY <1>25 DEF Tick,
     diskVars, reqVars, readVars, bounds, history
<1>26. ASSUME Crash PROVE ReaderInv'
  BY <1>26 DEF Crash,
     diskVars, reqVars, readVars, bounds, history
<1>27. ASSUME NEW r \in Readers, StatDir(r) PROVE ReaderInv'
  BY <1>27 DEF StatDir,
     diskVars, reqVars, readVars, bounds, history
<1>28. ASSUME NEW r \in Readers, StatExpiry(r) PROVE ReaderInv'
  <2>0. /\ UNCHANGED <<clock, diskVars, pc, reqVars, history>>
        /\ \A q \in Readers : at'[q] \in {"open", "serve"} =>
              /\ asked'[q] = asked[q] /\ old'[q] = old[q] /\ since'[q] = since[q]
              /\ \/ at[q] \in {"open", "serve"}
                 \/ old[q] = Absent => ~Elapsed(expiryFile[asked[q]], clock)
    BY <1>28 DEF StatExpiry, Under, DeadlineOf, Forget
  <2>a. ASSUME NEW q \in Readers, NEW s \in Sites, NEW d,
               ~Elapsed(expiryFile[s], clock),
               d = Pending \/ d = expiryFile[s]
        PROVE  StillOpen(d, since[q])
    <3>1. /\ clock \in Nat /\ since[q] \in Nat /\ since[q] <= clock
          /\ expiryFile[s] \in Deadlines
      OBVIOUS
    <3>2. ~Elapsed(expiryFile[s], since[q])
      BY <2>a, <3>1, ElapsedLater
    <3> QED
      BY <2>a, <3>2
  <2>1. SinceInThePast'
    BY <1>28 DEF StatExpiry, Under, DeadlineOf, Forget
  <2>2. CheckedDisk'
    <3>1. ASSUME NEW q \in Readers, at'[q] \in {"open", "serve"},
                 old'[q] = Absent, disk'[asked'[q]] # Absent
          PROVE  StillOpen(due'[disk'[asked'[q]]], since'[q])
      BY <2>0, <2>a, <3>1 DEF diskVars, history
    <3> QED
      BY <3>1
  <2>3. CheckedKept'
    <3>1. ASSUME NEW q \in Readers, NEW p \in Procs, at'[q] \in {"open", "serve"},
                 old'[q] = Absent, pc'[p] \in Moved, site'[p] = asked'[q],
                 kept'[p] # Absent
          PROVE  StillOpen(due'[kept'[p]], since'[q])
      BY <2>0, <2>a, <3>1 DEF reqVars, history
    <3> QED
      BY <3>1
  <2>4. Served'
    BY <1>28 DEF StatExpiry, Under, DeadlineOf, Forget,
       diskVars, reqVars, readVars, bounds, history
  <2> QED
    BY <2>1, <2>2, <2>3, <2>4 DEF ReaderInv
<1>29. ASSUME NEW r \in Readers, OpenSite(r) PROVE ReaderInv'
  <2>0. /\ UNCHANGED <<clock, disk, due, pc, site, kept>>
        /\ \A q \in Readers : at'[q] \in {"open", "serve"} =>
              /\ at[q] \in {"open", "serve"}
              /\ asked'[q] = asked[q] /\ old'[q] = old[q] /\ since'[q] = since[q]
    BY <1>29 DEF OpenSite, Under, DeadlineOf, Forget, diskVars, reqVars, history
  <2>1. SinceInThePast'
    BY <1>29 DEF OpenSite, Under, DeadlineOf, Forget
  <2>2. CheckedDisk'
    BY <2>0
  <2>3. CheckedKept'
    BY <2>0
  <2>4. Served'
    BY <1>29 DEF OpenSite, Under, DeadlineOf, Forget, diskVars, history
  <2> QED
    BY <2>1, <2>2, <2>3, <2>4 DEF ReaderInv
<1>30. ASSUME NEW r \in Readers, ServeSite(r) PROVE ReaderInv'
  <2>0. /\ UNCHANGED <<clock, disk, due, pc, site, kept>>
        /\ \A q \in Readers : at'[q] \in {"open", "serve"} =>
              /\ at'[q] = at[q] /\ asked'[q] = asked[q] /\ old'[q] = old[q]
              /\ since'[q] = since[q]
    BY <1>30 DEF ServeSite, Under, DeadlineOf, Forget, diskVars, reqVars, history
  <2>1. SinceInThePast'
    BY <1>30 DEF ServeSite, Under, DeadlineOf, Forget
  <2>2. CheckedDisk'
    BY <2>0
  <2>3. CheckedKept'
    BY <2>0
  <2>4. Served'
    BY <1>30 DEF ServeSite, Under, DeadlineOf, Forget, diskVars, history
  <2> QED
    BY <2>1, <2>2, <2>3, <2>4 DEF ReaderInv
<1>31. ASSUME NEW r \in Readers, EndRead(r) PROVE ReaderInv'
  BY <1>31 DEF EndRead, Forget,
     diskVars, reqVars, readVars, bounds, history
<1>32. ASSUME UNCHANGED vars PROVE ReaderInv'
  BY <1>32 DEF vars, diskVars, reqVars, readVars, bounds, history
<1>33. ASSUME NEW p \in Procs, RemoveStage(p) PROVE ReaderInv'
  BY <1>33 DEF RemoveStage, Fault, Goto,
     diskVars, reqVars, readVars, bounds, history
<1>34. ASSUME NEW p \in Procs, AsideUnseen(p) PROVE ReaderInv'
  <2>1. kept[p] = Absent /\ kept' = kept
    BY <1>34 DEF AsideUnseen, Goto, reqVars, Numbering, KeptOnlyAfterAside, HasKept,
       Moved
  <2> QED
    BY <1>34, <2>1 DEF AsideUnseen, Fault, Goto,
       diskVars, reqVars, readVars, bounds, history
<1>35. ASSUME NEW p \in Procs, DeleteUnseen(p) PROVE ReaderInv'
  BY <1>35 DEF DeleteUnseen, Fault, Goto,
     diskVars, reqVars, readVars, bounds, history
<1> QED
  BY <1>1, <1>2, <1>3, <1>4, <1>5, <1>6, <1>7, <1>8, <1>9, <1>10, <1>11,
     <1>12, <1>13, <1>14, <1>15, <1>16, <1>17, <1>18, <1>19, <1>20, <1>21,
     <1>22, <1>23, <1>24, <1>25, <1>26, <1>27, <1>28, <1>29, <1>30, <1>31,
     <1>32, <1>33, <1>34, <1>35
  DEF Next, Replace, Delete, Mutate, Reap, Read

\* Nobody but the reaper changes an expiry file while it works its list off.
LEMMA ReaperListNext == TypeInv /\ MutexInv /\ ReaperList /\ [Next]_vars =>
  ReaperList'
<1> SUFFICES ASSUME TypeInv /\ MutexInv /\ ReaperList, [Next]_vars
             PROVE  ReaperList'
  OBVIOUS
<1> USE ProcsAssumption
    DEF TypeInv, TypeOK, MutexInv, Mutex, ReaperOnlyReaps, ReaperList,
        Elapsed, Outside, Deleting, Unset, Procs
<1>1. ASSUME NEW w \in Workers, PutSite(w) PROVE ReaperList'
  BY <1>1 DEF PutSite, Goto,
     diskVars, reqVars, readVars, bounds, history
<1>2. ASSUME NEW w \in Workers, UploadFails(w) PROVE ReaperList'
  BY <1>2 DEF UploadFails, Goto,
     diskVars, reqVars, readVars, bounds, history
<1>3. ASSUME NEW w \in Workers, DeleteSite(w) PROVE ReaperList'
  BY <1>3 DEF DeleteSite, Goto,
     diskVars, reqVars, readVars, bounds, history
<1>4. ASSUME NEW p \in Procs, LockMutation(p) PROVE ReaperList'
  BY <1>4 DEF LockMutation, Goto,
     diskVars, reqVars, readVars, bounds, history
<1>5. ASSUME NEW p \in Procs, Stage(p) PROVE ReaperList'
  BY <1>5 DEF Stage, Goto,
     diskVars, reqVars, readVars, bounds, history
<1>6. ASSUME NEW p \in Procs, StageFails(p) PROVE ReaperList'
  BY <1>6 DEF StageFails, Goto,
     diskVars, reqVars, readVars, bounds, history
<1>7. ASSUME NEW p \in Procs, Aside(p) PROVE ReaperList'
  BY <1>7 DEF Aside, Goto,
     diskVars, reqVars, readVars, bounds, history
<1>8. ASSUME NEW p \in Procs, AsideFails(p) PROVE ReaperList'
  BY <1>8 DEF AsideFails, Fault, Goto,
     diskVars, reqVars, readVars, bounds, history
<1>9. ASSUME NEW p \in Procs, Install(p) PROVE ReaperList'
  BY <1>9 DEF Install, Goto,
     diskVars, reqVars, readVars, bounds, history
<1>10. ASSUME NEW p \in Procs, InstallFails(p) PROVE ReaperList'
  BY <1>10 DEF InstallFails, Fault, Goto,
     diskVars, reqVars, readVars, bounds, history
<1>11. ASSUME NEW p \in Procs, SetExpiry(p) PROVE ReaperList'
  BY <1>11 DEF SetExpiry, Deadline, Goto,
     diskVars, reqVars, readVars, bounds, history
<1>12. ASSUME NEW p \in Procs, SetExpiryFails(p) PROVE ReaperList'
  BY <1>12 DEF SetExpiryFails, Fault, Goto,
     diskVars, reqVars, readVars, bounds, history
<1>13. ASSUME NEW p \in Procs, Undo(p) PROVE ReaperList'
  BY <1>13 DEF Undo, Fault, Goto,
     diskVars, reqVars, readVars, bounds, history
<1>14. ASSUME NEW p \in Procs, Rollback(p) PROVE ReaperList'
  BY <1>14 DEF Rollback, Unstaging, Fault, Goto,
     diskVars, reqVars, readVars, bounds, history
<1>15. ASSUME NEW p \in Procs, DropBackup(p) PROVE ReaperList'
  BY <1>15 DEF DropBackup, Fault, Goto,
     diskVars, reqVars, readVars, bounds, history
<1>16. ASSUME NEW p \in Procs, StatInstalled(p) PROVE ReaperList'
  BY <1>16 DEF StatInstalled, Fault, Goto,
     diskVars, reqVars, readVars, bounds, history
<1>17. ASSUME NEW p \in Procs, DeleteMissing(p) PROVE ReaperList'
  BY <1>17 DEF DeleteMissing, Goto,
     diskVars, reqVars, readVars, bounds, history
<1>18. ASSUME NEW p \in Procs, RemoveBegins(p) PROVE ReaperList'
  BY <1>18 DEF RemoveBegins, Goto,
     diskVars, reqVars, readVars, bounds, history
<1>19. ASSUME NEW p \in Procs, RemoveEnds(p) PROVE ReaperList'
  BY <1>19 DEF RemoveEnds, Fault, Goto,
     diskVars, reqVars, readVars, bounds, history
<1>20. ASSUME NEW p \in Procs, UnlinkExpiry(p) PROVE ReaperList'
  BY <1>20 DEF UnlinkExpiry, Fault, Done, Goto,
     diskVars, reqVars, readVars, bounds, history
<1>21. ASSUME NEW p \in Procs, Respond(p) PROVE ReaperList'
  BY <1>21 DEF Respond, Goto,
     diskVars, reqVars, readVars, bounds, history
<1>22. ASSUME WatchExpiries PROVE ReaperList'
  BY <1>22 DEF WatchExpiries, Goto,
     diskVars, reqVars, readVars, bounds, history
<1>23. ASSUME ListExpired PROVE ReaperList'
  BY <1>23 DEF ListExpired, Fault, Goto,
     diskVars, reqVars, readVars, bounds, history
<1>24. ASSUME NextExpired PROVE ReaperList'
  BY <1>24 DEF NextExpired, Goto,
     diskVars, reqVars, readVars, bounds, history
<1>25. ASSUME Tick PROVE ReaperList'
  BY <1>25 DEF Tick,
     diskVars, reqVars, readVars, bounds, history
<1>26. ASSUME Crash PROVE ReaperList'
  BY <1>26 DEF Crash,
     diskVars, reqVars, readVars, bounds, history
<1>27. ASSUME NEW r \in Readers, StatDir(r) PROVE ReaperList'
  BY <1>27 DEF StatDir,
     diskVars, reqVars, readVars, bounds, history
<1>28. ASSUME NEW r \in Readers, StatExpiry(r) PROVE ReaperList'
  BY <1>28 DEF StatExpiry, Under, DeadlineOf, Forget,
     diskVars, reqVars, readVars, bounds, history
<1>29. ASSUME NEW r \in Readers, OpenSite(r) PROVE ReaperList'
  BY <1>29 DEF OpenSite, Under, DeadlineOf, Forget,
     diskVars, reqVars, readVars, bounds, history
<1>30. ASSUME NEW r \in Readers, ServeSite(r) PROVE ReaperList'
  BY <1>30 DEF ServeSite, Under, DeadlineOf, Forget,
     diskVars, reqVars, readVars, bounds, history
<1>31. ASSUME NEW r \in Readers, EndRead(r) PROVE ReaperList'
  BY <1>31 DEF EndRead, Forget,
     diskVars, reqVars, readVars, bounds, history
<1>32. ASSUME UNCHANGED vars PROVE ReaperList'
  BY <1>32 DEF vars, diskVars, reqVars, readVars, bounds, history
<1>33. ASSUME NEW p \in Procs, RemoveStage(p) PROVE ReaperList'
  BY <1>33 DEF RemoveStage, Fault, Goto,
     diskVars, reqVars, readVars, bounds, history
<1>34. ASSUME NEW p \in Procs, AsideUnseen(p) PROVE ReaperList'
  BY <1>34 DEF AsideUnseen, Fault, Goto,
     diskVars, reqVars, readVars, bounds, history
<1>35. ASSUME NEW p \in Procs, DeleteUnseen(p) PROVE ReaperList'
  BY <1>35 DEF DeleteUnseen, Fault, Goto,
     diskVars, reqVars, readVars, bounds, history
<1> QED
  BY <1>1, <1>2, <1>3, <1>4, <1>5, <1>6, <1>7, <1>8, <1>9, <1>10, <1>11,
     <1>12, <1>13, <1>14, <1>15, <1>16, <1>17, <1>18, <1>19, <1>20, <1>21,
     <1>22, <1>23, <1>24, <1>25, <1>26, <1>27, <1>28, <1>29, <1>30, <1>31,
     <1>32, <1>33, <1>34, <1>35
  DEF Next, Replace, Delete, Mutate, Reap, Read

-----------------------------------------------------------------------------
\* The inductive invariant holds at startup with an empty store.
LEMMA InitInv == Init => IInv
<1> SUFFICES ASSUME Init PROVE IInv
  OBVIOUS
<1>1. TypeInv
  BY TypeInit
<1>2. MutexInv /\ Numbering /\ Places
  BY BoundsAssumption
  DEF Init, MutexInv, Mutex, ReaperOnlyReaps, Numbering, Below, Unique,
      KeptOnlyAfterAside, Places, Pushing, Unused, Owner, Installed, Removed,
      Outside, Unset, Absent, Procs
<1>3. FileInv /\ ReaderInv /\ ReaperList
  BY DEF Init, FileInv, DiskMatchesFile, KeptMatchesFile, ReaderInv,
         SinceInThePast, CheckedDisk, CheckedKept, Served, ReaperList, Moved,
         Deleting, Procs
<1> QED
  BY <1>1, <1>2, <1>3 DEF IInv

\* Every variable keeps its type: what stands in a directory, in a stage or in
\* a backup is always the content of some upload.
THEOREM TypeCorrect == Spec => []TypeOK
<1>1. TypeInv => TypeOK
  BY DEF TypeInv
<1> QED
  BY TypeInit, TypeNext, <1>1, PTL DEF Spec

\* The inductive invariant holds in every reachable state.
THEOREM Invariance == Spec => []IInv
<1>1. IInv /\ [Next]_vars => IInv'
  BY TypeNext, MutexNext, VersionsNext, PlacesNext, FileNext, ReaderNext,
     ReaperListNext DEF IInv
<1> QED
  BY InitInv, <1>1, PTL DEF Spec

\* handlePublic never answers a request for a site's own name with content
\* whose deadline had passed when it arrived, in any interleaving with pushes, deletes and cleanup, with
\* any filesystem call failing and the broker dying at any point.
THEOREM NeverServesExpired == Spec => []ServedNotExpired
<1>1. IInv => ServedNotExpired
  BY DEF IInv, ReaderInv, Served, StillOpen, ServedNotExpired
<1> QED
  BY Invariance, <1>1, PTL

\* DeleteExpired never begins to remove a version before that version's own
\* deadline.
THEOREM ReaperIsPrecise == Spec => ReaperSparesLive
<1> DEFINE A == \A v \in Versions :
                   (RemoveBegins(Reaper) /\ v \in damaged' \ damaged) =>
                       due[v] = Pending \/ Elapsed(due[v], clock)
<1>1. IInv /\ [Next]_vars => [A]_vars
  <2> SUFFICES ASSUME IInv, NEW v \in Versions, RemoveBegins(Reaper),
                      v \in damaged' \ damaged
               PROVE  due[v] = Pending \/ Elapsed(due[v], clock)
    OBVIOUS
  <2>1. /\ pc[Reaper] = "remove" /\ Reaper \in Procs
        /\ disk[site[Reaper]] # Absent /\ v = disk[site[Reaper]]
    BY DEF RemoveBegins, Goto, Procs
  <2>2. /\ clock \in Nat /\ now \in Nat /\ site[Reaper] \in Sites
        /\ expiryFile[site[Reaper]] \in Deadlines
    BY <2>1 DEF IInv, TypeInv, TypeOK
  <2>3. Elapsed(expiryFile[site[Reaper]], now) /\ now <= clock
    BY <2>1 DEF IInv, ReaperList, Deleting
  <2>4. Elapsed(expiryFile[site[Reaper]], clock)
    BY <2>2, <2>3, ElapsedLater
  <2> QED
    BY <2>1, <2>2, <2>4 DEF IInv, FileInv, DiskMatchesFile
<1> QED
  BY Invariance, <1>1, PTL DEF Spec, ReaperSparesLive
-----------------------------------------------------------------------------
\* Every way out of a push takes its stage and its backup along, or the call
\* that should have done so failed.
LEMMA LeftoverNext ==
    TypeInv /\ MutexInv /\ LeftoverInv /\ [Next]_vars => LeftoverInv'
<1> SUFFICES ASSUME TypeInv, MutexInv, LeftoverInv, [Next]_vars
             PROVE  LeftoverInv'
  OBVIOUS
<1> USE ProcsAssumption
    DEF TypeInv, TypeOK, MutexInv, Mutex, Outside, Procs,
        LeftoverInv, Staged, MovedAside, Moved
<1>1. ASSUME NEW w \in Workers, PutSite(w) \/ UploadFails(w) \/ DeleteSite(w)
      PROVE  LeftoverInv'
  <2>1. /\ UNCHANGED <<stages, backups, mu, kept, spoilt>>
        /\ pc[w] \in Outside
        /\ \A q \in Procs \ {w} :
              pc'[q] = pc[q] /\ site'[q] = site[q] /\ ver'[q] = ver[q]
    BY <1>1 DEF PutSite, UploadFails, DeleteSite, Goto, diskVars, history
  <2> QED
    BY <2>1
<1>2. ASSUME NEW p \in Procs, LockMutation(p) PROVE LeftoverInv'
  BY <1>2 DEF LockMutation, diskVars, history
<1>3. ASSUME NEW p \in Procs, Stage(p) \/ StageFails(p) PROVE LeftoverInv'
  <2>1. /\ pc[p] = "stage" /\ UNCHANGED <<mu, ver, site, kept, backups, spoilt>>
        /\ \/ stages' = stages
           \/ stages' = stages \cup {ver[p]} /\ pc'[p] \in {"aside", "unstage"}
    BY <1>3 DEF Stage, StageFails, Goto, reqVars, history
  <2>2. mu = p
    BY <2>1
  <2> QED
    BY <2>1, <2>2
<1>4. ASSUME NEW p \in Procs, AsideFails(p) \/ AsideUnseen(p) PROVE LeftoverInv'
  BY <1>4 DEF AsideFails, AsideUnseen, Goto, diskVars, reqVars, history
<1>5. ASSUME NEW p \in Procs, Aside(p) PROVE LeftoverInv'
  <2>1. /\ pc[p] = "aside" /\ pc'[p] = "install"
        /\ UNCHANGED <<stages, mu, site, ver, spoilt>>
        /\ kept'[p] = disk[site[p]]
        /\ backups' = [backups EXCEPT ![site[p]] = @ \cup ({disk[site[p]]} \ {Absent})]
    BY <1>5 DEF Aside, Goto, history
  <2>2. mu = p /\ \A t \in Sites : backups[t] \subseteq spoilt
    BY <2>1
  <2> QED
    BY <2>1, <2>2
<1>6. ASSUME NEW p \in Procs, Install(p) \/ InstallFails(p) PROVE LeftoverInv'
  <2>1. /\ pc[p] = "install" /\ UNCHANGED <<mu, site, ver, kept, backups, spoilt>>
        /\ \/ stages' = stages /\ pc'[p] = "rollback"
           \/ stages' = stages \ {ver[p]} /\ pc'[p] = "expire"
    BY <1>6 DEF Install, InstallFails, Goto, diskVars, reqVars, history
  <2>2. mu = p
    BY <2>1
  <2> QED
    BY <2>1, <2>2
<1>7. ASSUME NEW p \in Procs, SetExpiry(p) \/ SetExpiryFails(p) \/ Undo(p)
      PROVE  LeftoverInv'
  BY <1>7 DEF SetExpiry, SetExpiryFails, Undo, Goto, reqVars, history
<1>8. ASSUME NEW p \in Procs, Rollback(p) PROVE LeftoverInv'
  <2>1. /\ pc[p] = "rollback" /\ UNCHANGED <<mu, site, ver, kept, stages>>
        /\ pc'[p] = IF ver[p] \in stages THEN "unstage" ELSE "fail"
        /\ \/ /\ backups' = [backups EXCEPT ![site[p]] = @ \ {kept[p]}]
              /\ spoilt' = spoilt
           \/ backups' = backups /\ spoilt' = spoilt \cup ({kept[p]} \ {Absent})
    BY <1>8 DEF Rollback, Unstaging, Goto, reqVars
  <2>2. mu = p
    BY <2>1
  <2>3. Absent \notin Versions
    BY DEF Absent, Versions
  <2> QED
    BY <2>1, <2>2, <2>3
<1>9. ASSUME NEW p \in Procs, RemoveStage(p) PROVE LeftoverInv'
  <2>1. /\ pc[p] = "unstage" /\ UNCHANGED <<mu, site, ver, kept, backups>>
        /\ pc'[p] = "fail"
        /\ \/ stages' = stages \ {ver[p]} /\ spoilt' = spoilt
           \/ stages' = stages /\ spoilt' = spoilt \cup {ver[p]}
    BY <1>9 DEF RemoveStage, Goto, reqVars
  <2>2. mu = p
    BY <2>1
  <2> QED
    BY <2>1, <2>2
<1>10. ASSUME NEW p \in Procs, DropBackup(p) PROVE LeftoverInv'
  <2>1. /\ pc[p] = "drop" /\ pc'[p] = "stat"
        /\ UNCHANGED <<stages, mu, site, ver, kept>>
        /\ \/ /\ backups' = [backups EXCEPT ![site[p]] = @ \ {kept[p]}]
              /\ spoilt' = spoilt
           \/ backups' = backups /\ spoilt' = spoilt \cup {kept[p]}
    BY <1>10 DEF DropBackup, Goto, reqVars
  <2>2. mu = p
    BY <2>1
  <2> QED
    BY <2>1, <2>2
<1>11. ASSUME NEW p \in Procs, StatInstalled(p) \/ Delete(p) \/ Respond(p)
       PROVE  LeftoverInv'
  <2>1. /\ pc[p] \in Deleting \cup {"stat", "ok", "fail"}
        /\ UNCHANGED <<stages, backups, spoilt>>
    BY <1>11 DEF StatInstalled, Delete, DeleteMissing, DeleteUnseen, RemoveBegins,
       RemoveEnds, UnlinkExpiry, Respond, Goto, diskVars, history, Deleting
  <2> QED
    BY <2>1 DEF Deleting
<1>12. ASSUME WatchExpiries PROVE LeftoverInv'
  <2>1. /\ UNCHANGED <<stages, backups, mu, kept, site, ver, spoilt>>
        /\ pc[Reaper] \in Outside
        /\ \A q \in Procs \ {Reaper} : pc'[q] = pc[q]
    BY <1>12 DEF WatchExpiries, Goto, diskVars, history
  <2> QED
    BY <2>1
<1>13. ASSUME ListExpired \/ NextExpired PROVE LeftoverInv'
  <2>1. pc[Reaper] \in {"list", "next"} /\ UNCHANGED <<stages, backups, spoilt>>
    BY <1>13 DEF ListExpired, NextExpired, Goto, diskVars, history
  <2> QED
    BY <2>1
<1>14. ASSUME NEW r \in Readers, Read(r) PROVE LeftoverInv'
  BY <1>14 DEF Read, StatDir, StatExpiry, OpenSite, ServeSite, EndRead,
     diskVars, reqVars, history
<1>15. ASSUME Tick \/ UNCHANGED vars PROVE LeftoverInv'
  BY <1>15 DEF Tick, vars, diskVars, reqVars, history
<1>16. ASSUME Crash PROVE LeftoverInv'
  <2>1. /\ UNCHANGED <<stages, backups>>
        /\ spoilt' = IF mu = Nobody THEN spoilt
                     ELSE spoilt \cup ({ver[mu], kept[mu]} \ {Absent})
    BY <1>16 DEF Crash, diskVars
  <2>2. Absent \notin Versions
    BY DEF Absent, Versions
  <2> QED
    BY <2>1, <2>2
<1> QED
  BY <1>1, <1>2, <1>3, <1>4, <1>5, <1>6, <1>7, <1>8, <1>9, <1>10, <1>11, <1>12,
     <1>13, <1>14, <1>15, <1>16 DEF Next, Replace, Mutate, Reap

\* No request leaves a stage or a moved-aside directory behind, whichever of
\* its calls failed, other than one that replaceFromTar's own ignored call
\* could not remove or put back, or that the death of the broker left.
THEOREM RequestsCleanUp == Spec => []NoLeftovers
<1>1. Init => LeftoverInv
  BY DEF Init, LeftoverInv
<1>2. IInv => TypeInv /\ MutexInv
  BY DEF IInv
<1>3. LeftoverInv => NoLeftovers
  BY DEF LeftoverInv, Staged, MovedAside, NoLeftovers
<1> QED
  BY Invariance, LeftoverNext, <1>1, <1>2, <1>3, PTL DEF Spec

=============================================================================
