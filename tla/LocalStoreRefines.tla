-------------------------- MODULE LocalStoreRefines --------------------------
(***************************************************************************)
(* Proofs about LocalStore where a push can be undone (Recoverable): the   *)
(* broker does not die and no call fails while an earlier failure is being *)
(* repaired.  That is every single failure of the filesystem, and any      *)
(* number of failures outside the repair.                                  *)
(*                                                                         *)
(* Then a name keeps its site through every failed push, and the store     *)
(* implements SiteReads: what is published and what readers find.  RecInv  *)
(* adds to the inductive invariant of LocalStoreProofs where the holder of *)
(* mutationMu has put the old directory (AsideInv), that no version is in  *)
(* two places (Apart), what RemoveAll may have touched (DamageInv), that a *)
(* new version is whole from SetExpiry on (Published), and what has become *)
(* of the version a client was promised (PromiseInv).                      *)
(***************************************************************************)
EXTENDS LocalStoreProofs

Recoverable ==
    /\ MaxCrashes = 0
    /\ \/ MaxFaults <= 1
       \/ "restore" \notin Faults /\ ~({"expiry", "remove"} \subseteq Faults)

\* The old directory's name is free when it may have to go back, or it was
\* never moved; and a repair follows a failure.
AsideInv ==
    /\ \A p \in Procs : pc[p] = "install" => disk[site[p]] = Absent
    /\ \A p \in Procs : pc[p] = "undo" => disk[site[p]] = ver[p]
    /\ \A p \in Procs : pc[p] = "rollback" =>
           \/ disk[site[p]] = Absent
           \/ kept[p] = Absent /\ disk[site[p]] # ver[p]
    /\ \A p \in Procs : pc[p] \in {"undo", "rollback"} => faults # 0
    /\ \A p \in Procs : pc[p] = "undo" => "expiry" \in Faults

\* No version is under two names, nor under a name and moved aside.
Apart ==
    /\ \A s, t \in Sites : disk[s] = disk[t] /\ disk[s] # Absent => s = t
    /\ \A p \in Procs : pc[p] \in Moved \cup {"drop"} /\ kept[p] # Absent =>
           \A s \in Sites : disk[s] # kept[p]

\* No upload that may still be published has been touched by a RemoveAll.
DamageInv ==
    /\ \A v \in damaged : v <= pushes
    /\ \A p \in Procs : pc[p] \in {"put", "stage", "aside", "install", "expire"} =>
           ver[p] \notin damaged
    /\ \A p \in Procs : pc[p] = "removing" => disk[site[p]] \in damaged

\* v is under the name s, whole and with its own deadline; or the holder has
\* moved it aside and can put it back.
Intact(s, v) == disk[s] = v /\ v \notin damaged /\ expiryFile[s] = due[v]
Saved(s, v)  == kept[mu] = v /\ v \notin damaged /\ expiryFile[s] = due[v]

Busy(s, where) == mu # Nobody /\ site[mu] = s /\ pc[mu] \in where

\* The holder has moved the name's directory, and has not published another.
Away(s) == Busy(s, Moved) /\ disk[s] \in {Absent, ver[mu]}

\* Published: a new version before its push has answered.
Published ==
    \A p \in Procs : pc[p] \in {"drop", "stat"} =>
        due[ver[p]] # Pending /\ Intact(site[p], ver[p])

Safe(s, v) == \/ Busy(s, {"drop", "stat"})
              \/ Away(s) /\ Saved(s, v)
              \/ ~Away(s) /\ Intact(s, v)

PromiseInv ==
    \A s \in Sites : promised[s] # Absent =>
        /\ due[promised[s]] # Pending
        /\ ~Elapsed(due[promised[s]], clock) => Safe(s, promised[s])

RecInv == /\ IInv /\ AsideInv /\ Apart /\ DamageInv /\ Published /\ PromiseInv

-----------------------------------------------------------------------------
\* Whoever is past the Lock is there alone.
LEMMA HolderAlone ==
    ASSUME Mutex, NEW p \in Procs, NEW q \in Procs, p # q, pc[p] \notin Outside
    PROVE  mu = p /\ pc[q] \in Outside
  BY DEF Mutex

\* No call fails while an earlier failure is being repaired.
LEMMA RepairWorks ==
    ASSUME Recoverable, TypeOK, AsideInv, NEW p \in Procs
    PROVE  /\ pc[p] = "undo" => ~Fault("remove")
           /\ pc[p] = "rollback" => ~Fault("restore")
  BY BoundsAssumption DEF Recoverable, TypeOK, AsideInv, Fault

\* The broker does not die.
LEMMA NoCrash == Recoverable /\ TypeOK => ~Crash
  BY DEF Recoverable, TypeOK, Crash

\* A failed push finds the name free when it puts the old directory back.
LEMMA AsideNext == Recoverable /\ RecInv /\ [Next]_vars => AsideInv'
<1> SUFFICES ASSUME Recoverable, RecInv, [Next]_vars PROVE AsideInv'
  OBVIOUS
<1> USE ProcsAssumption
    DEF RecInv, IInv, TypeInv, TypeOK, MutexInv, AsideInv, Outside, Procs
<1>1. ASSUME NEW w \in Workers, PutSite(w) \/ UploadFails(w) \/ DeleteSite(w)
      PROVE  AsideInv'
  BY <1>1 DEF PutSite, UploadFails, DeleteSite, Goto, diskVars, bounds
<1>2. ASSUME NEW p \in Procs, LockMutation(p) PROVE AsideInv'
  BY <1>2 DEF LockMutation, Goto, diskVars, reqVars, bounds
<1>3. ASSUME NEW p \in Procs,
             Stage(p) \/ StageFails(p) \/ RemoveStage(p) \/ AsideFails(p)
      PROVE  AsideInv'
  <2>1. /\ pc[p] \notin Outside /\ pc'[p] \notin {"install", "undo", "rollback"}
        /\ \A q \in Procs \ {p} : pc'[q] = pc[q]
    BY <1>3 DEF Stage, StageFails, RemoveStage, AsideFails, Goto
  <2> QED
    BY <2>1, HolderAlone
<1>4. ASSUME NEW p \in Procs, Aside(p) PROVE AsideInv'
  BY <1>4, HolderAlone DEF Aside, Goto, bounds
<1>5. ASSUME NEW p \in Procs, Install(p) PROVE AsideInv'
  BY <1>5, HolderAlone DEF Install, Goto, reqVars, bounds
<1>6. ASSUME NEW p \in Procs, InstallFails(p) PROVE AsideInv'
  BY <1>6, HolderAlone DEF InstallFails, Fault, Goto, diskVars, reqVars
<1>15. ASSUME NEW p \in Procs, SetExpiryFails(p) PROVE AsideInv'
  <2>1. disk[site[p]] = ver[p]
    BY <1>15 DEF SetExpiryFails, Goto, Places, Installed
  <2> QED
    BY <1>15, <2>1, HolderAlone DEF SetExpiryFails, Fault, Goto, reqVars
<1>16. ASSUME NEW p \in Procs, AsideUnseen(p) PROVE AsideInv'
  <2>1. kept[p] = Absent /\ disk[site[p]] # ver[p]
    BY <1>16 DEF AsideUnseen, Goto, Numbering, KeptOnlyAfterAside, HasKept, Moved,
       Places, Owner, Unset
  <2> QED
    BY <1>16, <2>1, HolderAlone DEF AsideUnseen, Fault, Goto, diskVars, reqVars
<1>7. ASSUME NEW p \in Procs, Undo(p) PROVE AsideInv'
  <2>1. /\ disk' = [disk EXCEPT ![site[p]] = Absent] /\ UNCHANGED <<faults, site>>
        /\ pc[p] = "undo" /\ pc' = [pc EXCEPT ![p] = "rollback"]
    BY <1>7, RepairWorks DEF Undo, Goto, reqVars
  <2> QED
    BY <2>1, HolderAlone
<1>8. ASSUME NEW p \in Procs, Rollback(p) PROVE AsideInv'
  <2>1. /\ pc[p] = "rollback" /\ pc'[p] \in {"unstage", "fail"}
        /\ \A q \in Procs \ {p} : pc'[q] = pc[q]
    BY <1>8 DEF Rollback, Unstaging, Goto
  <2> QED
    BY <2>1, HolderAlone
<1>9. ASSUME NEW p \in Procs, SetExpiry(p) \/ DropBackup(p) \/ StatInstalled(p)
      PROVE  AsideInv'
  BY <1>9, HolderAlone DEF SetExpiry, DropBackup, StatInstalled, Goto
<1>10. ASSUME NEW p \in Procs,
              DeleteMissing(p) \/ DeleteUnseen(p) \/ RemoveBegins(p)
                \/ RemoveEnds(p) \/ UnlinkExpiry(p)
       PROVE  AsideInv'
  <2>1. /\ pc[p] \in Deleting /\ pc'[p] \notin {"install", "undo", "rollback"}
        /\ \A q \in Procs \ {p} : pc'[q] = pc[q]
    BY <1>10 DEF DeleteMissing, DeleteUnseen, RemoveBegins, RemoveEnds, UnlinkExpiry, Done,
       Goto, Deleting
  <2> QED
    BY <2>1, HolderAlone DEF Deleting
<1>11. ASSUME NEW p \in Procs, Respond(p) PROVE AsideInv'
  <2>1. /\ pc[p] \in {"ok", "fail"} /\ pc'[p] = "idle"
        /\ \A q \in Procs \ {p} : pc'[q] = pc[q]
    BY <1>11 DEF Respond, Goto
  <2> QED
    BY <2>1, HolderAlone
<1>12. ASSUME WatchExpiries \/ ListExpired \/ NextExpired PROVE AsideInv'
  <2>1. CASE WatchExpiries
    BY <1>12, <2>1 DEF WatchExpiries, Goto, diskVars, bounds
  <2>2. CASE ListExpired \/ NextExpired
    <3>1. /\ pc[Reaper] \in {"list", "next"}
          /\ pc'[Reaper] \notin {"install", "undo", "rollback"}
          /\ \A q \in Procs \ {Reaper} : pc'[q] = pc[q]
      BY <2>2 DEF ListExpired, NextExpired, Goto
    <3>2. \A q \in Procs : pc'[q] \notin {"install", "undo", "rollback"}
      BY <3>1, HolderAlone
    <3> QED
      BY <3>2
  <2> QED
    BY <1>12, <2>1, <2>2
<1>13. ASSUME NEW r \in Readers, Read(r) PROVE AsideInv'
  BY <1>13 DEF Read, StatDir, StatExpiry, OpenSite, ServeSite, EndRead,
     diskVars, reqVars, bounds
<1>14. ASSUME Tick \/ UNCHANGED vars PROVE AsideInv'
  BY <1>14 DEF Tick, vars, diskVars, reqVars, bounds
<1> QED
  BY <1>1, <1>2, <1>3, <1>4, <1>5, <1>6, <1>7, <1>8, <1>9, <1>10, <1>11, <1>12,
     <1>13, <1>14, <1>15, <1>16, NoCrash DEF Next, Replace, Delete, Mutate, Reap

\* A version changes its place, and is in one place only.
LEMMA ApartNext == Recoverable /\ RecInv /\ [Next]_vars => Apart'
<1> SUFFICES ASSUME Recoverable, RecInv, [Next]_vars PROVE Apart'
  OBVIOUS
<1> USE ProcsAssumption
    DEF RecInv, IInv, TypeInv, TypeOK, MutexInv, Apart, Outside, Moved, Procs
<1>1. ASSUME NEW w \in Workers, PutSite(w) \/ UploadFails(w) \/ DeleteSite(w)
      PROVE  Apart'
  BY <1>1 DEF PutSite, UploadFails, DeleteSite, Goto, diskVars, bounds
<1>2. ASSUME NEW p \in Procs, LockMutation(p) PROVE Apart'
  BY <1>2 DEF LockMutation, Goto, diskVars, reqVars, bounds
<1>3. ASSUME NEW p \in Procs,
             Stage(p) \/ StageFails(p) \/ RemoveStage(p) \/ AsideFails(p)
      PROVE  Apart'
  <2>1. /\ UNCHANGED <<disk, kept>> /\ pc'[p] \notin Moved \cup {"drop"}
        /\ \A q \in Procs \ {p} : pc'[q] = pc[q]
    BY <1>3 DEF Stage, StageFails, RemoveStage, AsideFails, Goto, diskVars, reqVars
  <2> QED
    BY <2>1
<1>14. ASSUME NEW p \in Procs, AsideUnseen(p) PROVE Apart'
  <2>1. kept[p] = Absent
    BY <1>14 DEF AsideUnseen, Goto, Numbering, KeptOnlyAfterAside, HasKept
  <2> QED
    BY <1>14, <2>1 DEF AsideUnseen, Goto, diskVars, reqVars
<1>4. ASSUME NEW p \in Procs, Aside(p) PROVE Apart'
  BY <1>4, HolderAlone DEF Aside, Goto, bounds
<1>5. ASSUME NEW p \in Procs, Install(p) PROVE Apart'
  <2>1. /\ pc[p] = "install" /\ pc' = [pc EXCEPT ![p] = "expire"]
        /\ disk' = [disk EXCEPT ![site[p]] = ver[p]] /\ kept' = kept
    BY <1>5 DEF Install, Goto, reqVars
  <2>2. /\ \A s \in Sites : disk[s] # ver[p]
        /\ kept[p] # ver[p]
    BY <2>1 DEF Places, Owner, Unset
  <2> QED
    BY <2>1, <2>2, HolderAlone
<1>6. ASSUME NEW p \in Procs,
             \/ InstallFails(p) \/ SetExpiry(p) \/ SetExpiryFails(p)
             \/ DropBackup(p) \/ StatInstalled(p)
      PROVE  Apart'
  <2>1. /\ UNCHANGED <<disk, kept>>
        /\ pc'[p] \in Moved \cup {"drop"} => pc[p] \in Moved \cup {"drop"}
        /\ \A q \in Procs \ {p} : pc'[q] = pc[q]
    BY <1>6 DEF InstallFails, SetExpiry, SetExpiryFails, DropBackup,
       StatInstalled, Goto, diskVars, reqVars
  <2> QED
    BY <2>1
<1>7. ASSUME NEW p \in Procs, Undo(p) PROVE Apart'
  BY <1>7, HolderAlone DEF Undo, Goto, reqVars, Absent
<1>8. ASSUME NEW p \in Procs, Rollback(p) PROVE Apart'
  <2>1. /\ pc[p] = "rollback" /\ kept' = kept
        /\ pc'[p] \in {"unstage", "fail"} /\ \A q \in Procs \ {p} : pc'[q] = pc[q]
        /\ \/ disk' = [disk EXCEPT ![site[p]] = kept[p]] /\ kept[p] # Absent
           \/ disk' = disk
    BY <1>8 DEF Rollback, Unstaging, Goto, reqVars
  <2>2. \A q \in Procs : pc'[q] \notin Moved \cup {"drop"}
    BY <2>1, HolderAlone
  <2>3. \A s, t \in Sites : disk'[s] = disk'[t] /\ disk'[s] # Absent => s = t
    BY <2>1
  <2> QED
    BY <2>2, <2>3
<1>9. ASSUME NEW p \in Procs,
             DeleteMissing(p) \/ DeleteUnseen(p) \/ RemoveBegins(p)
                \/ RemoveEnds(p) \/ UnlinkExpiry(p)
      PROVE  Apart'
  <2>1. /\ pc[p] \in Deleting /\ pc'[p] \notin Moved \cup {"drop"}
        /\ \A q \in Procs \ {p} : pc'[q] = pc[q]
        /\ \/ disk' = disk
           \/ disk' = [disk EXCEPT ![site[p]] = Absent]
    BY <1>9 DEF DeleteMissing, DeleteUnseen, RemoveBegins, RemoveEnds, UnlinkExpiry, Done,
       Goto, Deleting, diskVars
  <2> QED
    BY <2>1, HolderAlone DEF Deleting
<1>10. ASSUME NEW p \in Procs, Respond(p) PROVE Apart'
  BY <1>10, HolderAlone DEF Respond, Goto, diskVars
<1>11. ASSUME WatchExpiries \/ ListExpired \/ NextExpired PROVE Apart'
  BY <1>11 DEF WatchExpiries, ListExpired, NextExpired, Goto, diskVars, bounds
<1>12. ASSUME NEW r \in Readers, Read(r) PROVE Apart'
  BY <1>12 DEF Read, StatDir, StatExpiry, OpenSite, ServeSite, EndRead,
     diskVars, reqVars, bounds, history
<1>13. ASSUME Tick \/ UNCHANGED vars PROVE Apart'
  BY <1>13 DEF Tick, vars, diskVars, reqVars, bounds, history
<1> QED
  BY <1>1, <1>2, <1>3, <1>4, <1>5, <1>6, <1>7, <1>8, <1>9, <1>10, <1>11,
     <1>12, <1>13, <1>14, NoCrash DEF Next, Replace, Delete, Mutate, Reap

\* RemoveAll touches nothing that a push may still publish.
LEMMA DamageNext == Recoverable /\ RecInv /\ [Next]_vars => DamageInv'
<1> SUFFICES ASSUME Recoverable, RecInv, [Next]_vars PROVE DamageInv'
  OBVIOUS
<1> USE ProcsAssumption, NumbersType
    DEF RecInv, IInv, TypeInv, TypeOK, MutexInv, DamageInv, Outside, Procs
<1> DEFINE Uploaded == {"put", "stage", "aside", "install", "expire"}
<1>1. ASSUME NEW w \in Workers, PutSite(w) PROVE DamageInv'
  <2>1. /\ damaged \subseteq Nat /\ pushes \in Nat
    BY DEF Versions
  <2> QED
    BY <1>1, <2>1 DEF PutSite, Goto, diskVars
<1>2. ASSUME NEW w \in Workers, UploadFails(w) \/ DeleteSite(w)
      PROVE  DamageInv'
  BY <1>2 DEF UploadFails, DeleteSite, Goto, diskVars, bounds
<1>3. ASSUME NEW p \in Procs, LockMutation(p) PROVE DamageInv'
  BY <1>3 DEF LockMutation, Goto, diskVars, reqVars, bounds
<1>4. ASSUME NEW p \in Procs,
             \/ Stage(p) \/ StageFails(p) \/ RemoveStage(p)
             \/ Aside(p) \/ AsideFails(p) \/ AsideUnseen(p)
             \/ Install(p) \/ InstallFails(p) \/ SetExpiry(p) \/ Undo(p)
             \/ Rollback(p) \/ StatInstalled(p)
      PROVE  DamageInv'
  <2>1. /\ UNCHANGED <<damaged, ver, pushes>>
        /\ pc'[p] \in Uploaded => pc[p] \in Uploaded
        /\ pc[p] \notin Outside /\ pc'[p] # "removing"
        /\ \A q \in Procs \ {p} : pc'[q] = pc[q]
    BY <1>4 DEF Stage, StageFails, RemoveStage, Aside, AsideFails, AsideUnseen,
       Install, InstallFails, SetExpiry, Undo, Rollback, Unstaging, StatInstalled,
       Goto, diskVars, reqVars, bounds
  <2> QED
    BY <2>1, HolderAlone
<1>5. ASSUME NEW p \in Procs, SetExpiryFails(p) PROVE DamageInv'
  <2>1. /\ damaged' = damaged \cup {ver[p]} /\ UNCHANGED <<ver, pushes>>
        /\ pc[p] = "expire" /\ pc' = [pc EXCEPT ![p] = "undo"]
    BY <1>5 DEF SetExpiryFails, Goto, reqVars
  <2>2. \A q \in Procs \ {p} : pc[q] \in Uploaded => ver[q] # ver[p]
    BY <2>1 DEF Numbering, Unique, VerAtHand, Unset
  <2>3. ver[p] <= pushes
    BY DEF Numbering, Below
  <2> QED
    BY <2>1, <2>2, <2>3, HolderAlone
<1>6. ASSUME NEW p \in Procs, DropBackup(p) PROVE DamageInv'
  <2>1. /\ damaged' \subseteq damaged \cup {kept[p]} /\ UNCHANGED <<ver, pushes>>
        /\ pc[p] = "drop" /\ pc' = [pc EXCEPT ![p] = "stat"]
    BY <1>6 DEF DropBackup, Goto, reqVars
  <2>2. \A q \in Procs : pc[q] \in Uploaded => ver[q] # kept[p]
    BY <2>1 DEF Places, Owner, Unset
  <2>3. kept[p] <= pushes
    BY DEF Numbering, Below
  <2> QED
    BY <2>1, <2>2, <2>3, HolderAlone
<1>7. ASSUME NEW p \in Procs, RemoveBegins(p) PROVE DamageInv'
  <2>1. /\ damaged' = damaged \cup {disk[site[p]]}
        /\ UNCHANGED <<ver, pushes, disk, site>>
        /\ pc[p] = "remove" /\ pc' = [pc EXCEPT ![p] = "removing"]
    BY <1>7 DEF RemoveBegins, Goto, reqVars, bounds
  <2>2. \A q \in Procs \ {p} : pc[q] \in Uploaded => ver[q] # disk[site[p]]
    BY <2>1, HolderAlone DEF Places, Owner, Unset
  <2>3. disk[site[p]] <= pushes
    BY DEF Numbering, Below
  <2> QED
    BY <2>1, <2>2, <2>3, HolderAlone
<1>8. ASSUME NEW p \in Procs,
             DeleteMissing(p) \/ DeleteUnseen(p) \/ RemoveEnds(p) \/ UnlinkExpiry(p)
      PROVE  DamageInv'
  <2>1. /\ UNCHANGED <<damaged, ver, pushes>> /\ pc[p] \in Deleting
        /\ pc'[p] \notin Uploaded \cup {"removing"}
        /\ \A q \in Procs \ {p} : pc'[q] = pc[q]
    BY <1>8 DEF DeleteMissing, DeleteUnseen, RemoveEnds, UnlinkExpiry, Done, Goto, diskVars,
       reqVars, bounds, Deleting
  <2> QED
    BY <2>1, HolderAlone DEF Deleting
<1>9. ASSUME NEW p \in Procs, Respond(p) PROVE DamageInv'
  BY <1>9, HolderAlone DEF Respond, Goto, diskVars, bounds
<1>10. ASSUME WatchExpiries \/ ListExpired \/ NextExpired PROVE DamageInv'
  BY <1>10 DEF WatchExpiries, ListExpired, NextExpired, Goto, diskVars, bounds
<1>11. ASSUME NEW r \in Readers, Read(r) PROVE DamageInv'
  BY <1>11 DEF Read, StatDir, StatExpiry, OpenSite, ServeSite, EndRead,
     diskVars, reqVars, bounds, history
<1>12. ASSUME Tick \/ UNCHANGED vars PROVE DamageInv'
  BY <1>12 DEF Tick, vars, diskVars, reqVars, bounds, history
<1> QED
  BY <1>1, <1>2, <1>3, <1>4, <1>5, <1>6, <1>7, <1>8, <1>9, <1>10, <1>11, <1>12, NoCrash DEF Next, Replace, Delete, Mutate, Reap

\* SetExpiry makes the new version whole, and nothing undoes that before its
\* push has answered.
LEMMA PublishedNext == Recoverable /\ RecInv /\ [Next]_vars => Published'
<1> SUFFICES ASSUME Recoverable, RecInv, [Next]_vars PROVE Published'
  OBVIOUS
<1> USE ProcsAssumption
    DEF RecInv, IInv, TypeInv, TypeOK, MutexInv, Published, Intact, Outside, Procs
<1>1. ASSUME NEW w \in Workers, PutSite(w) \/ UploadFails(w) \/ DeleteSite(w)
      PROVE  Published'
  BY <1>1 DEF PutSite, UploadFails, DeleteSite, Goto, diskVars, history
<1>2. ASSUME NEW p \in Procs, LockMutation(p) PROVE Published'
  BY <1>2 DEF LockMutation, Goto, diskVars, reqVars, history
<1>3. ASSUME NEW p \in Procs,
             \/ Stage(p) \/ StageFails(p) \/ RemoveStage(p)
             \/ Aside(p) \/ AsideFails(p) \/ AsideUnseen(p)
             \/ Install(p) \/ InstallFails(p) \/ SetExpiryFails(p) \/ Undo(p)
             \/ Rollback(p) \/ StatInstalled(p) \/ Delete(p) \/ Respond(p)
      PROVE  Published'
  <2>1. /\ pc[p] \notin Outside /\ pc'[p] \notin {"drop", "stat"}
        /\ \A q \in Procs \ {p} : pc'[q] = pc[q]
    BY <1>3 DEF Stage, StageFails, RemoveStage, Aside, AsideFails, AsideUnseen,
       Install, InstallFails, SetExpiryFails, Undo, Rollback, Unstaging,
       StatInstalled, Delete, DeleteMissing, DeleteUnseen, RemoveBegins, RemoveEnds, UnlinkExpiry, Done, Respond, Goto
  <2> QED
    BY <2>1, HolderAlone
<1>4. ASSUME NEW p \in Procs, SetExpiry(p) PROVE Published'
  <2> DEFINE d == Deadline(clock, ttl[p])
  <2>1. /\ pc[p] = "expire" /\ pc' = [pc EXCEPT ![p] = "drop"]
        /\ expiryFile' = [expiryFile EXCEPT ![site[p]] = d]
        /\ due' = [due EXCEPT ![ver[p]] = d]
        /\ UNCHANGED <<disk, damaged, site, ver>>
    BY <1>4 DEF SetExpiry, Goto, reqVars
  <2>2. ttl[p] \in (Nat \ {0}) \cup {Never}
    BY TTLsAssumption
  <2>3. d # Pending
    <3>1. clock \in Nat
      OBVIOUS
    <3>2. d \in Deadlines
      BY <2>2, <3>1, DeadlineType
    <3> QED
      BY <3>2, NeverAssumption DEF Deadlines
  <2>4. ver[p] \in Versions /\ disk[site[p]] = ver[p] /\ ver[p] \notin damaged
    BY <2>1 DEF VerAtHand, Unset, Places, Installed, DamageInv
  <2> QED
    BY <2>1, <2>3, <2>4, HolderAlone
<1>5. ASSUME NEW p \in Procs, DropBackup(p) PROVE Published'
  <2>1. /\ pc[p] = "drop" /\ pc' = [pc EXCEPT ![p] = "stat"]
        /\ damaged' = damaged \/ (kept[p] # Absent /\ damaged' = damaged \cup {kept[p]})
        /\ UNCHANGED <<disk, expiryFile, due, site, ver>>
    BY <1>5 DEF DropBackup, Goto, reqVars, history
  <2>2. kept[p] # Absent => ver[p] # kept[p]
    BY <2>1 DEF Apart
  <2> QED
    BY <2>1, <2>2, HolderAlone
<1>6. ASSUME WatchExpiries \/ ListExpired \/ NextExpired PROVE Published'
  BY <1>6 DEF WatchExpiries, ListExpired, NextExpired, Goto, diskVars, history
<1>7. ASSUME NEW r \in Readers, Read(r) PROVE Published'
  BY <1>7 DEF Read, StatDir, StatExpiry, OpenSite, ServeSite, EndRead,
     diskVars, reqVars, bounds, history
<1>8. ASSUME Tick \/ UNCHANGED vars PROVE Published'
  BY <1>8 DEF Tick, vars, diskVars, reqVars, bounds, history
<1> QED
  BY <1>1, <1>2, <1>3, <1>4, <1>5, <1>6, <1>7, <1>8, NoCrash DEF Next, Replace, Delete, Mutate, Reap

\* A step of the holder p keeps the promise of a name that is not p's: its
\* directory and expiry file are left alone and no RemoveAll touches it.
LEMMA OthersKeptSafe ==
    ASSUME RecInv, NEW p \in Procs, mu = p, mu' \in {p, Nobody},
           UNCHANGED <<clock, site>>,
           NEW s \in Sites, s # site[p], promised[s] # Absent,
           ~Elapsed(due'[promised[s]], clock'),
           promised'[s] = promised[s], disk'[s] = disk[s],
           expiryFile'[s] = expiryFile[s],
           due'[promised[s]] = due[promised[s]],
           disk[s] \notin damaged' \ damaged
    PROVE  Safe(s, promised[s])'
<1>1. Safe(s, promised[s])
  BY DEF RecInv, PromiseInv
<1>2. ~Away(s) /\ ~Busy(s, {"drop", "stat"})
  BY DEF Busy, Away
<1>3. Intact(s, promised[s])
  BY <1>1, <1>2 DEF Safe
<1>4. ~Away(s)'
  BY DEF Busy, Away
<1> QED
  BY <1>3, <1>4 DEF Safe, Intact

\* A client keeps the site it was told of, through every failed push, until
\* its deadline or until a later request replaces or deletes it.
LEMMA PromiseNext == Recoverable /\ RecInv /\ [Next]_vars => PromiseInv'
<1> SUFFICES ASSUME Recoverable, RecInv, [Next]_vars,
                    NEW s \in Sites, promised'[s] # Absent
             PROVE  /\ due'[promised'[s]] # Pending
                    /\ ~Elapsed(due'[promised'[s]], clock') => Safe(s, promised[s])'
  BY DEF PromiseInv
<1> DEFINE v == promised[s]
           Goal == /\ due'[promised'[s]] # Pending
                   /\ ~Elapsed(due'[promised'[s]], clock') => Safe(s, promised[s])'
<1> USE ProcsAssumption
    DEF RecInv, IInv, TypeInv, TypeOK, MutexInv, Outside, Procs, PromiseInv
<1>0. ASSUME UNCHANGED <<clock, disk, damaged, expiryFile, due, promised>>,
             Away(s)' <=> Away(s),
             Busy(s, {"drop", "stat"})' <=> Busy(s, {"drop", "stat"}),
             Away(s) => kept'[mu'] = kept[mu]
      PROVE  Goal
  BY <1>0 DEF Safe, Saved, Intact
<1>1. ASSUME NEW w \in Workers, PutSite(w) \/ UploadFails(w) \/ DeleteSite(w)
      PROVE  Goal
  <2>1. /\ UNCHANGED <<clock, disk, damaged, expiryFile, due, promised, mu, kept>>
        /\ pc[w] \in Outside /\ pc'[w] \in Outside
        /\ \A q \in Procs \ {w} :
              pc'[q] = pc[q] /\ site'[q] = site[q] /\ ver'[q] = ver[q]
    BY <1>1 DEF PutSite, UploadFails, DeleteSite, Goto, diskVars, history
  <2> QED
    BY <1>0, <2>1 DEF Away, Busy, Moved
<1>2. ASSUME NEW p \in Procs, LockMutation(p) PROVE Goal
  <2>1. /\ UNCHANGED <<clock, disk, damaged, expiryFile, due, promised>>
        /\ mu = Nobody /\ mu' = p /\ pc'[p] \in {"stage", "remove", "list"}
    BY <1>2 DEF LockMutation, Goto, diskVars, history
  <2> QED
    BY <1>0, <2>1 DEF Away, Busy, Moved
<1>3. ASSUME NEW p \in Procs,
             \/ Stage(p) \/ StageFails(p) \/ RemoveStage(p) \/ AsideFails(p)
             \/ InstallFails(p) \/ DeleteMissing(p) \/ DeleteUnseen(p)
      PROVE  Goal
  <2>1. /\ UNCHANGED <<clock, disk, damaged, expiryFile, due, promised, mu, kept,
                       site, ver>>
        /\ pc[p] \notin Outside
        /\ pc[p] \in Moved <=> pc'[p] \in Moved
        /\ pc[p] \notin {"drop", "stat"} /\ pc'[p] \notin {"drop", "stat"}
    BY <1>3 DEF Stage, StageFails, RemoveStage, AsideFails, InstallFails,
       DeleteMissing, DeleteUnseen, Goto, diskVars, reqVars, history, Moved
  <2>2. mu = p
    BY <2>1 DEF Mutex
  <2> QED
    BY <1>0, <2>1, <2>2 DEF Away, Busy
<1>19. ASSUME NEW p \in Procs, AsideUnseen(p) PROVE Goal
  <2>1. /\ UNCHANGED <<clock, disk, damaged, expiryFile, due, promised, mu, kept,
                       site, ver>>
        /\ pc[p] = "aside" /\ pc'[p] = "rollback"
        /\ disk[site[p]] # Absent
    BY <1>19 DEF AsideUnseen, Goto, diskVars, reqVars, history
  <2>2. mu = p /\ disk[site[p]] # ver[p]
    BY <2>1 DEF Mutex, Places, Owner, Unset
  <2>3. ~Away(s) /\ ~Away(s)'
    BY <2>1, <2>2 DEF Away, Busy, Moved
  <2> QED
    BY <1>0, <2>1, <2>2, <2>3 DEF Busy
<1>4. ASSUME NEW p \in Procs, Aside(p) PROVE Goal
  <2>1. /\ UNCHANGED <<clock, damaged, expiryFile, due, promised, mu, site>>
        /\ disk' = [disk EXCEPT ![site[p]] = Absent] /\ kept'[p] = disk[site[p]]
        /\ pc[p] = "aside" /\ pc'[p] = "install"
    BY <1>4 DEF Aside, Goto, history
  <2>2. mu = p
    BY <2>1 DEF Mutex
  <2>3. CASE s = site[p]
    BY <2>1, <2>2, <2>3 DEF Safe, Away, Busy, Saved, Intact, Moved
  <2>4. CASE s # site[p]
    BY <2>1, <2>2, <2>4, OthersKeptSafe
  <2> QED
    BY <2>3, <2>4
<1>5. ASSUME NEW p \in Procs, Install(p) PROVE Goal
  <2>1. /\ UNCHANGED <<clock, damaged, expiryFile, due, promised, mu, site, ver,
                       kept>>
        /\ disk' = [disk EXCEPT ![site[p]] = ver[p]] /\ disk[site[p]] = Absent
        /\ pc[p] = "install" /\ pc'[p] = "expire"
    BY <1>5 DEF Install, Goto, history, reqVars, AsideInv
  <2>2. mu = p
    BY <2>1 DEF Mutex
  <2>3. CASE s = site[p]
    BY <2>1, <2>2, <2>3 DEF Safe, Away, Busy, Saved, Intact, Moved
  <2>4. CASE s # site[p]
    BY <2>1, <2>2, <2>4, OthersKeptSafe
  <2> QED
    BY <2>3, <2>4
<1>6. ASSUME NEW p \in Procs, SetExpiry(p) PROVE Goal
  <2> DEFINE d == Deadline(clock, ttl[p])
  <2>1. /\ UNCHANGED <<clock, disk, damaged, promised, mu, site>>
        /\ expiryFile' = [expiryFile EXCEPT ![site[p]] = d]
        /\ due' = [due EXCEPT ![ver[p]] = d]
        /\ pc[p] = "expire" /\ pc'[p] = "drop"
    BY <1>6 DEF SetExpiry, Goto, reqVars
  <2>2. mu = p
    BY <2>1 DEF Mutex
  <2>3. due[ver[p]] = Pending /\ v # ver[p] /\ due'[v] = due[v]
    BY <2>1 DEF Places, Pushing, Unset
  <2>4. CASE s = site[p]
    BY <2>1, <2>2, <2>3, <2>4 DEF Safe, Away, Busy
  <2>5. CASE s # site[p]
    BY <2>1, <2>2, <2>3, <2>5, OthersKeptSafe
  <2> QED
    BY <2>4, <2>5
<1>7. ASSUME NEW p \in Procs, SetExpiryFails(p) PROVE Goal
  <2>1. /\ UNCHANGED <<clock, disk, expiryFile, due, promised, mu, site, ver, kept>>
        /\ damaged' = damaged \cup {ver[p]}
        /\ pc[p] = "expire" /\ pc'[p] = "undo"
    BY <1>7 DEF SetExpiryFails, Goto, reqVars, history
  <2>2. mu = p
    BY <2>1 DEF Mutex
  <2>3. due[ver[p]] = Pending /\ v # ver[p]
    BY <2>1 DEF Places, Pushing, Unset
  <2> QED
    BY <2>1, <2>2, <2>3 DEF Safe, Away, Busy, Saved, Intact, Moved
<1>8. ASSUME NEW p \in Procs, Undo(p) PROVE Goal
  <2>1. /\ UNCHANGED <<clock, damaged, expiryFile, due, promised, mu, site, ver,
                       kept>>
        /\ disk' = [disk EXCEPT ![site[p]] = Absent] /\ disk[site[p]] = ver[p]
        /\ pc[p] = "undo" /\ pc'[p] = "rollback"
    BY <1>8, RepairWorks DEF Undo, Goto, history, reqVars, AsideInv
  <2>2. mu = p
    BY <2>1 DEF Mutex
  <2>3. CASE s = site[p]
    BY <2>1, <2>2, <2>3 DEF Safe, Away, Busy, Saved, Intact, Moved
  <2>4. CASE s # site[p]
    BY <2>1, <2>2, <2>4, OthersKeptSafe
  <2> QED
    BY <2>3, <2>4
<1>9. ASSUME NEW p \in Procs, Rollback(p) PROVE Goal
  <2>1. /\ UNCHANGED <<clock, damaged, expiryFile, due, promised, mu, site, ver,
                       kept>>
        /\ pc[p] = "rollback" /\ pc'[p] \in {"unstage", "fail"}
    BY <1>9 DEF Rollback, Unstaging, Goto, reqVars
  <2>2. /\ mu = p
        /\ \/ disk[site[p]] = Absent
           \/ kept[p] = Absent /\ disk[site[p]] # ver[p]
    BY <2>1 DEF Mutex, AsideInv
  <2>3. IF kept[p] # Absent THEN disk' = [disk EXCEPT ![site[p]] = kept[p]]
                            ELSE disk' = disk
    BY <1>9, <2>1, <2>2, RepairWorks DEF Rollback
  <2>4. CASE s = site[p]
    BY <2>1, <2>2, <2>3, <2>4 DEF Safe, Away, Busy, Saved, Intact, Moved
  <2>5. CASE s # site[p]
    BY <2>1, <2>2, <2>3, <2>5, OthersKeptSafe
  <2> QED
    BY <2>4, <2>5
<1>10. ASSUME NEW p \in Procs, DropBackup(p) PROVE Goal
  <2>1. /\ UNCHANGED <<clock, disk, expiryFile, due, promised, mu, site>>
        /\ damaged' = damaged \/ (kept[p] # Absent /\ damaged' = damaged \cup {kept[p]})
        /\ pc[p] = "drop" /\ pc'[p] = "stat"
    BY <1>10 DEF DropBackup, Goto, reqVars, history
  <2>2. mu = p
    BY <2>1 DEF Mutex
  <2>3. kept[p] # Absent => disk[s] # kept[p]
    BY <2>1 DEF Apart
  <2>4. CASE s = site[p]
    BY <2>1, <2>2, <2>4 DEF Safe, Away, Busy
  <2>5. CASE s # site[p]
    BY <2>1, <2>2, <2>3, <2>5, OthersKeptSafe
  <2> QED
    BY <2>4, <2>5
<1>11. ASSUME NEW p \in Procs, StatInstalled(p) PROVE Goal
  <2>1. /\ UNCHANGED <<clock, disk, damaged, expiryFile, due, mu, site>>
        /\ \/ promised' = [promised EXCEPT ![site[p]] = ver[p]]
           \/ promised' = [promised EXCEPT ![site[p]] = Absent]
        /\ pc[p] = "stat" /\ pc'[p] \in {"ok", "fail"}
    BY <1>11 DEF StatInstalled, Goto, reqVars, diskVars
  <2>2. mu = p /\ due[ver[p]] # Pending /\ Intact(site[p], ver[p])
    BY <2>1 DEF Mutex, Published
  <2>3. CASE s = site[p]
    BY <2>1, <2>2, <2>3 DEF Safe, Away, Busy, Intact, Moved
  <2>4. CASE s # site[p]
    BY <2>1, <2>2, <2>4, OthersKeptSafe
  <2> QED
    BY <2>3, <2>4
<1>12. ASSUME NEW p \in Procs, RemoveBegins(p) PROVE Goal
  <2>1. /\ UNCHANGED <<clock, disk, expiryFile, due, mu, site>>
        /\ damaged' = damaged \cup {disk[site[p]]} /\ disk[site[p]] # Absent
        /\ promised' = IF p = Reaper THEN promised
                       ELSE [promised EXCEPT ![site[p]] = Absent]
        /\ pc[p] = "remove" /\ pc'[p] = "removing"
    BY <1>12 DEF RemoveBegins, Goto, reqVars
  <2>2. mu = p
    BY <2>1 DEF Mutex
  <2>3. CASE s = site[p]
    <3>1. p = Reaper
      BY <2>1, <2>3
    <3>2. Elapsed(expiryFile[s], now) /\ now <= clock
      BY <2>1, <2>3, <3>1 DEF ReaperList, Deleting
    <3>3. Elapsed(expiryFile[s], clock)
      BY <3>2, ElapsedLater
    <3>4. Elapsed(due[v], clock)
      BY <2>1, <2>2, <2>3, <3>1, <3>3 DEF Safe, Away, Busy, Intact, Moved
    <3> QED
      BY <2>1, <3>1, <3>4
  <2>4. CASE s # site[p]
    <3>1. disk[s] # disk[site[p]]
      BY <2>1, <2>4 DEF Apart
    <3> QED
      BY <2>1, <2>2, <2>4, <3>1, OthersKeptSafe
  <2> QED
    BY <2>3, <2>4
<1>13. ASSUME NEW p \in Procs, RemoveEnds(p) \/ UnlinkExpiry(p) PROVE Goal
  <2>1. /\ UNCHANGED <<clock, damaged, due, promised, mu, site>>
        /\ \A t \in Sites \ {site[p]} :
              disk'[t] = disk[t] /\ expiryFile'[t] = expiryFile[t]
        /\ pc[p] \in {"removing", "unlink"}
    BY <1>13 DEF RemoveEnds, UnlinkExpiry, Goto, reqVars, history
  <2>2. mu = p
    BY <2>1 DEF Mutex
  <2>3. CASE s = site[p]
    <3>1. ~Intact(s, v)
      BY <2>1, <2>3 DEF Intact, DamageInv, Places, Removed
    <3>2. Elapsed(due[v], clock)
      BY <2>1, <2>2, <2>3, <3>1 DEF Safe, Away, Busy, Moved
    <3> QED
      BY <2>1, <3>2
  <2>4. CASE s # site[p]
    BY <2>1, <2>2, <2>4, OthersKeptSafe
  <2> QED
    BY <2>3, <2>4
<1>14. ASSUME NEW p \in Procs, Respond(p) PROVE Goal
  <2>1. /\ UNCHANGED <<clock, disk, damaged, expiryFile, due, promised>>
        /\ mu' = Nobody /\ pc[p] \in {"ok", "fail"}
    BY <1>14 DEF Respond, Goto, diskVars, history
  <2>2. mu = p
    BY <2>1 DEF Mutex
  <2> QED
    BY <1>0, <2>1, <2>2 DEF Away, Busy, Moved
<1>15. ASSUME WatchExpiries \/ ListExpired \/ NextExpired PROVE Goal
  <2>1. /\ UNCHANGED <<clock, disk, damaged, expiryFile, due, promised, mu, kept>>
        /\ \A q \in Procs \ {Reaper} :
              pc'[q] = pc[q] /\ site'[q] = site[q] /\ ver'[q] = ver[q]
        /\ pc[Reaper] \in {"idle", "list", "next"}
        /\ pc'[Reaper] \in {"reap", "next", "ok", "remove", "fail"}
    BY <1>15 DEF WatchExpiries, ListExpired, NextExpired, Goto, diskVars, history
  <2> QED
    BY <1>0, <2>1 DEF Away, Busy, Moved
<1>16. ASSUME NEW r \in Readers, Read(r) PROVE Goal
  <2>1. UNCHANGED <<clock, disk, damaged, expiryFile, due, promised, mu, pc, site,
                  ver, kept>>
    BY <1>16 DEF Read, StatDir, StatExpiry, OpenSite, ServeSite, EndRead,
       diskVars, reqVars, history
  <2> QED
    BY <1>0, <2>1 DEF Away, Busy
<1>17. ASSUME Tick PROVE Goal
  <2>1. /\ UNCHANGED <<disk, damaged, expiryFile, due, promised, mu, pc, site,
                       ver, kept>>
        /\ clock' = clock + 1
    BY <1>17 DEF Tick, diskVars, reqVars, history
  <2>2. due[v] \in Deadlines
    BY <2>1
  <2>3. ~Elapsed(due[v], clock') => ~Elapsed(due[v], clock)
    BY <2>1, <2>2, ElapsedLater
  <2> QED
    BY <2>1, <2>3 DEF Safe, Away, Busy, Saved, Intact
<1>18. ASSUME UNCHANGED vars PROVE Goal
  BY <1>0, <1>18 DEF Away, Busy, vars, diskVars, reqVars, history
<1> QED
  BY <1>1, <1>2, <1>3, <1>4, <1>5, <1>6, <1>7, <1>8, <1>9, <1>10, <1>11, <1>12,
     <1>13, <1>14, <1>15, <1>16, <1>17, <1>18, <1>19, NoCrash
     DEF Next, Replace, Delete, Mutate, Reap

-----------------------------------------------------------------------------
\* An empty store meets the invariant.
LEMMA RecInit == Init => RecInv
<1> SUFFICES ASSUME Init PROVE RecInv
  OBVIOUS
<1>1. IInv
  BY InitInv
<1>2. AsideInv /\ DamageInv /\ Published
  BY DEF Init, AsideInv, DamageInv, Published
<1>3. Apart /\ PromiseInv
  BY DEF Init, Apart, PromiseInv, Moved
<1> QED
  BY <1>1, <1>2, <1>3 DEF RecInv

\* The strengthened invariant holds in every reachable state.
THEOREM RecInvariance == Recoverable /\ Spec => []RecInv
<1>1. Recoverable /\ RecInv /\ [Next]_vars => RecInv'
  <2>1. IInv /\ [Next]_vars => IInv'
    BY TypeNext, MutexNext, VersionsNext, PlacesNext, FileNext, ReaderNext,
       ReaperListNext DEF IInv
  <2> QED
    BY <2>1, AsideNext, ApartNext, DamageNext, PublishedNext, PromiseNext
       DEF RecInv
<1>2. Recoverable => []Recoverable
  <2>1. Recoverable => Recoverable'
    BY DEF Recoverable
  <2> QED
    BY <2>1, PTL
<1> QED
  BY RecInit, <1>1, <1>2, PTL DEF Spec

\* A site a client was told is published, and that nobody deleted, stays whole
\* under its name with its own deadline: every push that fails puts it back,
\* whichever call failed, and the reaper waits for its deadline.
THEOREM PushesAreUndone == Recoverable /\ Spec => []PublishedSiteIntact
<1>1. RecInv => PublishedSiteIntact
  BY DEF RecInv, PromiseInv, Safe, Away, Busy, Intact, Moved, Replacing,
     PublishedSiteIntact
<1> QED
  BY RecInvariance, <1>1, PTL

-----------------------------------------------------------------------------
(***************************************************************************)
(* The refinement.  SetExpiry is Publish, the end of a RemoveAll is        *)
(* Withdraw or Expire, the end of a request that failed before that is     *)
(* Abandon, and the renames change only what readers find.                 *)
(***************************************************************************)
Asking == {"delete", "remove", "removing"}

PutCall(w) == [client |-> w, op |-> "put", name |-> site[w], ttl |-> ttl[w]]
DeleteCall(w) == [client |-> w, op |-> "delete", name |-> site[w], ttl |-> Never]
Call(w) == IF pc[w] \in Pushes THEN PutCall(w) ELSE DeleteCall(w)

Entry(s) == [name |-> s, version |-> Current(s), expires |-> expiryFile[s]]
Listed(s) == Current(s) # Absent

\* A step that the entry of s, or the call of w, comes through unchanged.
SameEntry(s) ==
    /\ Listed(s)' <=> Listed(s)
    /\ Listed(s) => Current(s)' = Current(s) /\ expiryFile'[s] = expiryFile[s]
SameCall(w) ==
    /\ pc'[w] \in Pushes <=> pc[w] \in Pushes
    /\ pc'[w] \in Asking <=> pc[w] \in Asking
    /\ pc[w] \in Pushes \cup Asking => site'[w] = site[w] /\ ttl'[w] = ttl[w]

\* A step of the registry, or one that it does not see.
Simulated == [Registry!Next]_(Registry!vars)

\* What is published, entry by entry.
LEMMA RegisteredIs ==
    /\ Registered = {Entry(s) : s \in {s \in Sites : Listed(s)}}
    /\ Registered' = {Entry(s)' : s \in {s \in Sites : Listed(s)'}}
    /\ \A n \in Sites : Registry!Others(n) =
           {Entry(s) : s \in {s \in Sites \ {n} : Listed(s)}}
  BY DEF Registered, Entry, Listed, Registry!Others

\* Names that keep their entries keep the registry.
LEMMA RegisteredSame ==
    ASSUME \A s \in Sites : SameEntry(s)
    PROVE  Registered' = Registered
<1>1. \A s \in Sites : Listed(s)' <=> Listed(s)
  BY DEF SameEntry
<1>2. \A s \in Sites : Listed(s) => Entry(s)' = Entry(s)
  BY DEF SameEntry, Entry
<1> QED
  BY <1>1, <1>2, RegisteredIs

\* A new entry takes its name from the old one.
LEMMA RegisteredPut ==
    ASSUME NEW n \in Sites, \A s \in Sites \ {n} : SameEntry(s), Listed(n)'
    PROVE  Registered' = Registry!Others(n) \cup {Entry(n)'}
<1>1. \A s \in Sites \ {n} : Listed(s)' <=> Listed(s)
  BY DEF SameEntry
<1>2. \A s \in Sites \ {n} : Listed(s) => Entry(s)' = Entry(s)
  BY DEF SameEntry, Entry
<1> QED
  BY <1>1, <1>2, RegisteredIs

\* A name that loses its entry is the only one that does.
LEMMA RegisteredDrop ==
    ASSUME NEW n \in Sites, \A s \in Sites \ {n} : SameEntry(s), ~Listed(n)',
           Listed(n)
    PROVE  /\ Registered' = Registry!Others(n)
           /\ Entry(n) \in Registered
           /\ Registered' = Registered \ {Entry(n)}
           /\ Registered' # Registered
<1>1. \A s \in Sites \ {n} : Listed(s)' <=> Listed(s)
  BY DEF SameEntry
<1>2. \A s \in Sites \ {n} : Listed(s) => Entry(s)' = Entry(s)
  BY DEF SameEntry, Entry
<1>3. Registered' = Registry!Others(n)
  BY <1>1, <1>2, RegisteredIs
<1>4. Entry(n) \in Registered
  BY RegisteredIs
<1>5. \A s \in Sites : Entry(s).name = s
  BY DEF Entry
<1>6. Registry!Others(n) = Registered \ {Entry(n)}
  BY <1>5, RegisteredIs
<1> QED
  BY <1>3, <1>4, <1>6

\* What is outstanding, call by call.
LEMMA OutstandingIs ==
    /\ Outstanding = {Call(w) : w \in {w \in Workers : pc[w] \in Pushes \cup Asking}}
    /\ Outstanding' = {Call(w)' : w \in {w \in Workers : pc'[w] \in Pushes \cup Asking}}
    /\ \A w \in Workers : Call(w).client = w
  BY DEF Outstanding, Call, PutCall, DeleteCall, Pushes, Asking

\* Clients whose calls are unchanged have the same calls outstanding.
LEMMA OutstandingSame ==
    ASSUME \A w \in Workers : SameCall(w)
    PROVE  Outstanding' = Outstanding
<1>1. \A w \in Workers : pc[w] \in Pushes \cup Asking => Call(w)' = Call(w)
  BY DEF SameCall, Call, PutCall, DeleteCall
<1>2. \A w \in Workers : pc'[w] \in Pushes \cup Asking <=> pc[w] \in Pushes \cup Asking
  BY DEF SameCall
<1> QED
  BY <1>1, <1>2, OutstandingIs

\* A client that had no call makes one.
LEMMA OutstandingMore ==
    ASSUME NEW c \in Workers, \A w \in Workers \ {c} : SameCall(w),
           pc[c] \notin Pushes \cup Asking, pc'[c] \in Pushes \cup Asking
    PROVE  /\ Outstanding' = Outstanding \cup {Call(c)'}
           /\ \A b \in Outstanding : b.client # c
<1>1. \A w \in Workers \ {c} : pc[w] \in Pushes \cup Asking => Call(w)' = Call(w)
  BY DEF SameCall, Call, PutCall, DeleteCall
<1>2. \A w \in Workers \ {c} :
         pc'[w] \in Pushes \cup Asking <=> pc[w] \in Pushes \cup Asking
  BY DEF SameCall
<1> QED
  BY <1>1, <1>2, OutstandingIs

\* A client's call has taken effect or ended without one.
LEMMA OutstandingLess ==
    ASSUME NEW c \in Workers, \A w \in Workers \ {c} : SameCall(w),
           pc[c] \in Pushes \cup Asking, pc'[c] \notin Pushes \cup Asking
    PROVE  /\ Outstanding' = Outstanding \ {Call(c)}
           /\ Call(c) \in Outstanding
<1>1. \A w \in Workers \ {c} : pc[w] \in Pushes \cup Asking => Call(w)' = Call(w)
  BY DEF SameCall, Call, PutCall, DeleteCall
<1>2. \A w \in Workers \ {c} :
         pc'[w] \in Pushes \cup Asking <=> pc[w] \in Pushes \cup Asking
  BY DEF SameCall
<1> QED
  BY <1>1, <1>2, OutstandingIs

\* Nothing that the registry sees has changed.
LEMMA Stutters ==
    ASSUME UNCHANGED <<clock, due>>, \A s \in Sites : SameEntry(s),
           \A w \in Workers : SameCall(w)
    PROVE  Simulated
  BY RegisteredSame, OutstandingSame DEF Simulated, Registry!vars

\* A call that is over without an effect was abandoned.
LEMMA GivesUp ==
    ASSUME UNCHANGED <<clock, due>>, \A s \in Sites : SameEntry(s),
           NEW c \in Workers, \A w \in Workers \ {c} : SameCall(w),
           pc[c] \in Pushes \cup Asking, pc'[c] \notin Pushes \cup Asking
    PROVE  Simulated
<1>1. Outstanding' = Outstanding \ {Call(c)} /\ Call(c) \in Outstanding
  BY OutstandingLess
<1>2. {Call(c)} \in (SUBSET Outstanding) \ {{}}
  BY <1>1
<1>3. Registry!Abandon
  BY <1>1, <1>2, RegisteredSame DEF Registry!Abandon
<1> QED
  BY <1>3 DEF Simulated, Registry!Next

\* The published version of a name is the one moved aside until SetExpiry.
LEMMA CurrentIs ==
    ASSUME NEW s \in Sites
    PROVE  /\ Current(s) = IF Away(s) THEN kept[mu] ELSE disk[s]
           /\ Current(s)' = IF Away(s)' THEN kept'[mu'] ELSE disk'[s]
  BY DEF Current, Away, Busy

\* An entry is what Current and the expiry file make it.
LEMMA EntryKept ==
    ASSUME NEW s \in Sites, Current(s)' = Current(s),
           Listed(s) => expiryFile'[s] = expiryFile[s]
    PROVE  SameEntry(s)
  BY DEF SameEntry, Listed

\* A client that waits for mutationMu is not touched by the holder.
LEMMA WaitersKept ==
    ASSUME NEW p \in Procs, UNCHANGED <<site, ttl>>,
           \A q \in Procs \ {p} : pc'[q] = pc[q]
    PROVE  \A w \in Workers \ {p} : SameCall(w)
  BY DEF SameCall, Procs

\* PUT and DELETE requests arrive; an upload that breaks off is abandoned.
LEMMA RequestSimulated ==
    ASSUME RecInv, NEW c \in Workers,
           PutSite(c) \/ UploadFails(c) \/ DeleteSite(c)
    PROVE  Simulated
<1> USE ProcsAssumption
    DEF RecInv, IInv, TypeInv, TypeOK, MutexInv, Outside, Procs
<1>1. /\ UNCHANGED <<clock, disk, damaged, expiryFile, due, mu, kept>>
      /\ pc[c] \in Outside
      /\ \A q \in Procs \ {c} :
            /\ pc'[q] = pc[q] /\ site'[q] = site[q] /\ ttl'[q] = ttl[q]
            /\ ver'[q] = ver[q]
      /\ pc'[c] \in {"put", "idle", "delete"}
  BY DEF PutSite, UploadFails, DeleteSite, Goto, diskVars, history
<1>2. \A s \in Sites : SameEntry(s)
  <2>1. \A s \in Sites : Away(s)' <=> Away(s)
    BY <1>1 DEF Away, Busy, Moved
  <2>2. \A s \in Sites : Current(s)' = Current(s)
    BY <1>1, <2>1, CurrentIs
  <2> QED
    BY <1>1, <2>2, EntryKept
<1>3. \A w \in Workers \ {c} : SameCall(w)
  BY <1>1 DEF SameCall
<1>4. CASE UploadFails(c)
  <2>1. pc[c] = "put" /\ pc'[c] = "idle"
    BY <1>4 DEF UploadFails, Goto
  <2> QED
    BY <1>1, <1>2, <1>3, <2>1, GivesUp DEF Pushes, Asking
<1>5. CASE PutSite(c) \/ DeleteSite(c)
  <2>1. /\ pc[c] = "idle" /\ site'[c] \in Sites
        /\ pc'[c] = "delete" \/ (pc'[c] = "put" /\ ttl'[c] \in TTLs)
    BY <1>5 DEF PutSite, DeleteSite, Goto
  <2>2. /\ Outstanding' = Outstanding \cup {Call(c)'}
        /\ \A b \in Outstanding : b.client # c
    BY <1>3, <2>1, OutstandingMore DEF Pushes, Asking
  <2>3. Call(c)' \in Registry!Requests
    BY <2>1 DEF Call, PutCall, DeleteCall, Pushes, Registry!Requests
  <2>4. (Call(c)').client = c
    BY DEF Call, PutCall, DeleteCall
  <2>5. Registry!Ask
    BY <1>1, <1>2, <2>2, <2>3, <2>4, RegisteredSame DEF Registry!Ask
  <2> QED
    BY <2>5 DEF Simulated, Registry!Next
<1> QED
  BY <1>4, <1>5

\* Taking and giving back mutationMu.
LEMMA LockSimulated ==
    ASSUME RecInv, NEW p \in Procs, LockMutation(p) \/ Respond(p)
    PROVE  Simulated
<1> USE ProcsAssumption
    DEF RecInv, IInv, TypeInv, TypeOK, MutexInv, Outside, Procs
<1>1. /\ UNCHANGED <<clock, disk, damaged, expiryFile, due>>
      /\ \A q \in Procs \ {p} :
            pc'[q] = pc[q] /\ site'[q] = site[q] /\ ttl'[q] = ttl[q]
  BY DEF LockMutation, Respond, Goto, diskVars, reqVars, history
<1>2. \/ /\ mu = Nobody /\ mu' = p /\ UNCHANGED <<site, ttl>>
         /\ \/ pc[p] = "put" /\ pc'[p] = "stage"
            \/ pc[p] = "delete" /\ pc'[p] = "remove"
            \/ pc[p] = "reap" /\ pc'[p] = "list"
      \/ mu' = Nobody /\ pc[p] \in {"ok", "fail"} /\ pc'[p] = "idle"
  BY DEF LockMutation, Respond, Goto, reqVars
<1>3. \A s \in Sites : ~Away(s) /\ ~Away(s)'
  BY <1>2 DEF Away, Busy, Moved, Mutex
<1>4. \A s \in Sites : Current(s)' = Current(s)
  BY <1>1, <1>3, CurrentIs
<1>5. \A s \in Sites : SameEntry(s)
  BY <1>1, <1>4, EntryKept
<1>6. \A w \in Workers : SameCall(w)
  BY <1>1, <1>2 DEF SameCall, Pushes, Asking
<1> QED
  BY <1>1, <1>5, <1>6, Stutters

\* Staging, the renames and the repair of a failure change only what readers
\* find: what has been moved aside is still the published version.
LEMMA RenamesSimulated ==
    ASSUME Recoverable, RecInv, NEW p \in Procs,
           \/ Stage(p) \/ Aside(p) \/ AsideFails(p) \/ AsideUnseen(p)
           \/ Install(p) \/ InstallFails(p) \/ SetExpiryFails(p) \/ Undo(p)
    PROVE  Simulated
<1> USE ProcsAssumption
    DEF RecInv, IInv, TypeInv, TypeOK, MutexInv, Outside, Procs
<1>1. /\ UNCHANGED <<clock, expiryFile, due, mu, site, ttl, ver>>
      /\ pc[p] \in {"stage", "aside", "install", "expire", "undo"}
      /\ pc'[p] \in {"aside", "unstage", "install", "rollback", "expire", "undo"}
      /\ pc' = [pc EXCEPT ![p] = pc'[p]]
      /\ \A s \in Sites \ {site[p]} : disk'[s] = disk[s]
  BY DEF Stage, Aside, AsideFails, AsideUnseen, Install, InstallFails,
     SetExpiryFails, Undo, Goto, diskVars, reqVars, history
<1>2. mu = p
  BY <1>1 DEF Mutex
<1>3. Current(site[p])' = Current(site[p])
  <2>1. CASE Stage(p) \/ AsideFails(p)
    BY <1>1, <1>2, <2>1, CurrentIs
       DEF Stage, AsideFails, Goto, Away, Busy, Moved, reqVars, diskVars
  <2>2. CASE Aside(p)
    BY <1>1, <1>2, <2>2, CurrentIs DEF Aside, Goto, Away, Busy, Moved
  <2>3. CASE AsideUnseen(p)
    <3>1. /\ pc[p] = "aside" /\ disk' = disk /\ disk[site[p]] # Absent
      BY <2>3 DEF AsideUnseen, Goto, diskVars
    <3>2. disk[site[p]] # ver[p]
      BY <3>1 DEF Places, Owner, Unset
    <3> QED
      BY <1>1, <1>2, <3>1, <3>2, CurrentIs DEF Away, Busy, Moved
  <2>4. CASE Install(p)
    <3>1. /\ pc[p] = "install" /\ pc'[p] = "expire" /\ kept' = kept
          /\ disk' = [disk EXCEPT ![site[p]] = ver[p]] /\ disk[site[p]] = Absent
      BY <2>4 DEF Install, Goto, reqVars, AsideInv
    <3> QED
      BY <1>1, <1>2, <3>1, CurrentIs DEF Away, Busy, Moved
  <2>5. CASE InstallFails(p) \/ SetExpiryFails(p)
    BY <1>1, <1>2, <2>5, CurrentIs
       DEF InstallFails, SetExpiryFails, Goto, Away, Busy, Moved, reqVars, diskVars
  <2>6. CASE Undo(p)
    <3>1. /\ pc[p] = "undo" /\ pc'[p] = "rollback" /\ kept' = kept
          /\ disk' = [disk EXCEPT ![site[p]] = Absent] /\ disk[site[p]] = ver[p]
      BY <2>6, RepairWorks DEF Undo, Goto, reqVars, AsideInv
    <3> QED
      BY <1>1, <1>2, <3>1, CurrentIs DEF Away, Busy, Moved
  <2> QED
    BY <2>1, <2>2, <2>3, <2>4, <2>5, <2>6
<1>4. \A s \in Sites \ {site[p]} : Current(s)' = Current(s)
  BY <1>1, <1>2, CurrentIs DEF Away, Busy
<1>5. \A s \in Sites : SameEntry(s)
  BY <1>1, <1>3, <1>4, EntryKept
<1>6. \A w \in Workers : SameCall(w)
  BY <1>1 DEF SameCall, Pushes, Asking
<1> QED
  BY <1>1, <1>5, <1>6, Stutters

\* A push that failed ends without effect: its stage is refused or removed, and
\* the directory it had moved aside is back.
LEMMA FailureSimulated ==
    ASSUME Recoverable, RecInv, NEW p \in Procs,
           StageFails(p) \/ RemoveStage(p) \/ Rollback(p)
    PROVE  Simulated
<1> USE ProcsAssumption
    DEF RecInv, IInv, TypeInv, TypeOK, MutexInv, Outside, Procs
<1>1. /\ UNCHANGED <<clock, expiryFile, due, mu, site, ttl, ver, kept>>
      /\ pc[p] \in {"stage", "unstage", "rollback"}
      /\ pc'[p] \in {"fail", "unstage"}
      /\ \A q \in Procs \ {p} : pc'[q] = pc[q]
      /\ \A s \in Sites \ {site[p]} : disk'[s] = disk[s]
      /\ pc[p] # "rollback" => disk' = disk
  BY DEF StageFails, RemoveStage, Rollback, Unstaging, Goto, diskVars, reqVars,
     history
<1>2. mu = p /\ p \in Workers
  BY <1>1 DEF Mutex, ReaperOnlyReaps, Unset
<1>3. Current(site[p])' = Current(site[p])
  <2>1. CASE pc[p] # "rollback"
    BY <1>1, <1>2, <2>1, CurrentIs DEF Away, Busy, Moved
  <2>2. CASE pc[p] = "rollback"
    <3>1. Rollback(p)
      BY <2>2 DEF StageFails, RemoveStage, Goto
    <3>2. \/ disk[site[p]] = Absent
          \/ kept[p] = Absent /\ disk[site[p]] # ver[p]
      BY <2>2 DEF AsideInv
    <3>3. disk'[site[p]] = IF disk[site[p]] = Absent THEN kept[p] ELSE disk[site[p]]
      BY <2>2, <3>1, <3>2, RepairWorks DEF Rollback
    <3> QED
      BY <1>1, <1>2, <2>2, <3>2, <3>3, CurrentIs DEF Away, Busy, Moved
  <2> QED
    BY <2>1, <2>2
<1>4. \A s \in Sites \ {site[p]} : Current(s)' = Current(s)
  BY <1>1, <1>2, CurrentIs DEF Away, Busy
<1>5. \A s \in Sites : SameEntry(s)
  BY <1>1, <1>3, <1>4, EntryKept
<1>6. \A w \in Workers \ {p} : SameCall(w)
  BY <1>1, WaitersKept
<1>7. CASE pc'[p] = "fail"
  BY <1>1, <1>2, <1>5, <1>6, <1>7, GivesUp DEF Pushes, Asking
<1>8. CASE pc'[p] = "unstage"
  <2>1. SameCall(p)
    BY <1>1, <1>8 DEF SameCall, Pushes, Asking
  <2> QED
    BY <1>1, <1>5, <1>6, <2>1, Stutters
<1> QED
  BY <1>1, <1>7, <1>8

\* SetExpiry publishes.
LEMMA PublishSimulated ==
    ASSUME RecInv, NEW p \in Procs, SetExpiry(p)
    PROVE  Simulated
<1> USE ProcsAssumption
    DEF RecInv, IInv, TypeInv, TypeOK, MutexInv, Outside, Procs
<1> DEFINE d == Deadline(clock, ttl[p])
           n == site[p]
<1>1. /\ UNCHANGED <<clock, disk, mu, site, ttl, ver>>
      /\ expiryFile' = [expiryFile EXCEPT ![n] = d]
      /\ due' = [due EXCEPT ![ver[p]] = d]
      /\ pc[p] = "expire" /\ pc' = [pc EXCEPT ![p] = "drop"]
  BY DEF SetExpiry, Goto, reqVars
<1>2. mu = p /\ p \in Workers
  BY <1>1 DEF Mutex, ReaperOnlyReaps, Unset
<1>3. /\ ver[p] \in Versions /\ disk[n] = ver[p]
      /\ ver[p] # Absent /\ due[ver[p]] = Pending
  BY <1>1 DEF VerAtHand, Unset, Places, Installed, Pushing
<1>4. \A s \in Sites \ {n} : SameEntry(s)
  <2>1. \A s \in Sites \ {n} : Current(s)' = Current(s)
    BY <1>1, <1>2, CurrentIs DEF Away, Busy
  <2> QED
    BY <1>1, <2>1, EntryKept
<1>5. Current(n)' = ver[p]
  BY <1>1, <1>2, <1>3, CurrentIs DEF Away, Busy, Moved
<1>6. Registered' = Registry!Others(n) \cup {Entry(n)'}
  BY <1>1, <1>3, <1>4, <1>5, RegisteredPut DEF Listed
<1>7. /\ Outstanding' = Outstanding \ {Call(p)} /\ Call(p) \in Outstanding
  <2>1. \A w \in Workers \ {p} : SameCall(w)
    BY <1>1, WaitersKept
  <2> QED
    BY <1>1, <1>2, <2>1, OutstandingLess DEF Pushes, Asking
<1>8. Call(p) = PutCall(p)
  BY <1>1 DEF Call, Pushes
<1>9. Entry(n)' = [name |-> PutCall(p).name, version |-> ver[p],
                   expires |-> Registry!Deadline(clock, PutCall(p).ttl)]
  BY <1>1, <1>5 DEF Entry, PutCall, Deadline, Registry!Deadline
<1>10. PutCall(p).op = "put" /\ PutCall(p).name = n
  BY DEF PutCall
<1>11. ttl[p] \in (Nat \ {0}) \cup {Never} /\ clock \in Nat
  BY TTLsAssumption
<1>12. d # Pending
  BY <1>11, DeadlineType, NeverAssumption DEF Deadlines
<1>13. {v \in Versions : due'[v] # Pending}
         = {v \in Versions : due[v] # Pending} \cup {ver[p]}
  BY <1>1, <1>3, <1>12
<1>14. ver[p] \in Versions \ {v \in Versions : due[v] # Pending} /\ clock \in 0 .. clock
  BY <1>3
<1>15. Registry!Publish
  BY <1>1, <1>6, <1>7, <1>8, <1>9, <1>10, <1>13, <1>14 DEF Registry!Publish
<1> QED
  BY <1>15 DEF Simulated, Registry!Next

\* What follows a push's publication: its backup goes, and an error of the
\* last Stat changes the answer only.
LEMMA AftermathSimulated ==
    ASSUME RecInv, NEW p \in Procs, DropBackup(p) \/ StatInstalled(p) \/ RemoveBegins(p)
    PROVE  Simulated
<1> USE ProcsAssumption
    DEF RecInv, IInv, TypeInv, TypeOK, MutexInv, Outside, Procs
<1>1. /\ UNCHANGED <<clock, disk, expiryFile, due, mu, site, ttl>>
      /\ \/ pc[p] \in {"drop", "stat"} /\ pc'[p] \in {"stat", "ok", "fail"}
         \/ pc[p] = "remove" /\ pc'[p] = "removing"
      /\ \A q \in Procs \ {p} : pc'[q] = pc[q]
  BY DEF DropBackup, StatInstalled, RemoveBegins, Goto, diskVars, reqVars, history
<1>2. mu = p
  BY <1>1 DEF Mutex
<1>3. \A s \in Sites : Current(s) = disk[s] /\ Current(s)' = disk[s]
  BY <1>1, <1>2, CurrentIs DEF Away, Busy, Moved
<1>4. \A s \in Sites : SameEntry(s)
  BY <1>1, <1>3, EntryKept
<1>5. \A w \in Workers : SameCall(w)
  BY <1>1 DEF SameCall, Pushes, Asking
<1> QED
  BY <1>1, <1>4, <1>5, Stutters

\* A delete that finds no directory, or cannot look or remove it, ends without
\* effect on what is published.
LEMMA MissingSimulated ==
    ASSUME RecInv, NEW p \in Procs,
           \/ DeleteMissing(p) \/ DeleteUnseen(p)
           \/ RemoveEnds(p) /\ disk' = disk
    PROVE  Simulated
<1> USE ProcsAssumption
    DEF RecInv, IInv, TypeInv, TypeOK, MutexInv, Outside, Procs
<1>1. /\ UNCHANGED <<clock, disk, expiryFile, due, mu, site, ttl>>
      /\ pc[p] \in {"remove", "removing"} /\ pc'[p] \in {"next", "fail", "unlink"}
      /\ \A q \in Procs \ {p} : pc'[q] = pc[q]
  BY DEF DeleteMissing, DeleteUnseen, RemoveEnds, Goto, diskVars, reqVars, history
<1>2. mu = p
  BY <1>1 DEF Mutex
<1>3. \A s \in Sites : Current(s)' = Current(s)
  BY <1>1, <1>2, CurrentIs DEF Away, Busy, Moved
<1>4. \A s \in Sites : SameEntry(s)
  BY <1>1, <1>3, EntryKept
<1>5. \A w \in Workers \ {p} : SameCall(w)
  BY <1>1, WaitersKept
<1>6. CASE p \in Workers
  BY <1>1, <1>4, <1>5, <1>6, GivesUp DEF Pushes, Asking
<1>7. CASE p \notin Workers
  BY <1>1, <1>4, <1>5, <1>7, Stutters
<1> QED
  BY <1>6, <1>7

\* The end of a RemoveAll takes the site out of the registry: for the client
\* that asked, or because its deadline has passed.
LEMMA RemoveSimulated ==
    ASSUME RecInv, NEW p \in Procs, RemoveEnds(p), disk' # disk
    PROVE  Simulated
<1> USE ProcsAssumption
    DEF RecInv, IInv, TypeInv, TypeOK, MutexInv, Outside, Procs
<1>0. PICK n \in Sites : n = site[p]
  OBVIOUS
<1>1. /\ UNCHANGED <<clock, expiryFile, due, mu, site, ttl>>
      /\ disk' = [disk EXCEPT ![n] = Absent]
      /\ pc[p] = "removing" /\ pc' = [pc EXCEPT ![p] = "unlink"]
  BY <1>0 DEF RemoveEnds, Goto, reqVars, history
<1>2. mu = p
  BY <1>1 DEF Mutex
<1>3. \A s \in Sites : Current(s) = disk[s] /\ Current(s)' = disk'[s]
  BY <1>1, <1>2, CurrentIs DEF Away, Busy, Moved
<1>4. \A s \in Sites \ {n} : SameEntry(s)
  BY <1>1, <1>3, EntryKept
<1>5. Listed(n) /\ ~Listed(n)'
  BY <1>1, <1>3 DEF Listed
<1>7. \A w \in Workers \ {p} : SameCall(w)
  BY <1>1, WaitersKept
<1>9. CASE p \in Workers
  <2>1. Outstanding' = Outstanding \ {Call(p)} /\ Call(p) \in Outstanding
    BY <1>1, <1>7, <1>9, OutstandingLess DEF Pushes, Asking
  <2>2. Registered' = Registry!Others(n) /\ Registered' # Registered
    BY <1>4, <1>5, RegisteredDrop
  <2>3. Call(p).op = "delete" /\ Call(p).name = n
    BY <1>0, <1>1 DEF Call, DeleteCall, Pushes
  <2>4. Registry!Withdraw
    BY <1>1, <2>1, <2>2, <2>3 DEF Registry!Withdraw
  <2> QED
    BY <2>4 DEF Simulated, Registry!Next
<1>11. CASE p = Reaper
  <2>1. Outstanding' = Outstanding
    BY <1>7, <1>11, OutstandingSame
  <2>2. Entry(n) \in Registered /\ Registered' = Registered \ {Entry(n)}
    BY <1>4, <1>5, RegisteredDrop
  <2>3. Elapsed(expiryFile[n], now) /\ now <= clock
    BY <1>0, <1>1, <1>11 DEF ReaperList, Deleting
  <2>4. Elapsed(expiryFile[n], clock)
    BY <2>3, ElapsedLater
  <2>5. Registry!Elapsed(Entry(n).expires, clock)
    BY <2>4 DEF Elapsed, Registry!Elapsed, Entry
  <2>6. Registry!Expire
    BY <1>1, <2>1, <2>2, <2>5 DEF Registry!Expire
  <2> QED
    BY <2>6 DEF Simulated, Registry!Next
<1> QED
  BY <1>9, <1>11

\* The expiry file of a directory that is gone is not seen.
LEMMA UnlinkSimulated ==
    ASSUME RecInv, NEW p \in Procs, UnlinkExpiry(p)
    PROVE  Simulated
<1> USE ProcsAssumption
    DEF RecInv, IInv, TypeInv, TypeOK, MutexInv, Outside, Procs
<1> DEFINE n == site[p]
<1>1. /\ UNCHANGED <<clock, disk, due, mu, site, ttl>>
      /\ pc[p] = "unlink" /\ pc'[p] \in {"next", "ok"}
      /\ \A q \in Procs \ {p} : pc'[q] = pc[q]
      /\ \A s \in Sites \ {n} : expiryFile'[s] = expiryFile[s]
  BY DEF UnlinkExpiry, Done, Goto, reqVars, history
<1>2. mu = p /\ disk[n] = Absent
  BY <1>1 DEF Mutex, Places, Removed
<1>3. \A s \in Sites : Current(s) = disk[s] /\ Current(s)' = disk[s]
  BY <1>1, <1>2, CurrentIs DEF Away, Busy, Moved
<1>4. \A s \in Sites : SameEntry(s)
  BY <1>1, <1>2, <1>3 DEF SameEntry, Listed
<1>5. \A w \in Workers : SameCall(w)
  BY <1>1 DEF SameCall, Pushes, Asking
<1> QED
  BY <1>1, <1>4, <1>5, Stutters

\* The reaper's bookkeeping and the readers are not seen.
LEMMA BystandersSimulated ==
    ASSUME RecInv,
           \/ WatchExpiries \/ ListExpired \/ NextExpired
           \/ \E r \in Readers : Read(r)
           \/ UNCHANGED vars
    PROVE  Simulated
<1> USE ProcsAssumption
    DEF RecInv, IInv, TypeInv, TypeOK, MutexInv, Outside, Procs
<1> DEFINE MutatorsKept ==
             /\ UNCHANGED <<clock, disk, expiryFile, due, mu, kept, ver>>
             /\ \A w \in Workers :
                   pc'[w] = pc[w] /\ site'[w] = site[w] /\ ttl'[w] = ttl[w]
             /\ pc[Reaper] \notin Moved /\ pc'[Reaper] \notin Moved
<1>1. MutatorsKept
  <2>1. pc[Reaper] \notin Moved
    BY DEF ReaperOnlyReaps, Moved, Unset
  <2>2. CASE WatchExpiries \/ ListExpired \/ NextExpired
    BY <2>1, <2>2 DEF WatchExpiries, ListExpired, NextExpired, Goto, diskVars,
       history, Moved
  <2>3. ASSUME NEW r \in Readers, Read(r) PROVE MutatorsKept
    BY <2>1, <2>3 DEF Read, StatDir, StatExpiry, OpenSite, ServeSite, EndRead,
       diskVars, reqVars, history
  <2>4. CASE UNCHANGED vars
    BY <2>1, <2>4 DEF vars, diskVars, reqVars, history
  <2> QED
    BY <2>2, <2>3, <2>4
<1>2. \A s \in Sites : Away(s)' <=> Away(s)
  BY <1>1 DEF Away, Busy
<1>3. \A s \in Sites : Current(s)' = Current(s)
  BY <1>1, <1>2, CurrentIs
<1>4. \A s \in Sites : SameEntry(s)
  BY <1>1, <1>3, EntryKept
<1>5. \A w \in Workers : SameCall(w)
  BY <1>1 DEF SameCall
<1> QED
  BY <1>1, <1>4, <1>5, Stutters

\* Time passes for both.
LEMMA TickSimulated ==
    ASSUME RecInv, Tick
    PROVE  Simulated
<1>1. /\ clock' = clock + 1
      /\ UNCHANGED <<disk, expiryFile, due, mu, pc, site, ttl, ver, kept>>
  BY DEF Tick, diskVars, reqVars, history
<1>2. Registered' = Registered /\ Outstanding' = Outstanding
  BY <1>1 DEF Registered, Current, Outstanding
<1> QED
  BY <1>1, <1>2 DEF Simulated, Registry!Next, Registry!Tick

\* Every step of the store is a step of the registry or is not seen by it.
LEMMA StepSimulation == Recoverable /\ RecInv /\ [Next]_vars => Simulated
<1> SUFFICES ASSUME Recoverable, RecInv, [Next]_vars PROVE Simulated
  OBVIOUS
<1>1. ~Crash
  BY NoCrash DEF RecInv, IInv, TypeInv
<1> QED
  BY <1>1, RequestSimulated, LockSimulated, RenamesSimulated, FailureSimulated,
     PublishSimulated, AftermathSimulated, MissingSimulated, RemoveSimulated,
     UnlinkSimulated, BystandersSimulated, TickSimulated
     DEF Next, Replace, Delete, Mutate, Reap

\* What readers find differs from what is published only for the name the
\* holder is replacing, whose call is outstanding.
LEMMA ReadsCoherent == RecInv => Registry!Coherent
<1> SUFFICES ASSUME RecInv PROVE Registry!Coherent
  OBVIOUS
<1> DEFINE Seen(s) == [name |-> s, version |-> disk[s], expires |-> expiryFile[s]]
<1>1. /\ Registered = {Entry(s) : s \in {s \in Sites : Listed(s)}}
      /\ Shown = {Seen(s) : s \in {s \in Sites : disk[s] # Absent}}
  BY RegisteredIs DEF Shown
<1>2. \A s \in Sites : Entry(s).name = s /\ Seen(s).name = s
  BY DEF Entry
<1>3. ASSUME NEW s \in Sites
      PROVE  /\ disk[s] # Absent => Registry!Of(Shown, s) = {Seen(s)}
             /\ disk[s] = Absent => Registry!Of(Shown, s) = {}
             /\ Listed(s) => Registry!Of(Registered, s) = {Entry(s)}
             /\ ~Listed(s) => Registry!Of(Registered, s) = {}
  <2> HIDE DEF Seen
  <2>1. \A e \in Shown : e.name = s => e = Seen(s) /\ disk[s] # Absent
    BY <1>1, <1>2
  <2>2. \A e \in Registered : e.name = s => e = Entry(s) /\ Listed(s)
    BY <1>1, <1>2
  <2>3. /\ disk[s] # Absent => Seen(s) \in Shown
        /\ Listed(s) => Entry(s) \in Registered
    BY <1>1
  <2>4. /\ Registry!Of(Shown, s) = {e \in Shown : e.name = s}
        /\ Registry!Of(Registered, s) = {e \in Registered : e.name = s}
    BY DEF Registry!Of
  <2> QED
    BY <1>2, <2>1, <2>2, <2>3, <2>4
<1>4. ASSUME NEW s \in Sites, ~Away(s) PROVE ~Registry!Hidden(s)
  <2>1. Current(s) = disk[s]
    BY <1>4, CurrentIs
  <2>2. (Listed(s) <=> disk[s] # Absent) /\ Entry(s) = Seen(s)
    BY <2>1 DEF Listed, Entry
  <2>3. Registry!Of(Shown, s) = Registry!Of(Registered, s)
    BY <1>3, <2>2
  <2> QED
    BY <2>3 DEF Registry!Hidden
<1>5. ASSUME NEW s \in Sites, Away(s)
      PROVE  Registry!UnderWay(s) /\ Registry!NotYet(s)
  <2>1. mu \in Workers /\ site[mu] = s /\ pc[mu] \in Moved
    BY <1>5 DEF RecInv, IInv, TypeInv, TypeOK, MutexInv, ReaperOnlyReaps, Procs,
       Away, Busy, Moved, Unset
  <2>2. PutCall(mu) \in Outstanding /\ PutCall(mu).name = s
    BY <2>1 DEF Outstanding, PutCall, Moved, Pushes
  <2>3. Registry!UnderWay(s)
    BY <2>2 DEF Registry!UnderWay
  <2>4. CASE disk[s] = Absent
    BY <1>3, <2>3, <2>4 DEF Registry!NotYet
  <2>5. CASE disk[s] # Absent
    <3>1. disk[s] = ver[mu] /\ due[disk[s]] = Pending /\ disk[s] \in Versions
      BY <1>5, <2>1, <2>5 DEF Away, RecInv, IInv, TypeInv, TypeOK, Places, Pushing,
         Unset, Moved, Procs
    <3>2. Seen(s) \in Shown /\ Registry!Of(Shown, s) = {Seen(s)}
      BY <1>1, <1>3, <2>5
    <3>3. Seen(s).version \in Versions \ {v \in Versions : due[v] # Pending}
      BY <3>1
    <3> HIDE DEF Seen
    <3> QED
      BY <2>3, <3>2, <3>3 DEF Registry!NotYet
  <2> QED
    BY <2>3, <2>4, <2>5
<1>6. ASSUME NEW s \in Sites, NEW t \in Sites, Away(s), Away(t) PROVE s = t
  BY <1>6 DEF Away, Busy
<1> QED
  BY <1>4, <1>5, <1>6 DEF Registry!Coherent

\* At startup nothing is published, nothing has been asked and nothing is found.
LEMMA InitSimulation == Init => Registry!ReadsInit
  BY DEF Init, Registry!ReadsInit, Registry!Init, Registered, Shown,
     Current, Outstanding, Procs, Pushes

\* The chain of renames, the expiry file beside the directory and the repair
\* of whichever call failed change what is published once per request: a name
\* never loses its site to a failed push and never has a version with the
\* deadline of another.  What readers find is what is published, but for the
\* one name whose directory a request under way has moved: there they find
\* nothing, or the upload that is not published yet.
THEOREM StoreIsRegistry == Recoverable /\ Spec => ImplementsRegistry
<1>1. Recoverable /\ RecInv /\ Registry!Coherent' /\ [Next]_vars
        => [Registry!ReadsNext]_<<Registry!vars, Shown>>
  <2> SUFFICES ASSUME Recoverable, RecInv, Registry!Coherent', [Next]_vars
               PROVE  [Registry!ReadsNext]_<<Registry!vars, Shown>>
    OBVIOUS
  <2>1. Registry!Next \/ UNCHANGED Registry!vars
    BY StepSimulation DEF Simulated
  <2> QED
    BY <2>1 DEF Registry!ReadsNext, Registry!Look
<1>2. Recoverable => []Recoverable
  <2>1. Recoverable => Recoverable'
    BY DEF Recoverable
  <2> QED
    BY <2>1, PTL
<1> QED
  BY RecInvariance, ReadsCoherent, InitSimulation, <1>1, <1>2, PTL
     DEF Spec, ImplementsRegistry, Registry!ReadsSpec

=============================================================================
