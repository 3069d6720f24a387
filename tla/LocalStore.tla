------------------------------ MODULE LocalStore ------------------------------
(***************************************************************************)
(* The filesystem backend (internal/storage/storage.go) under the broker   *)
(* that drives it (internal/server/server.go, cmd/crated/main.go).         *)
(*                                                                         *)
(* Mutators are the goroutines of PUT and DELETE requests (Workers) and    *)
(* the expiry watcher (Reaper); each holds the server's mutationMu from    *)
(* its first storage call to its answer.  Readers are public GET requests: *)
(* they take no lock and may live in another process (role web), so they   *)
(* see every intermediate state of the directory tree.  A crash drops      *)
(* every mutator and keeps the disk; nothing in the code repairs the disk  *)
(* at startup.                                                             *)
(*                                                                         *)
(* A site name is a number, because DeleteExpired works through sites in   *)
(* name order.  A version stands for the bytes of one upload.              *)
(***************************************************************************)
EXTENDS Naturals

CONSTANTS
    Sites,       \* site names, ordered as numbers
    Workers,     \* goroutines serving PUT and DELETE /api/sites/{name}
    Reaper,      \* the watchExpiries goroutine
    Readers,     \* goroutines serving public GETs
    TTLs,        \* lifetimes a push may ask for; Never among them or not
    Never,       \* no deadline: a nil *time.Time
    Pending,     \* a version whose push has not recorded a deadline yet
    Nobody,      \* mutationMu is free
    Faults,      \* which calls into the filesystem may fail
    MaxFaults,   \* bound: failing calls in a behaviour
    MaxCrashes,  \* bound: process deaths in a behaviour
    MaxPushes,   \* bound: uploads in a behaviour
    MaxClock     \* bound: the last instant

FaultPoints == {"look", "aside", "install", "expiry", "restore", "unstage",
                "drop", "stat", "remove", "unlink", "list", "skip"}

ASSUME SitesAssumption == Sites \subseteq Nat /\ Sites # {}
ASSUME ProcsAssumption == /\ Reaper \notin Workers
                          /\ Nobody \notin Workers \cup {Reaper}
ASSUME NeverAssumption == /\ Never \notin Nat
                          /\ Pending \notin Nat \cup {Never}
ASSUME TTLsAssumption  == TTLs \subseteq (Nat \ {0}) \cup {Never}
ASSUME FaultsAssumption == Faults \subseteq FaultPoints
ASSUME BoundsAssumption == {MaxFaults, MaxCrashes, MaxPushes, MaxClock} \subseteq Nat

Procs     == Workers \cup {Reaper}
Versions  == 1 .. MaxPushes
Deadlines == Nat \cup {Never}
Absent    == 0                       \* no directory, or no version at hand
AnySite   == CHOOSE s \in Sites : TRUE   \* a request not yet made

VARIABLES
    clock,       \* wall time
    disk,        \* sites/<name>: the version in the directory, or Absent
    damaged,     \* versions an os.RemoveAll has begun to take apart
    stages,      \* sites/.<name>.stage-*: versions extracted, not installed
    backups,     \* sites/<name>.old-<nano>: versions moved aside, per name
    expiryFile,  \* sites/.expiries/<name>; Never when there is no file
    mu,          \* holder of mutationMu
    pc,          \* where each mutator stands
    site, ttl, ver,     \* a mutator's request: name, lifetime, upload
    kept,        \* replaceFromTar's `backup`: the version it moved aside
    now, todo,   \* DeleteExpired's clock reading and the names left to delete
    at,          \* where each reader stands
    asked,       \* the site a reader was asked for
    old,         \* ... or that backup of it, if the name was <name>.old-<nano>
    since,       \* when the reader's request arrived
    got,         \* the version the reader's answer came from
    pushes, faults, crashes,  \* counters for the bounds
    due,         \* history: the deadline each version's push recorded
    promised,    \* history: the version a client was last told is published
    spoilt       \* history: versions whose own clean-up call failed, or whose
                 \* request died

diskVars  == <<disk, damaged, stages, backups, expiryFile>>
reqVars   == <<site, ttl, ver, kept, now, todo>>
readVars  == <<at, asked, old, since, got>>
bounds    == <<pushes, faults, crashes>>
history   == <<due, promised, spoilt>>
vars == <<clock, diskVars, mu, pc, reqVars, readVars, bounds, history>>

(***************************************************************************)
(* expired(): a deadline is over at the very instant it names.             *)
(***************************************************************************)
Elapsed(deadline, t) == deadline # Never /\ deadline <= t

Deadline(t, lifetime) == IF lifetime = Never THEN Never ELSE t + lifetime

Fault(f) == /\ f \in Faults
            /\ faults < MaxFaults
            /\ faults' = faults + 1

Goto(p, from, to) == pc[p] = from /\ pc' = [pc EXCEPT ![p] = to]

Init ==
    /\ clock = 0
    /\ disk = [s \in Sites |-> Absent]
    /\ damaged = {} /\ stages = {}
    /\ backups = [s \in Sites |-> {}]
    /\ expiryFile = [s \in Sites |-> Never]
    /\ mu = Nobody
    /\ pc = [p \in Procs |-> "idle"]
    /\ site = [p \in Procs |-> AnySite]
    /\ ttl = [p \in Procs |-> Never]
    /\ ver = [p \in Procs |-> Absent]
    /\ kept = [p \in Procs |-> Absent]
    /\ now = 0 /\ todo = {}
    /\ at = [r \in Readers |-> "idle"]
    /\ asked = [r \in Readers |-> AnySite]
    /\ old = [r \in Readers |-> Absent]
    /\ since = [r \in Readers |-> 0]
    /\ got = [r \in Readers |-> Absent]
    /\ pushes = 0 /\ faults = 0 /\ crashes = 0
    /\ due = [v \in Versions |-> Pending]
    /\ promised = [s \in Sites |-> Absent]
    /\ spoilt = {}

-----------------------------------------------------------------------------
(***************************************************************************)
(* Requests, up to and including mutationMu.Lock().                        *)
(***************************************************************************)

\* handlePutSite up to the lock: the name and X-Crate-Expires are valid and
\* the body has been copied to a private temporary file.
PutSite(w) ==
    /\ Goto(w, "idle", "put")
    /\ pushes < MaxPushes
    /\ pushes' = pushes + 1
    /\ \E s \in Sites, t \in TTLs :
          /\ site' = [site EXCEPT ![w] = s]
          /\ ttl' = [ttl EXCEPT ![w] = t]
    /\ ver' = [ver EXCEPT ![w] = pushes + 1]
    /\ UNCHANGED <<clock, diskVars, mu, kept, now, todo, readVars,
                   faults, crashes, history>>

\* handlePutSite gives up before the lock: the body is too large or cut off.
UploadFails(w) ==
    /\ Goto(w, "put", "idle")
    /\ ver' = [ver EXCEPT ![w] = Absent]
    /\ UNCHANGED <<clock, diskVars, mu, site, ttl, kept, now, todo, readVars,
                   bounds, history>>

DeleteSite(w) ==
    /\ Goto(w, "idle", "delete")
    /\ \E s \in Sites : site' = [site EXCEPT ![w] = s]
    /\ UNCHANGED <<clock, diskVars, mu, ttl, ver, kept, now, todo, readVars,
                   bounds, history>>

\* watchExpiries' remove: time.Now() is read before DeleteExpired locks.
WatchExpiries ==
    /\ Goto(Reaper, "idle", "reap")
    /\ now' = clock
    /\ UNCHANGED <<clock, diskVars, mu, site, ttl, ver, kept, todo, readVars,
                   bounds, history>>

\* Mutant: DeleteExpired without mutationMu.
BugReaperUnlocked(p) ==
    /\ p = Reaper \/ mu = Nobody
    /\ mu' = p
    /\ \/ Goto(p, "put", "stage")
       \/ Goto(p, "delete", "remove")
       \/ Goto(p, "reap", "list")
    /\ UNCHANGED <<clock, diskVars, reqVars, readVars, bounds, history>>

LockMutation(p) ==
    /\ mu = Nobody
    /\ mu' = p
    /\ \/ Goto(p, "put", "stage")
       \/ Goto(p, "delete", "remove")
       \/ Goto(p, "reap", "list")
    /\ UNCHANGED <<clock, diskVars, reqVars, readVars, bounds, history>>

\* Mutant: Unlock only on the way that succeeds.
BugKeepsMutex(p) ==
    /\ \/ Goto(p, "ok", "idle") /\ mu' = Nobody
       \/ Goto(p, "fail", "idle") /\ UNCHANGED mu
    /\ UNCHANGED <<clock, diskVars, reqVars, readVars, bounds, history>>

\* Mutant: the watcher returns for good when a pass fails.
BugWatcherStops(p) ==
    /\ \/ Goto(p, "ok", "idle")
       \/ Goto(p, "fail", IF p = Reaper THEN "stopped" ELSE "idle")
    /\ mu' = Nobody
    /\ UNCHANGED <<clock, diskVars, reqVars, readVars, bounds, history>>

\* The answer, and the deferred Unlock.  The request's variables die with it.
Respond(p) ==
    /\ Goto(p, "ok", "idle") \/ Goto(p, "fail", "idle")
    /\ mu' = Nobody
    /\ site' = [site EXCEPT ![p] = AnySite]
    /\ ttl' = [ttl EXCEPT ![p] = Never]
    /\ ver' = [ver EXCEPT ![p] = Absent]
    /\ kept' = [kept EXCEPT ![p] = Absent]
    /\ now' = IF p = Reaper THEN 0 ELSE now
    /\ todo' = IF p = Reaper THEN {} ELSE todo
    /\ UNCHANGED <<clock, diskVars, readVars, bounds, history>>

-----------------------------------------------------------------------------
(***************************************************************************)
(* replaceFromTar, one action per change another goroutine can see.        *)
(***************************************************************************)

\* MkdirTemp and extractTar.  The stage's name starts with a dot, so nothing
\* else looks at it.
Stage(p) ==
    /\ Goto(p, "stage", "aside")
    /\ stages' = stages \cup {ver[p]}
    /\ UNCHANGED <<clock, disk, damaged, backups, expiryFile, mu, reqVars,
                   readVars, bounds, history>>

\* MkdirTemp fails; or extractTar refuses the archive halfway.
StageFails(p) ==
    /\ \/ Goto(p, "stage", "fail") /\ UNCHANGED stages
       \/ Goto(p, "stage", "unstage") /\ stages' = stages \cup {ver[p]}
    /\ UNCHANGED <<clock, disk, damaged, backups, expiryFile, mu, reqVars,
                   readVars, bounds, history>>

\* os.RemoveAll(stage) on each way that fails, result ignored.
RemoveStage(p) ==
    /\ Goto(p, "unstage", "fail")
    /\ \/ /\ stages' = stages \ {ver[p]}
          /\ UNCHANGED <<faults, spoilt>>
       \/ /\ Fault("unstage")
          /\ spoilt' = spoilt \cup {ver[p]}
          /\ UNCHANGED stages
    /\ UNCHANGED <<clock, disk, damaged, backups, expiryFile, mu, reqVars,
                   readVars, pushes, crashes, due, promised>>

\* Mutant: a backup is recorded though there was no directory to move.
BugAsideAlways(p) ==
    LET s == site[p] IN
    /\ Goto(p, "aside", "install")
    /\ kept' = [kept EXCEPT ![p] = disk[s]]
    /\ backups' = [backups EXCEPT ![s] = @ \cup {disk[s]}]
    /\ disk' = [disk EXCEPT ![s] = Absent]
    /\ UNCHANGED <<clock, damaged, stages, expiryFile, mu, site, ttl, ver, now,
                   todo, readVars, bounds, history>>

\* Move an existing directory out of the way.
Aside(p) ==
    LET s == site[p] IN
    /\ Goto(p, "aside", "install")
    /\ kept' = [kept EXCEPT ![p] = disk[s]]
    /\ backups' = [backups EXCEPT ![s] = @ \cup ({disk[s]} \ {Absent})]
    /\ disk' = [disk EXCEPT ![s] = Absent]
    /\ UNCHANGED <<clock, damaged, stages, expiryFile, mu, site, ttl, ver, now,
                   todo, readVars, bounds, history>>

\* Mutant: the early return forgets the stage.
BugStageLeft(p) ==
    /\ Goto(p, "aside", "fail")
    /\ disk[site[p]] # Absent
    /\ Fault("aside")
    /\ UNCHANGED <<clock, diskVars, mu, reqVars, readVars, pushes, crashes,
                   history>>

AsideFails(p) ==
    /\ Goto(p, "aside", "unstage")
    /\ disk[site[p]] # Absent
    /\ Fault("aside")
    /\ UNCHANGED <<clock, diskVars, mu, reqVars, readVars, pushes, crashes,
                   history>>

\* An error of os.Stat is taken for a free name: nothing is moved aside, and
\* the rename of the stage over the directory that is there fails.
AsideUnseen(p) ==
    /\ Goto(p, "aside", "rollback")
    /\ disk[site[p]] # Absent
    /\ Fault("look")
    /\ UNCHANGED <<clock, diskVars, mu, reqVars, readVars, pushes, crashes,
                   history>>

Install(p) ==
    /\ Goto(p, "install", "expire")
    /\ disk' = [disk EXCEPT ![site[p]] = ver[p]]
    /\ stages' = stages \ {ver[p]}
    /\ UNCHANGED <<clock, damaged, backups, expiryFile, mu, reqVars, readVars,
                   bounds, history>>

InstallFails(p) ==
    /\ Goto(p, "install", "rollback")
    /\ Fault("install")
    /\ UNCHANGED <<clock, diskVars, mu, reqVars, readVars, pushes, crashes,
                   history>>

\* afterInstall: SetExpiry renames a finished file over the old one, or
\* removes the old one when the push asked for no deadline.
SetExpiry(p) ==
    LET d == Deadline(clock, ttl[p]) IN
    /\ Goto(p, "expire", "drop")
    /\ expiryFile' = [expiryFile EXCEPT ![site[p]] = d]
    /\ due' = [due EXCEPT ![ver[p]] = d]
    /\ UNCHANGED <<clock, disk, damaged, stages, backups, mu, reqVars,
                   readVars, bounds, promised, spoilt>>

\* SetExpiry fails; os.RemoveAll of the new directory begins.
SetExpiryFails(p) ==
    /\ Goto(p, "expire", "undo")
    /\ Fault("expiry")
    /\ damaged' = damaged \cup {ver[p]}
    /\ UNCHANGED <<clock, disk, stages, backups, expiryFile, mu, reqVars,
                   readVars, pushes, crashes, history>>

\* The result of that os.RemoveAll is ignored.
Undo(p) ==
    /\ Goto(p, "undo", "rollback")
    /\ \/ /\ disk' = [disk EXCEPT ![site[p]] = Absent]
          /\ UNCHANGED faults
       \/ Fault("remove") /\ UNCHANGED disk
    /\ UNCHANGED <<clock, damaged, stages, backups, expiryFile, mu, reqVars,
                   readVars, pushes, crashes, history>>

\* Where a failed push goes on: it removes its stage, unless it had installed
\* it.
Unstaging(p) == IF ver[p] \in stages THEN "unstage" ELSE "fail"

\* Mutant: a failed push does not rename the backup back.
BugNoRollback(p) ==
    /\ Goto(p, "rollback", Unstaging(p))
    /\ UNCHANGED <<clock, diskVars, mu, reqVars, readVars, bounds, history>>

\* Put the old directory back under its name.  The rename's result is ignored;
\* it cannot succeed over what is left of the new directory.
Rollback(p) ==
    LET s == site[p]
        restorable == kept[p] # Absent /\ disk[s] = Absent IN
    /\ Goto(p, "rollback", Unstaging(p))
    /\ \/ /\ restorable
          /\ disk' = [disk EXCEPT ![s] = kept[p]]
          /\ backups' = [backups EXCEPT ![s] = @ \ {kept[p]}]
          /\ UNCHANGED <<faults, spoilt>>
       \/ /\ restorable => Fault("restore")
          /\ ~restorable => UNCHANGED faults
          /\ spoilt' = spoilt \cup ({kept[p]} \ {Absent})
          /\ UNCHANGED <<disk, backups>>
    /\ UNCHANGED <<clock, damaged, stages, expiryFile, mu, reqVars, readVars,
                   pushes, crashes, due, promised>>

\* os.RemoveAll(backup), result ignored.
DropBackup(p) ==
    /\ Goto(p, "drop", "stat")
    /\ \/ /\ backups' = [backups EXCEPT ![site[p]] = @ \ {kept[p]}]
          /\ UNCHANGED <<damaged, faults, spoilt>>
       \/ /\ kept[p] # Absent
          /\ Fault("drop")
          /\ damaged' = damaged \cup {kept[p]}
          /\ spoilt' = spoilt \cup {kept[p]}
          /\ UNCHANGED backups
    /\ UNCHANGED <<clock, disk, stages, expiryFile, mu, reqVars, readVars,
                   pushes, crashes, due, promised>>

\* The push answers with Stat of what it installed; an error of that Stat is
\* the push's error, and its client does not know what is published.
StatInstalled(p) ==
    /\ \/ /\ Goto(p, "stat", "ok")
          /\ promised' = [promised EXCEPT ![site[p]] = ver[p]]
          /\ UNCHANGED faults
       \/ /\ Goto(p, "stat", "fail")
          /\ Fault("stat")
          /\ promised' = [promised EXCEPT ![site[p]] = Absent]
    /\ UNCHANGED <<clock, diskVars, mu, reqVars, readVars, pushes, crashes, due,
                   spoilt>>

-----------------------------------------------------------------------------
(***************************************************************************)
(* Delete, shared by DELETE requests and by DeleteExpired.                 *)
(***************************************************************************)

Done(p) == IF p = Reaper THEN "next" ELSE "ok"

\* A name without a directory is ErrNotFound: an answer for a client, nothing
\* to the reaper.
DeleteMissing(p) ==
    /\ Goto(p, "remove", IF p = Reaper THEN "next" ELSE "fail")
    /\ disk[site[p]] = Absent
    /\ UNCHANGED <<clock, diskVars, mu, reqVars, readVars, bounds, history>>

\* Another error of os.Stat is the answer, and ends DeleteExpired.
DeleteUnseen(p) ==
    /\ Goto(p, "remove", "fail")
    /\ Fault("look")
    /\ UNCHANGED <<clock, diskVars, mu, reqVars, readVars, pushes, crashes,
                   history>>

\* Mutant: the expiry file goes first, the directory after it.
BugUnlinkFirst(p) ==
    LET s == site[p] IN
    /\ Goto(p, "remove", "removing")
    /\ disk[s] # Absent
    /\ damaged' = damaged \cup {disk[s]}
    /\ expiryFile' = [expiryFile EXCEPT ![s] = Never]
    /\ promised' = IF p = Reaper THEN promised
                   ELSE [promised EXCEPT ![s] = Absent]
    /\ UNCHANGED <<clock, disk, stages, backups, mu, reqVars, readVars, bounds,
                   due, spoilt>>

\* os.RemoveAll takes the directory apart file by file ...
RemoveBegins(p) ==
    LET s == site[p] IN
    /\ Goto(p, "remove", "removing")
    /\ disk[s] # Absent
    /\ damaged' = damaged \cup {disk[s]}
    /\ promised' = IF p = Reaper THEN promised
                   ELSE [promised EXCEPT ![s] = Absent]
    /\ UNCHANGED <<clock, disk, stages, backups, expiryFile, mu, reqVars,
                   readVars, bounds, due, spoilt>>

\* ... and removes the directory last, or stops halfway.
RemoveEnds(p) ==
    /\ \/ /\ Goto(p, "removing", "unlink")
          /\ disk' = [disk EXCEPT ![site[p]] = Absent]
          /\ UNCHANGED faults
       \/ /\ Goto(p, "removing", "fail")
          /\ Fault("remove")
          /\ UNCHANGED disk
    /\ UNCHANGED <<clock, damaged, stages, backups, expiryFile, mu, reqVars,
                   readVars, pushes, crashes, history>>

\* os.Remove(expiryPath), result ignored.
UnlinkExpiry(p) ==
    /\ Goto(p, "unlink", Done(p))
    /\ \/ /\ expiryFile' = [expiryFile EXCEPT ![site[p]] = Never]
          /\ UNCHANGED faults
       \/ Fault("unlink") /\ UNCHANGED expiryFile
    /\ UNCHANGED <<clock, disk, damaged, stages, backups, mu, reqVars,
                   readVars, pushes, crashes, history>>

\* DeleteExpired's List and its filter.  List skips a site whose Stat fails; a
\* directory that cannot be read ends the pass.  A backup is listed too (its
\* name is a valid one) but has no expiry file, so it is never chosen.
ListExpired ==
    LET overdue == {s \in Sites : disk[s] # Absent /\ Elapsed(expiryFile[s], now)} IN
    /\ \/ /\ Goto(Reaper, "list", "next")
          /\ \/ todo' = overdue /\ UNCHANGED faults
             \/ (\E s \in overdue : todo' = overdue \ {s}) /\ Fault("skip")
       \/ /\ Goto(Reaper, "list", "fail")
          /\ Fault("list")
          /\ UNCHANGED todo
    /\ UNCHANGED <<clock, diskVars, mu, site, ttl, ver, kept, now, readVars,
                   pushes, crashes, history>>

NextExpired ==
    /\ \/ /\ todo = {}
          /\ Goto(Reaper, "next", "ok")
          /\ UNCHANGED <<site, todo>>
       \/ /\ Goto(Reaper, "next", "remove")
          /\ \E s \in todo :
                /\ \A t \in todo : s <= t
                /\ site' = [site EXCEPT ![Reaper] = s]
                /\ todo' = todo \ {s}
    /\ UNCHANGED <<clock, diskVars, mu, ttl, ver, kept, now, readVars, bounds,
                   history>>

-----------------------------------------------------------------------------
(***************************************************************************)
(* handlePublic.  A name is a site's own, or the valid one that a directory *)
(* moved aside has; that one has no expiry file.  Answers without content   *)
(* leave no trace.                                                          *)
(***************************************************************************)

\* The version in the directory that has the name a reader was asked for.
Under(r) == IF old[r] = Absent THEN disk[asked[r]]
            ELSE IF old[r] \in backups[asked[r]] THEN old[r] ELSE Absent

\* What Stat reads beside it.
DeadlineOf(r) == IF old[r] = Absent THEN expiryFile[asked[r]] ELSE Never

Forget(r) ==
    /\ at' = [at EXCEPT ![r] = "idle"]
    /\ asked' = [asked EXCEPT ![r] = AnySite]
    /\ old' = [old EXCEPT ![r] = Absent]
    /\ since' = [since EXCEPT ![r] = 0]
    /\ got' = [got EXCEPT ![r] = Absent]

\* Stat finds the directory.
StatDir(r) ==
    /\ at[r] = "idle"
    /\ at' = [at EXCEPT ![r] = "expiry"]
    /\ \E s \in Sites :
          /\ asked' = [asked EXCEPT ![r] = s]
          /\ \/ disk[s] # Absent /\ UNCHANGED old
             \/ \E v \in backups[s] : old' = [old EXCEPT ![r] = v]
    /\ since' = [since EXCEPT ![r] = clock]
    /\ UNCHANGED <<clock, diskVars, mu, pc, reqVars, got, bounds, history>>

\* Stat reads the deadline and handlePublic compares it with the time; or the
\* walk over the directory failed because it was being moved or removed.
StatExpiry(r) ==
    /\ at[r] = "expiry"
    /\ \/ /\ ~Elapsed(DeadlineOf(r), clock)
          /\ at' = [at EXCEPT ![r] = "open"]
          /\ UNCHANGED <<asked, old, since, got>>
       \/ /\ Elapsed(DeadlineOf(r), clock) \/ Under(r) \in damaged \cup {Absent}
          /\ Forget(r)
    /\ UNCHANGED <<clock, diskVars, mu, pc, reqVars, bounds, history>>

\* Open only looks whether the directory is there: os.DirFS resolves the path
\* again for every file.
OpenSite(r) ==
    /\ at[r] = "open"
    /\ \/ /\ Under(r) # Absent
          /\ at' = [at EXCEPT ![r] = "serve"]
          /\ UNCHANGED <<asked, old, since, got>>
       \/ /\ Under(r) = Absent
          /\ Forget(r)
    /\ UNCHANGED <<clock, diskVars, mu, pc, reqVars, bounds, history>>

\* serveSite opens the file below whatever directory has the name by now.
ServeSite(r) ==
    LET v == Under(r) IN
    /\ at[r] = "serve"
    /\ \/ /\ v # Absent
          /\ at' = [at EXCEPT ![r] = "served"]
          /\ got' = [got EXCEPT ![r] = v]
          /\ UNCHANGED <<asked, old, since>>
       \/ /\ v \in damaged \cup {Absent}
          /\ Forget(r)
    /\ UNCHANGED <<clock, diskVars, mu, pc, reqVars, bounds, history>>

EndRead(r) ==
    /\ at[r] = "served"
    /\ Forget(r)
    /\ UNCHANGED <<clock, diskVars, mu, pc, reqVars, bounds, history>>

-----------------------------------------------------------------------------
Tick ==
    /\ clock < MaxClock
    /\ clock' = clock + 1
    /\ UNCHANGED <<diskVars, mu, pc, reqVars, readVars, bounds, history>>

\* The broker dies: killed, or out of its five seconds of shutdown with a
\* mutation under way.  The disk stays as it is and nothing tidies it.
Crash ==
    /\ crashes < MaxCrashes
    /\ crashes' = crashes + 1
    /\ mu' = Nobody
    /\ pc' = [p \in Procs |-> "idle"]
    /\ site' = [p \in Procs |-> AnySite]
    /\ ttl' = [p \in Procs |-> Never]
    /\ ver' = [p \in Procs |-> Absent]
    /\ kept' = [p \in Procs |-> Absent]
    /\ now' = 0 /\ todo' = {}
    /\ spoilt' = IF mu = Nobody THEN spoilt
                 ELSE spoilt \cup ({ver[mu], kept[mu]} \ {Absent})
    /\ UNCHANGED <<clock, diskVars, readVars, pushes, faults, due, promised>>

Replace(p) == \/ Stage(p) \/ StageFails(p) \/ RemoveStage(p)
              \/ Aside(p) \/ AsideFails(p) \/ AsideUnseen(p) \/ Install(p) \/ InstallFails(p) \/ SetExpiry(p)
              \/ SetExpiryFails(p) \/ Undo(p) \/ Rollback(p)
              \/ DropBackup(p) \/ StatInstalled(p)

Delete(p) == \/ DeleteMissing(p) \/ DeleteUnseen(p) \/ RemoveBegins(p) \/ RemoveEnds(p)
             \/ UnlinkExpiry(p)

Mutate(p) == Replace(p) \/ Delete(p) \/ Respond(p)

Reap == ListExpired \/ NextExpired

Read(r) == StatDir(r) \/ StatExpiry(r) \/ OpenSite(r) \/ ServeSite(r) \/ EndRead(r)

Next == \/ \E w \in Workers : PutSite(w) \/ UploadFails(w) \/ DeleteSite(w)
        \/ WatchExpiries
        \/ \E p \in Procs : LockMutation(p) \/ Mutate(p)
        \/ Reap
        \/ \E r \in Readers : Read(r)
        \/ Tick
        \/ Crash

Spec == Init /\ [][Next]_vars

(***************************************************************************)
(* A runnable goroutine runs, the watcher's ticker fires again and again,  *)
(* and sync.Mutex hands itself to a waiter it has starved for 1ms, so a    *)
(* waiter that finds it free infinitely often gets it.  Nothing is assumed *)
(* of clients or of time.                                                  *)
(***************************************************************************)
Fairness == /\ \A p \in Procs : /\ WF_vars(Mutate(p))
                                /\ SF_vars(LockMutation(p))
            /\ WF_vars(WatchExpiries)
            /\ WF_vars(Reap)

FairSpec == Spec /\ Fairness

-----------------------------------------------------------------------------
Stations == {"idle", "put", "delete", "reap", "stage", "unstage", "aside", "install",
             "expire", "undo", "rollback", "drop", "stat", "remove",
             "removing", "unlink", "list", "next", "ok", "fail"}

\* Every variable keeps its type: a directory never holds a version nobody
\* uploaded, and no counter passes its bound.
TypeOK ==
    /\ clock \in Nat
    /\ disk \in [Sites -> Versions \cup {Absent}]
    /\ damaged \subseteq Versions
    /\ stages \subseteq Versions
    /\ backups \in [Sites -> SUBSET Versions]
    /\ expiryFile \in [Sites -> Deadlines]
    /\ mu \in Procs \cup {Nobody}
    /\ pc \in [Procs -> Stations]
    /\ site \in [Procs -> Sites]
    /\ ttl \in [Procs -> TTLs \cup {Never}]
    /\ ver \in [Procs -> Versions \cup {Absent}]
    /\ kept \in [Procs -> Versions \cup {Absent}]
    /\ now \in Nat
    /\ todo \subseteq Sites
    /\ at \in [Readers -> {"idle", "expiry", "open", "serve", "served"}]
    /\ asked \in [Readers -> Sites]
    /\ old \in [Readers -> Versions \cup {Absent}]
    /\ since \in [Readers -> Nat]
    /\ got \in [Readers -> Versions \cup {Absent}]
    /\ pushes \in 0 .. MaxPushes
    /\ faults \in Nat /\ crashes \in Nat
    /\ due \in [Versions -> Deadlines \cup {Pending}]
    /\ promised \in [Sites -> Versions \cup {Absent}]
    /\ spoilt \subseteq Versions

\* The name is between two states: the mutex holder has moved its directory
\* and has neither committed nor restored it.
Replacing(s) ==
    /\ mu # Nobody
    /\ site[mu] = s
    /\ pc[mu] \in {"install", "expire", "undo", "rollback", "drop", "stat"}

\* A public request for a site never gets content whose deadline had passed
\* when the request arrived, whatever pushes, deletes, failures and deaths of
\* the broker fall between handlePublic's Stat, its check and the read of the
\* file (server.go: "can never extend public availability").  It is about a
\* site's own name: under the name of a directory that was moved aside the
\* code does serve such content (ElapsedNotPublic).  A version whose push has
\* not recorded a deadline has none yet.
ServedNotExpired ==
    \A r \in Readers :
        at[r] = "served" /\ old[r] = Absent =>
            LET d == due[got[r]] IN d = Pending \/ ~Elapsed(d, since[r])

\* A site a client was told is published, and that nobody deleted, is on disk
\* whole, under its name and with its own deadline until that deadline passes:
\* pushes that fail put it back and the reaper spares it.
PublishedSiteIntact ==
    \A s \in Sites :
        LET v == promised[s] IN
        (v # Absent /\ ~Elapsed(due[v], clock) /\ ~Replacing(s)) =>
            /\ disk[s] = v
            /\ v \notin damaged
            /\ expiryFile[s] = due[v]

\* While nobody holds mutationMu, every stage and every moved-aside directory
\* on disk is one whose own removal or restoring rename failed, or whose
\* request died with the broker: no other failure of any call, on any way out
\* of a push, leaves one behind.
NoLeftovers ==
    mu = Nobody => \A v \in stages \cup UNION {backups[s] : s \in Sites} : v \in spoilt

\* The reaper takes apart no version whose own deadline is still to come: it
\* never acts on a deadline that belongs to the version's predecessor.
ReaperSparesLive ==
    [][\A v \in Versions :
          (RemoveBegins(Reaper) /\ v \in damaged' \ damaged) =>
              due[v] = Pending \/ Elapsed(due[v], clock)]_vars

\* What List reports, by the content behind each name: a directory moved aside
\* is called <name>.old-<nano>, which ValidateName accepts for a <name> of up
\* to 39 characters, and it has no expiry file of its own.
Listing ==
    {[version |-> disk[s], expires |-> expiryFile[s]] :
        s \in {s \in Sites : disk[s] # Absent}}
    \cup {[version |-> v, expires |-> Never] : v \in UNION {backups[s] : s \in Sites}}

\* Content whose deadline has passed is under no name that List, the index and
\* handlePublic take for a live site (docs/architecture.md: the old directory
\* is renamed to the hidden "sites/.my-site.old-<unix-nano>/").
ElapsedNotPublic ==
    \A entry \in Listing :
        LET d == due[entry.version] IN
        (d # Pending /\ Elapsed(d, clock)) => Elapsed(entry.expires, clock)

\* Every request is answered: no path keeps mutationMu.
RequestsFinish == \A w \in Workers : pc[w] # "idle" ~> pc[w] = "idle"

\* A site whose recorded deadline has passed leaves the disk, or is replaced,
\* even when a cleanup pass fails halfway.
ExpiredSitesReaped ==
    \A s \in Sites :
        disk[s] # Absent /\ Elapsed(expiryFile[s], clock)
            ~> disk[s] = Absent \/ ~Elapsed(expiryFile[s], clock)

-----------------------------------------------------------------------------
(***************************************************************************)
(* The store as the server sees it.  While a push has moved the old        *)
(* directory aside, that one is still the published one: the push may fail *)
(* and put it back.  A reader meanwhile finds what is in the name's place, *)
(* and a site is gone when its directory is.                               *)
(***************************************************************************)
Pushes == {"put", "stage", "unstage", "aside", "install", "expire", "undo",
           "rollback"}
Moved  == {"install", "expire", "undo", "rollback"}

Current(s) ==
    IF /\ mu # Nobody /\ site[mu] = s /\ pc[mu] \in Moved
       /\ disk[s] \in {Absent, ver[mu]}
    THEN kept[mu]
    ELSE disk[s]

Registered ==
    {[name |-> s, version |-> Current(s), expires |-> expiryFile[s]] :
        s \in {s \in Sites : Current(s) # Absent}}

Shown ==
    {[name |-> s, version |-> disk[s], expires |-> expiryFile[s]] :
        s \in {s \in Sites : disk[s] # Absent}}

Outstanding ==
    {[client |-> w, op |-> "put", name |-> site[w], ttl |-> ttl[w]] :
        w \in {w \in Workers : pc[w] \in Pushes}}
    \cup {[client |-> w, op |-> "delete", name |-> site[w], ttl |-> Never] :
        w \in {w \in Workers : pc[w] \in {"delete", "remove", "removing"}}}

Registry == INSTANCE SiteReads WITH
    Names <- Sites, Clients <- Workers, sites <- Registered, shown <- Shown,
    used <- {v \in Versions : due[v] # Pending}, asked <- Outstanding

\* Without a crash, and whichever single call to the filesystem fails, the
\* chain of renames, the expiry file beside the directory and the clean-up of
\* both change what is published once per request: a name never loses its site
\* to a failed push, never has a version with another one's deadline, and a
\* push whose last Stat fails has published once and not twice.  Readers see
\* that change, or find the name empty or the new directory before its time
\* while the request is under way (against server/backend.go: "atomic from a
\* reader's point of view"): never anything else.
ImplementsRegistry == Registry!ReadsSpec

=============================================================================
