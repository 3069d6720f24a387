# A TLA+ model of crate-html

crate-html hosts directories of static HTML. A client (`crate`) sends a tar
archive to a daemon (`crated`), which publishes it under a name, optionally with
a deadline, and serves it to anyone. The daemon keeps its sites in a directory
tree or in an S3 bucket, runs as one process or as a writing broker and reading
web servers, and admits API calls by a root token or by named tokens.

The modules here model what that takes to be right: replacing, deleting and
expiring sites on both backends while requests read them, what both backends
promise the server, who may change what and what a path answers, archives and
the cache of their contents, the named tokens, and how the processes come by
their configuration. TLC checks them on small
instances; TLAPS proves the main safety properties for every instance.

## Inventory

| Part | State | Operations | Interacts with | Hard because | Right when |
|---|---|---|---|---|---|
| Filesystem site store, `internal/storage` | `sites/<name>/`, `.expiries/<name>`, stages, backups | Replace, SetExpiry, Delete, DeleteExpired, Stat, Open, List | broker under `mutationMu`, readers without a lock | several renames and removals, each of which may fail or be the last thing the process does | published sites survive failed pushes, elapsed content is not served under a site's name, nothing is left behind but by a clean-up that failed |
| Site mutations, `internal/server` | `mutationMu`, the site-count gauge | handlePutSite, handleDeleteSite, DeleteExpired, handlePublic | either store | waits for a mutex between reading the clock and acting | no two mutations at a time, every request is answered |
| Expiry watcher, `cmd/crated/main.go` | none of its own | one pass at the start and at every tick | `Server.DeleteExpired` | acts on a clock reading that is old by the time it has the mutex | removes what has elapsed, eventually, and nothing else |
| S3 site store, `internal/s3store/s3store.go` | objects, metadata objects; per process a map with a TTL | the same as the filesystem store | the bucket, other processes through it | three requests per push, answers that get lost, maps that are stale, refreshes that finish late | pointers name existing content; readers get published content |
| S3 content cache, `cache.go` | entries in order of use, a byte budget | get, put, dropAll | S3 store | the edge of the budget, and loads that overlap pushes and deletes | never over budget, books that balance, oldest out first |
| Archives, `storage.go`, `memfs.go`, `tar.go` | none | write a directory as tar, extract to disk, expand in memory | both stores, the client | two implementations of one rule | the same archive is the same site on both, and the directory it was made from |
| Named tokens, `internal/token` | records in memory, `tokens.json` or the S3 document | LoadFrom, Create, Revoke, Verify | `Persistence` | a save that fails after memory has changed | memory and document agree; issued tokens last until revoked |
| S3 state document, `document.go` | last ETag seen, and whether one was | Load, Save | token store, bucket | conditional writes of several brokers, lost answers | a save replaces only what its caller had read |
| Configuration, `internal/config` | `config.yaml` | LoadOrInit, LoadReadOnly, Save | daemon and client | nothing locks the file; it is truncated before it is written | client and daemon agree on the token and the backend |
| Routing, authentication, rendering, `internal/server` | gauge | the mux, requireAuth, requireRoot, index pages | everything above | a gauge set outside the mutex; names that hide one another; several looks at the store per page | only admitted requests change anything, stored sites win, links lead somewhere, the gauge ends up right |
| Client, `cmd/crate`, `internal/cliclient` | none | push; one request for each other command | daemon | an archive written while it is sent | half a directory is never published |
| Builtins, telemetry, self-update, wire types | | | | no protocol of their own | |

The hazards these parts are exposed to are listed, each at its line and with the
properties that would catch it, in `PROJECT.json`.

## Modules

| Module | Stands for | Instances |
|---|---|---|
| `LocalStore` | filesystem store, mutation lock, watcher, public reads | `LocalStoreCrash`, `LocalStoreLive`, `LocalStoreBackups`, `LocalStoreInterrupted` |
| `S3Store`, `MCS3Store` | the same over a bucket, with web processes | `S3StorePass`, `S3StoreSuperseded`, `S3StoreLostCommit` |
| `SiteRegistry` | what a site store promises the server about mutations (the `Backend` interface); `S3Store` implements it | |
| `SiteReads` | `SiteRegistry` with what readers find meanwhile; `LocalStore` implements it | |
| `Broker`, `MCBroker` | routes, credentials, mutation lock, gauge and public pages, above what each backend stores and what it shows | `Broker` |
| `Archive` | writing and unpacking archives, as operators | |
| `ContentCache`, `MCContentCache` | the cache of expanded sites, and the pushes and loads that fill it | `ContentCache` |
| `TokenStore` | token store over the S3 document or a file | `TokenStoreReplicas`, `TokenStoreConflict` |
| `Startup`, `MCStartup` | configuration and start-up of daemons and clients | `StartupFirstRun` |
| `*Proofs` | the theorems about each | |
| `LocalStoreRefines`, `S3StoreRefines` | that the filesystem store implements `SiteReads` while no broker dies, with what else holds then, and that the S3 store implements `SiteRegistry` | |

Operators whose names begin with `Bug` are altered versions of the definition
that follows them; no specification uses them. Each shows that some property
would notice that bug.

### LocalStore

A site is a number (the expiry pass goes through names in order) and a *version*
stands for the bytes of one upload. `disk`, `stages`, `backups` and `expiryFile`
are the directory tree; `damaged` holds versions an `os.RemoveAll` has begun to
take apart, since it removes files one by one and the directory last. A mutator
is a PUT or DELETE goroutine or the watcher. Its program counter goes through the
storage call step by step, one action per change that somebody else can see:

    put    -> stage -> aside -> install -> expire -> drop -> stat -> ok / fail
              stage, aside fail:         -> unstage -> fail
              look, install fail:        -> rollback -> unstage -> fail
              expire fails:      -> undo -> rollback -> fail
    delete -> remove -> removing -> unlink -> ok
    reap   -> list -> next -> remove ... -> next -> ok

What may fail, by its name in `Faults`: the look at a name before a directory is
moved or removed (`look`); the renames aside and into place (`aside`, `install`);
`SetExpiry` as a whole (`expiry`); the rename back (`restore`); the removals of a
stage (`unstage`), of a backup (`drop`), and of a site or of a new directory whose
deadline could not be recorded (`remove`, halfway); the removal of an expiry file
(`unlink`); the last `Stat` (`stat`); the pass's `List` (`list`), or the `Stat` of one
directory in it, which `List` skips (`skip`).
`StageFails` is a `MkdirTemp` that fails or an archive that is refused, at no
charge. Results the code ignores are ignored: the stage, the backup or the expiry
file then stays. Not a step of their own are the calls inside `SetExpiry` and
inside one `os.RemoveAll`, and the reads of one `List`, which are one look.

`Crash` ends the broker anywhere and keeps the disk. Nothing in the code tidies the
tree at the next start, so neither does the model. Readers hold no lock, and their
request is four steps (Stat finds the directory, its expiry file is read and
compared, Open, the file is read), because `os.DirFS` resolves the path again for
each file. They may ask for a site's own name or for the name of a directory moved
aside, which is a valid one: `<name>.old-<nano>` has no expiry file, is listed, and
is served for as long as it is there. They survive `Crash`: a reader may be in a web
process that shares the directory, and one in the broker simply loses its
connection, which is the answer the model does not record.

Three history variables say what a version was promised and what became of it:
`due` is the deadline its push recorded, `promised` the version the last successful
answer named, `spoilt` holds the versions whose own clean-up call failed or whose
request died.

Left out: the gauge that a mutation updates before it unlocks (in `Broker`); PUT and
DELETE requests for a backup's name, which a client could take from the listing;
the temporary files of `SetExpiry` (`.expiry-*`) that outlive a death, which
nothing reads; the content of an archive, of which only "accepted" and "refused"
remain (in `Archive`).

### S3Store

The bucket is external and modelled from how the store uses it: a request is
atomic, fails without effect, or takes effect and loses its answer. `bucket` holds the
metadata objects, `objects` the content objects. Each process has `meta`,
`metaAt` and `metaValid` and a content cache. `snapshot()` is `Snapshot` when the
map is young enough, otherwise `Fetch` and later `InstallMap`: the requests in
between hold no lock, so a fetched map may be installed over newer local changes.
PUT, DELETE and the expiry pass run under `mutationMu`, hence one `Mutator` with
one program counter:

    upload -> prev -> commit -> apply -> collect -> count
                        `-> cleanup
    gone -> unmeta -> forget -> sweep -> count          (DELETE)
    reap -> next -> gone -> ... -> next -> count        (expiry pass)

Because the mutator stands for the holder of the lock, the clock reading the
watcher took before it waited is any earlier instant (`now' \in 0 .. clock`).
`Return` is what the caller does with Delete's result, which differs between a
request and the expiry pass.

Abstractions: the listing and the reads of the metadata objects in one refresh
are one moment; the content cache may evict anything in a `put` and may decline
the new entry (`ContentCache` has the order and the budget, and its `EvictsOldest`
says that it does nothing `CachePut` does not allow); `applyLocal` and the `content.put` after it are one step, both being
local to the broker.

### SiteRegistry, SiteReads and the two mappings

`SiteRegistry` is the contract about mutations: at most one published
version per name with its own deadline; a push or a delete takes effect at one
instant while it is under way, or not at all; otherwise a site only goes when the
deadline of what is published has passed. What the client is told is left open,
because both stores can report an error after the change (a failed last `Stat`, a
lost answer).

`SiteReads` adds what readers find, because for a directory the two differ.
`server/backend.go` asks that a replacement "must be atomic from a reader's point of
view", and `ReplaceFromTarWithExpiry` says that it "atomically replaces a site". What
the filesystem gives is less. From the rename aside to the rename into place nothing
has the name, so a reader is answered by a builtin, a group index or 404; from there
until the deadline is recorded the new content stands under the old deadline; and if
the deadline cannot be recorded, all of that has been seen of a push that was never
published. `SiteReads` (`Coherent`, `NotYet`) allows exactly this: only under a name
with a request under way, only under one name at a time, and only nothing or one
upload that is not published yet. The old directory's second name is not part of
it: `local_backups` is about that one.

For `LocalStore` the published version of a name is what lies on disk, except
that between the rename aside and the record of the new deadline it is still the
old one, in its backup (`Current`): a push that fails puts that one back, so no
other instant would make a failed push no change. So a push takes effect when its deadline is recorded, a delete when the
directory is gone. `Shown` is what has the name on disk. Without a crash every
behaviour then is one of `SiteReads`, whatever single call fails; with one it is not,
which is what `local_interrupted` shows.

For `S3Store` the published sites are the metadata objects and a push or a delete
takes effect with the request that writes or removes one, answered or not; that
holds through deaths of the broker too. That content exists for what the registry
calls published is a separate question (`ContentOutlivesPointer`, `s3_lost_commit`),
and so is what a process finds through its map (`ServedWasPublished`,
`s3_superseded`).

### Broker

The server in one of its three roles over one of the two backends. An API goroutine
goes

    PUT      upload -> lock -> mutate -> count -> set
    DELETE   lock -> mutate -> count -> set
    status   count -> set                       (no lock)
    tokens   tokens
    watcher  count -> set, then for ever lock -> mutate -> reap -> count -> set

where `count` is `List` and `set` is `SetSiteCount` with its length: other
goroutines may come between. A public request goes `stat -> open -> serve` for a
stored site and `stat -> fallback -> group` for the rest, and may begin with a page of
the index, of which the visitor follows one link. A name is a sequence of labels, so
that groups are prefixes.

`stored` is what is published and `shown` what this process is told of it. Over a
directory they differ while one is moved or taken apart: `Disturb` puts nothing, or
the new directory under the old deadline, under the name of a mutation under way, and
the old directory under its other name, which `List` then links and counts;
whatever the mutation then does, done or undone, makes the two agree again, or
leaves the backup there when its removal fails. Over a bucket `shown` is the
process's map: `Refresh` reads it anew, `Fetch` and
`InstallMap` do so slowly and over newer entries, `stale` are the names whose entry
names an object a later push or delete has removed, `dangling` those whose content
was collected after a lost commit. `Stat`, `Open`, `List` and `Names` answer from `shown`, each by a look of
its own. In role web there is no API; `Elsewhere` is the broker that changes the
store, or dies with a directory moved, and `UndoElsewhere` and `CollectElsewhere` the rest of
what it does. `Restart` is this process's broker that ends, with all its requests,
and comes back: over a directory to what lies there. How a replacement arrives at
its result, call by call, is in the store modules; here it is done, refused, undone,
done with the backup left, undone with the old directory gone, or done and
reported as failed.

Tokens have deadlines here. A token is good at the instant of its deadline, a site
is not: `Verify` and `expired` compare differently.

`standing` records what a credential was worth when its request arrived, worked
out independently of the handlers; `kept` the names that since the page (or the
request) neither changed nor were told as anything but what they are; `failed`
whether a store call of the request failed.

Left out: requests that are rejected, which change nothing; the text of answers
and pages, and a template that fails; logs and the other instruments; a site whose
directory went and whose expiry file stayed (`LocalStore` has it), since the server
sees no site there.

### Archive and ContentCache

`Archive` has `WriteDirAsTar`, `SafeTarPath`, `extractTar` and `unpackTar` with
`memFS` as operators over archives of `[kind, name, size]` entries. The bytes of an
entry are its index. File system calls (`MkdirAll`, `OpenFile`) are external, with
their refusals: a directory where a file stands, a file over a directory. The
reference definitions at its end (`Sound`, `Fits`, `Files`, `Dirs`) say what an
archive means without reading it in order.

`ContentCache` is one process's cache: list, map and byte count, changed by the
broker's own puts and by readers whose `Open` is look-up, load and put with other
requests in between. An upload is a version; its content is what `unpackTar` makes
of its archive. `PushWithExpiry` is `crate push <dir>`: the walk may fail after any
number of entries, and the archive is closed well-formed all the same, but the
error travels through the pipe and the request's body never ends, so the server
gives up on it. Metadata is always current here; stale maps are `S3Store`'s subject.

The two unpackers are not the same function, and `BackendsAgree` says where
they differ: of two entries for one path the disk keeps the last and memory the
first (a comment at `memfs.go:103` speaks of "a later entry replacing an earlier
one"); a path that is a file and a directory is refused by the disk and accepted
in memory, where the file hides the directory; and only memory splits names at
backslashes. On every other archive they agree in acceptance, content and size.

### TokenStore

Every method of `token.Store` keeps its mutex until `Save` has returned, so a
method is one action and the fate of its save a choice: taken, refused because
its condition does not hold, failed, or taken without an answer. The document's
ETag is a revision number; a content hash that comes back after two writes
(possible with equal documents) would let through a save over equal content,
which changes nothing. With one replica and no lost answers the module is also
the file-backed store. `disturbed` becomes true when two replicas have run at the
same time or an answer was lost, and stays so (an answer is lost too when the S3
client itself sends a PUT again that took effect, and the repetition is refused:
the caller is told of a conflict with its own write); `MemoryKept` and `TokensKept` hold until
then. A token is an id and a name, and a name may look like an id. Secrets and
deadlines are left out because no operation here changes them (`Broker` has the
deadlines).

### Startup

Each daemon or client goes through `load`, and, when it creates the file,
`create` and `write` (`os.WriteFile` truncates, then writes), to `boot` and `up`.
A file deleted between the two leaves its writer an `orphan`. Of the settings the
model keeps the token and the backend; the others take the same path. Every error
return on the way up leaves the file where a signal would, so all of them are
`Exit`. The file may exist at the start, with a token or, when an operator wrote
none, without (`blank`; nothing ever fills it). A write that stores part of the text
is left out. `past` records what
happened since the file was last absent with nobody running: starts that
overlapped a first run, a first run cut off inside Save, and a file deleted under
a running process. Properties that hold only without one of these say so.

## Runs

| Run | Checks | Shows |
|---|---|---|
| `local_crash` | `TypeOK`, `ServedNotExpired`, `NoLeftovers`, `ReaperSparesLive` | with two failing calls and a broker death anywhere, nobody who asks for a site by its own name is served content that had elapsed when it asked, a stage or backup stays only if its own clean-up failed or its request died, and the watcher removes nothing that is still live |
| `local_live` | `PublishedSiteIntact`, `RequestsFinish`, `ExpiredSitesReaped`, `ImplementsRegistry` | while the broker stays up, failed pushes and passes leave the published sites whole, every request changes what is published once or not at all and shows readers no more than `SiteReads` allows, every request ends, elapsed sites go |
| `tokens` | `TypeOK`, `ConditionMeansCurrent`, `NamesUnique`, `MemoryKept`, `TokensKept` | two brokers, one after the other or together, with failed, refused and unanswered saves: a conditional save replaces what its caller had read, names stay unique, and until brokers overlap or an answer is lost a restart accepts exactly what the daemon accepts |
| `s3_store` | `TypeOK`, `ContentOutlivesPointer`, `ServedWasPublished`, `ReaperSparesLive`, `ImplementsRegistry` | one request that goes wrong in any way and one broker death: pointers keep their content, readers get published content, the pass spares live sites, every request is one atomic change or none |
| `first_run` | `TypeOK`, `RootTokenAgrees`, `RolesShareBackend`, `OverrideStaysLocal`, `TokenPersists` | a daemon, a web role and two clients start and stop in any order around a first run |
| `broker` | `TypeOK`, `DiskSitesWin`, `IndexLinksResolve`, `Authority`, `GaugeConverges`, `AnswersSettle` | in every role over each backend, with failing calls and a restart: only admitted requests change sites and only the root token changes tokens; a live site answers for its name and links of the index lead somewhere, with the exceptions below; the gauge comes to agree with the store; every name is again and again answered as documented |
| `content` | `TypeOK`, `CacheAccounts`, `EvictsOldest`, `BackendsAgree`, `TreeWalkable`, `DirectoriesSurvive` | both backends make the same site of an archive, the tree in memory can be walked, a pushed directory is published whole or not at all, and the cache keeps its budget, its books and its order |

`ServedNotExpired` speaks of content that had elapsed when the request
*arrived*: one that elapses between the check and the read is served. It speaks of
requests for a site's own name: for a directory moved aside the code serves such
content (`local_backups`), during a replacement, and for good when its removal fails or the
broker dies. A version whose push died before it recorded a deadline has none to
violate; it stands under its predecessor's, which is why `ReaperSparesLive` excepts it.

`DiskSitesWin` and `IndexLinksResolve` except what the code does:

* a failing call: a failing `Stat`, of whatever kind, lets a builtin or a group
  index answer for a live site;
* a replacement of that very name under way, also one that is undone: for a moment
  its directory is not there (or its backup, which a page linked, is gone);
* over a bucket, a map that had not the name's present version since the request, or
  content that a disowned commit collected;
* the name `api`, which can be listed and not reached;
* for links: an elapsed site that is not collected yet and hides the builtin or
  group of its name.

What happens to other names makes no difference, and `AnswersSettle` says that none
of it lasts, except for content that was collected. The gauge may be wrong for a while:
a status request may set a count taken before a mutation over the one taken after it,
a mutation that failed after it took effect counts nothing, and `List` counts a
backup and leaves out a directory that is being removed. `GaugeConverges` says the
watcher's next successful pass repairs it.

Five more runs state what the documentation or a comment says of the code and
end in a counterexample.

| Run | Property | What happens |
|---|---|---|
| `local_backups` | `ElapsedNotPublic` | The directory moved aside is called `<name>.old-<nano>`. The docs give it a leading dot; without one it is a valid site name (for names of up to 39 characters), is listed and served, and has no deadline. So content past its deadline is public again while it is being replaced. |
| `local_interrupted` | `PublishedSiteIntact` | A broker that dies between the two renames leaves the name empty; nothing puts the backup back. |
| `tokens_conflict` | `TokensNotClobbered` | A refused save forgets the observed ETag and nothing reloads the document, so the next save carries no condition and overwrites the other broker's tokens. |
| `s3_superseded` | `LiveSiteFound` | A push removes the superseded object at once; a web process whose map still names it answers 404 for a site that was published throughout. |
| `s3_lost_commit` | `LiveContentExists` | The metadata write takes effect, its answer is lost, and the push removes the content it has just published. |

`PublishedSiteIntact` occurs on both sides, and `TokensNotClobbered` is `TokensKept`
without its condition. The passing runs establish them without deaths and while no
two replicas overlap; the others show that those limits are real. The property of
`local_interrupted` fails also when the broker dies one step later, between the
rename into place and the record of the deadline: the new content then stands
under the old one's deadline.

Two more disagreements came up and have no run of their own. Readers of a
directory see the gap described under `SiteReads`, against `backend.go`. Of two
archive entries for one path memory keeps the first, where the comment at
`memfs.go:103` speaks of "a later entry replacing an earlier one", as the disk does.

### Bounds

Properties are about one site at a time, one reader at a time and at most a
predecessor and a successor, so one site, one reader and two pushes contain every
case of a replacement. Two sites appear in `local_live`, where one pass has to
go on to a second site. The clock runs to 2 with lifetimes of 1 and forever: a
deadline can be set, reached at the very instant and passed, and a clock reading
can be one old. One worker suffices next to the watcher, since both contend for
the mutex and a second worker could only repeat what the first does between two
acquisitions. Two faults in `local_crash` let a rollback's own call fail, or the removal of a stage
after the failure that asked for it. `local_live` allows one fault of any kind and no
deaths: a second failure inside the repair of a first is ignored by the code, and
nothing is promised after it (a restore that fails leaves the site under its backup's
name).

`s3_store` has one reader in the broker, where local changes and late refreshes
meet; a web reader differs only in never seeing local changes and appears in
`s3_superseded`. Any placement and any number of readers is covered by the
theorems. `MetaTTL` is 1, so maps are both young and stale within the clock's
range.

Two replicas, three ids and two names let two brokers write, conflict, and write
again; four writes hold create, revoke, a conflict and the write after it. In `first_run` three tokens can be generated, so two overlapping
first runs and another after a deletion all occur.

`broker` takes each role over each backend with the bounds that matter there
(`MCBound`); the instance is six models side by side. Two API goroutines and a token
over a directory let a status request and a mutation, or a revocation and an
upload, overlap. One client over a directory with two pushes, a fault and a clock to
2 has a backup that stays, a repair that fails, a token past its deadline and a site
at it. The broker over a bucket has a fault and a restart: answers that are lost, a
map that is gone. A visitor looks at a process with both roles while its own client
pushes over the builtin's name and its own late map is installed, and at web
processes beside a broker that pushes twice, over a directory with a fault and a
death, and over a bucket a site two labels below a group. A visitor of the process
with both roles over a directory is left to the theorems.

`content` pushes every archive of up to three of thirteen entries, chosen so that
paths repeat, nest, clash, climb, are absolute or have a backslash, and every
directory over four paths; these are the only upload of their behaviour, since the
properties about archives look at one upload. Single files of one, two and four
bytes fill the rest: three pushes to two sites against a budget of three bytes make
a site too large to keep, one that evicts another and two that fit, and two readers
load the same version at once. The budget -1 and the limits 0 and 3 are the
edges the code has branches for. Sites and readers are symmetric.

Deadlock is checked everywhere; no instance stops.

### Fairness

`FairSpec` of `LocalStore` and `Spec` of `Broker` assume the same of the broker. A goroutine that can
run does (weak fairness of its steps), and the watcher's ticker keeps firing. A
waiter for `mutationMu` gets it if it is free infinitely often (strong fairness of
`LockMutation`): `sync.Mutex` goes into starvation mode after a waiter has waited
a millisecond and then hands over in order. Nothing is assumed of clients (who may leave a body unsent for ever), of
time or of failures, except that failures, restarts and pushes are finitely many.

`AnswersSettle` needs more, of what surrounds a web process: visitors go on to come, so
that a map older than `MetaTTL` is read again (weak fairness of `Refresh`: `snapshot()`
does it on the next request, and if that fails on the one after), and a broker runs
beside it that ends its mutations and its expiry passes (`UndoElsewhere`,
`CollectElsewhere`).

## Proofs

All theorems hold for any constants that satisfy the named assumptions in the
module they extend: any sets of sites, goroutines, processes, replicas and
tokens, any lifetimes, any bounds. The assumptions say that the special values
(`Never`, `None`, `Nobody`...) are none of the ordinary ones, that names are
numbers (in `Broker` finitely many sequences of labels, at least one of them) and
that lifetimes are positive numbers, which is what the expiry parser admits. TLC
evaluates them in every run.

| Module | Theorem | Establishes |
|---|---|---|
| `LocalStoreProofs` | `TypeCorrect`, `NeverServesExpired`, `RequestsCleanUp`, `ReaperIsPrecise` | `TypeOK`, `ServedNotExpired`, `NoLeftovers`, `ReaperSparesLive`, for any failures and deaths of the broker |
| `LocalStoreRefines` | `PushesAreUndone`, `StoreIsRegistry` | `PublishedSiteIntact`, `ImplementsRegistry` (that is, `SiteReads`) for a store that is `Recoverable` |
| `S3StoreProofs` | `TypeCorrect`, `PointersHold`, `ServesPublished`, `ReaperIsPrecise` | `TypeOK`, `ContentOutlivesPointer`, `ServedWasPublished`, `ReaperSparesLive` |
| `S3StoreRefines` | `StoreIsRegistry` | `ImplementsRegistry`, deaths and lost answers included |
| `BrokerProofs` | `TypeCorrect`, `ChangesAuthorised`, `DiskFirst`, `LinksLeadSomewhere` | `TypeOK`, `Authority`, `DiskSitesWin`, `IndexLinksResolve` |
| `TokenStoreProofs` | `TypeCorrect`, `ConditionIsSound`, `NamesAreUnique` | `TypeOK`, `ConditionMeansCurrent`, `NamesUnique`, for any number of replicas and any outcomes |
| | `AloneInSync`, `AloneKeepsTokens` | `MemoryKept`, `TokensKept`: for any number of replicas, until two have run at once or an answer was lost |
| `ContentCacheProofs` | `TypeCorrect`, `CacheIsAccounted`, `OldestGoFirst` | `TypeOK`, `CacheAccounts`, `EvictsOldest`, for any number of entries and readers |
| | `SitesAreWalkable`, `BackendsDoAgree`, `DirectoriesDoSurvive` | `TreeWalkable`, `BackendsAgree`, `DirectoriesSurvive`, for archives of any length and directories of any shape |
| `StartupProofs` | `TypeCorrect`, `TokenAgreement`, `OneBackend`, `OverrideIsLocal`, `TokenIsKept` | `TypeOK`, `RootTokenAgrees`, `RolesShareBackend`, `OverrideStaysLocal`, `TokenPersists` |

**LocalStore.** That a reader is not served elapsed content depends on
everything between its check and its read. The invariant says: only the mutex
holder is inside a storage call (`MutexInv`); versions are used once, by one
mutator (`Numbering`), and a version stands in one place at a time, under the
name its push asked for (`Places`). A directory whose version has a deadline has
that deadline in its expiry file, also while it is moved aside, so that a
rollback restores the pair (`FileInv`). From this, what a reader past its check
finds under the name, or would find after a rollback, had not elapsed when it
asked (`ReaderInv`): either it is what the reader checked or its deadline was set
later and lies ahead. `ReaperList` carries the same comparison from the listing to the
removal: no push can come between, because the reaper holds the mutex.
`LeftoverInv` gives every stage and backup that is not `spoilt` to the request that
holds the mutex; it needs no hypothesis about which calls fail.

**LocalStore without deaths.** `Recoverable` is the hypothesis of the theorems in
`LocalStoreRefines`: the broker does not die, and either at most one call fails, of
any kind, or any number of them, but none that the code meets while it repairs an
earlier failure (the rename back; the removal of a new directory whose deadline
could not be recorded). The hypothesis cannot be dropped: `local_interrupted` is what
a death does, and `replaceFromTar` ignores the errors of a repair. Every instance
with no deaths and one fault satisfies it, `local_live` among them. `PublishedSiteIntact` says nothing of a name that
is being replaced, so it is not inductive: `PromiseInv` says where the promised
version is meanwhile, namely in its backup, untouched, with the expiry file still
its own. Putting it back works because the name is free then (`AsideInv`). No
`RemoveAll` of a failed push, an old backup or another site reaches it because no version is
in two places (`Apart`) and none that may yet be published has been touched
(`DamageInv`).

The refinement of `SiteReads` follows from that invariant by cases: `SetExpiry` is
`Publish`, the end of a `RemoveAll` is `Withdraw` or `Expire`, every failure of a
request before that is `Abandon`; in all other steps `Current` is shown to be
unchanged, name by name. `Coherent` holds since only the name the mutex holder works
on can be between two states, and what stands there has no deadline yet.

**S3Store.** `Genuine` is the heart: every map anywhere, in the bucket, in a
process, or in the hands of a goroutine that has fetched it and not installed it,
names only versions that were published for that very site. Late installation
and stale maps then do no harm to `ServedWasPublished`; `Opened` carries it to the
reader. `PushInv` follows the push: its content is in the bucket until the
pointer names it, the version it is going to collect is not its own and not
pointed at after the commit, so removing it cannot break `ContentOutlivesPointer`. `ReapInv` says
that the pass's list was read from the bucket under the mutex and is therefore
still what the bucket says when the deletion comes, whatever `Delete` looks up in
the broker's map. The refinement needs two facts more: the deadline that a push is
about to publish was computed from its own lifetime at an instant that has been
(`DeadlineInv`), and a delete inside the expiry pass can be told from a client's
(`PassInv`). Then the flip of a pointer is `Publish` and its removal `Withdraw` or
`Expire`, answered or not, and a death of the broker is `Abandon`.

**Broker.** `Authority` rests on `LockInv`: who is about to change a site holds
`mutationMu` and arrived with a credential that was good at the time. `FluxInv` says
that the process's own directories are told otherwise than they are only while a mutation is under way.
`DiskSitesWin` and `IndexLinksResolve` speak of a request that looks at the store two or
three times. `KeptInv` says what a kept name is: told as it is, with its content
there, and so it will be when a slow refresh is installed. `ReaderInv` says for each
station of the request what its looks have found and that it still holds for names
that are kept: a step that changes an entry, moves its directory, installs an older
map over it or lets it elapse takes its name out of `kept`, and a name that is kept
is live, or hides others, exactly as it did before (`Stays`).

**TokenStore.** A replica's ETag is never ahead of the document (`EtagsOld`), so a
new write makes every other replica's condition false, and `ConditionMeansCurrent`
is inductive. As long as nothing was `disturbed`, `InSync` says that the one replica
that is up has a condition that holds, and
`History` ties issued and revoked tokens, none of whose ids is drawn twice, to
the document. `NamesUnique` needs none of that: whatever set a save leaves in the
document was some replica's memory, and `Create` looks through that memory for the
name and the id (`DistinctInv`).

**Startup.** What a process is about to save is a generated token with defaults
(`Drafts`), at most one does so unless starts overlapped (`Alone`), a file without
a token has somebody about to fill it (`Filled`), writers nobody hears of exist
only after a deletion (`Orphans`). For the backends: a first run is under way only
over a file that reads as the defaults (`DefaultsSaved`), so every loaded backend
is the file's through defaults and environment (`BackendLoaded`), even where tokens
have diverged.

**ContentCache.** `CacheInv` says that the list and the map hold the same entries,
each once, and the byte count is the sum of their charges (`Consistent`); that the
budget holds (`Frugal`); that the list *is* the order of last use (`older =
Order(cache)`), without which `EvictsOldest` is not preserved; and that the content of
every upload is what `unpackTar` makes of its archive (`History`). The eviction loop
leaves a front part of the list (`ShrinkCuts`: the shortest cut at which the budget
holds), and `dropAll` exactly the other sites' entries in whatever order the map is
ranged over (`DropAllLeaves`).

What the loops compute needs induction over data. The library's induction theorems
cannot be instantiated, but `WFMin`, which speaks of sets, can: with the
well-foundedness of the inclusion order on a finite set it yields a least natural
number, and from it induction about a *set* of numbers or of subsets
(`CountingInduction`, `SubsetInduction`). Every recursive function is first shown to
exist (the lemmas `...Exists`) and then unfolded one step at a time.

The unpackers are followed entry by entry. `Accounted`: a memFS holds no more than was
read. `Walkable`: every node has its ancestry, and is listed once for each way it is
used, which `addDir` preserves although it stops at the first directory it knows,
because that one's ancestry is known. `SafeIsInside`: looking at the first component of
the cleaned name refuses exactly the names that climb out on the way. `Together` runs
both unpackers at once: as long as the entries so far are sound and fit the limit, both
have built what they ask for, and afterwards both have failed; `SizesFit` is the step at
the limit. For directories, `WriteDirAsTar` enumerates what it keeps (`RanksTaken`: the
order of the walk is total), so its archive is sound and plain and asks for that
directory (`TarReads`), and only a complete one is ever live (`Whole`).

The assumptions about archives are what a reader of any archive may rely on: sizes are
not negative, and only the first component of a name can make it absolute.
Those about directories are the file system's: finitely many paths, none with `..` as a
component, each inside directories.

Only model-checked, and for good: `RequestsFinish`, `ExpiredSitesReaped`,
`GaugeConverges` and `AnswersSettle`, because
liveness under fairness is out of the prover's reach.

## Not modelled

* Answers, pages, templates, headers, logs, audit records and formatting: nothing
  reads them back. Names are taken as valid; the pattern they match is left out.
* Telemetry other than the site gauge: counters and traces that nothing reads back.
* Client commands other than push: one HTTP request each, without state. Self-update:
  a download and a replacement by a library.
* The contents of builtin sites: embedded files.
* How long a stale S3 map may be served in real time: a refresh's duration is not
  bounded by the code.
* Wire types, build information, examples, scripts.

## Plan

All parts that keep state are modelled, and every safety property that a passing run
checks has a theorem. What is left:

1. Lemmas of the proofs that several modules share, stated once.
2. What the store modules assume of the cache and of archives (an eviction that may take
   out anything, an archive that is accepted or refused), shown from `ContentCache`.
