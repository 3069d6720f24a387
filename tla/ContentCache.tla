----------------------------- MODULE ContentCache -----------------------------
(***************************************************************************)
(* One process's cache of expanded sites (internal/s3store/cache.go) under *)
(* the pushes, deletes and public reads that use it, with the archives     *)
(* they are about (Archive).                                               *)
(*                                                                         *)
(* Every method of the cache is atomic under its own mutex; Open, which    *)
(* looks in the cache, loads the object and puts what it unpacked, is not. *)
(* S3Store takes apart what happens in the bucket: here a push is its      *)
(* commit and then its put, a delete is one step, and the metadata is      *)
(* never out of date.                                                      *)
(***************************************************************************)
EXTENDS Archive, Integers
LOCAL INSTANCE Functions

CONSTANTS
    Names,       \* sites
    Readers,     \* goroutines of public requests
    Archives,    \* archives that may be pushed
    Typical,     \* those of them that stand for the contents of any site
    Trees,       \* directories that may be pushed
    NoTree,      \* the archive was not made from a directory
    Budgets,     \* settings of the cache's budget in bytes
    Limits,      \* settings of the largest extracted size, 0 for none
    MaxPushes    \* bound: uploads in a behaviour

ASSUME TypicalAssumption == Typical \subseteq Archives
ASSUME ArchivesAssumption ==
    \A a \in Archives :
        /\ a \in Seq({a[i] : i \in DOMAIN a})
        /\ \A i \in DOMAIN a :
              LET name == a[i].name IN
              /\ name \in Seq({name[k] : k \in DOMAIN name}) /\ a[i].size \in Nat
              /\ \A k \in 2 .. Len(name) : name[k] # Slash
ASSUME TreesAssumption ==
    \A tree \in Trees :
        /\ IsFiniteSet(DOMAIN tree) /\ DOMAIN tree \subseteq Seq(Nat) \ {<<>>}
        /\ \A p \in DOMAIN tree :
              /\ tree[p].kind \in {"dir", "file", "link"} /\ tree[p].size \in Nat
              /\ \A k \in DOMAIN p : p[k] \notin {Up, Slash}
              /\ \A q \in Prefixes(Dir(p)) : q \in DOMAIN tree /\ tree[q].kind = "dir"
ASSUME SettingsAssumption == Budgets \subseteq Int /\ Limits \subseteq Nat
ASSUME BoundsAssumption == MaxPushes \in Nat

NoSite == 0

VARIABLES
    maxBytes, limit,   \* the configuration
    archive, owner,    \* each upload's archive and site; its index is its version
    origin,      \* history: the directory each upload was made from
    content,     \* each upload as unpackTar expands it
    live,        \* the version each site's metadata names, or NoSite
    objects,     \* versions in the bucket
    cache,       \* [ll |-> most recently used first, items, curBytes]
    putting,     \* the version the holder of mutationMu is about to put
    at, want,    \* where each reader stands, and the version it looked up
    older        \* history: <<x, y>> when x was last used before y, both cached

vars == <<maxBytes, limit, archive, owner, origin, content, live, objects,
          cache, putting, at, want, older>>

\* stats.sizeBytes: every byte the unpacking read.
Charge(v) == content[v].written

\* The bytes a memFS holds.
Held(v) == LET files == content[v].files IN
           SizeOf(archive[v], {files[p] : p \in DOMAIN files})

Total(weight(_), some) == SumFunctionOnSet([v \in DOMAIN archive |-> weight(v)], some)

Init ==
    /\ maxBytes \in Budgets /\ limit \in Limits
    /\ archive = <<>> /\ owner = <<>> /\ origin = <<>> /\ content = <<>>
    /\ live = [n \in Names |-> NoSite]
    /\ objects = {}
    /\ cache = [ll |-> <<>>, items |-> {}, curBytes |-> 0]
    /\ putting = NoSite
    /\ at = [r \in Readers |-> "idle"]
    /\ want = [r \in Readers |-> NoSite]
    /\ older = {}

-----------------------------------------------------------------------------
(***************************************************************************)
(* The methods of the cache.                                               *)
(***************************************************************************)

Without(s, i) == SubSeq(s, 1, i - 1) \o SubSeq(s, i + 1, Len(s))

\* The list element the map points to is the newest one for its key.
Position(c, v) == CHOOSE i \in DOMAIN c.ll :
                      c.ll[i] = v /\ \A j \in 1 .. i - 1 : c.ll[j] # v

MoveToFront(c, v) == [c EXCEPT !.ll = <<v>> \o Without(@, Position(c, v))]

Hit(c, v) == maxBytes > 0 /\ v \in c.items

\* Mutant: a hit leaves the list as it is.
BugGetKeepsPlace(c, v) == c

get(c, v) == IF Hit(c, v) THEN MoveToFront(c, v) ELSE c

\* Mutant: the bytes of an evicted entry are given back twice.
BugGivesBackTwice(c, i) ==
    [ll |-> Without(c.ll, i), items |-> c.items \ {c.ll[i]},
     curBytes |-> c.curBytes - 2 * Charge(c.ll[i])]

evict(c, i) ==
    [ll |-> Without(c.ll, i), items |-> c.items \ {c.ll[i]},
     curBytes |-> c.curBytes - Charge(c.ll[i])]

\* for c.curBytes > c.maxBytes { ... evict(Back) }
Shrink(c) ==
    LET after[k \in 0 .. Len(c.ll)] ==
            IF k = 0 THEN c ELSE evict(after[k - 1], Len(c.ll) - k + 1)
        enough(k) == after[k].curBytes <= maxBytes \/ k = Len(c.ll) IN
    after[CHOOSE k \in 0 .. Len(c.ll) : enough(k) /\ \A j \in 0 .. k - 1 : ~enough(j)]

Insert(c, v) ==
    Shrink([ll |-> <<v>> \o c.ll, items |-> c.items \cup {v},
            curBytes |-> c.curBytes + Charge(v)])

\* Mutant: an entry that a concurrent request put first is put again.
BugPutTwice(c, v) == IF maxBytes <= 0 \/ Charge(v) > maxBytes THEN c ELSE Insert(c, v)

put(c, v) ==
    IF maxBytes <= 0 \/ Charge(v) > maxBytes THEN c
    ELSE IF v \in c.items THEN MoveToFront(c, v)
    ELSE Insert(c, v)

\* Every version of the site, in no particular order.
dropAll(c, n) ==
    LET mine == {v \in c.items : owner[v] = n}
        from[some \in SUBSET mine] ==
            IF some = {} THEN c
            ELSE LET v == CHOOSE v \in some : TRUE
                     rest == from[some \ {v}] IN
                 evict(rest, Position(rest, v))
    IN from[mine]

\* history: v is the entry used last.
Used(c, v) ==
    older' = {e \in older : e[1] # v /\ {e[1], e[2]} \subseteq c.items}
             \cup {<<x, v>> : x \in {x \in c.items \ {v} : v \in c.items}}

-----------------------------------------------------------------------------
\* Mutant: the pipe is closed in the same way whether the walk failed or not.
BugPipeCloses(tree, k) ==
    [archive |-> SubSeq(WriteDirAsTar(tree), 1, k), origin |-> tree, complete |-> TRUE]

\* `crate push <dir>`: the walk writes into a pipe and may fail after k entries.
\* The archive is closed all the same and ends well-formed; the error goes to
\* the reader of the pipe, so the request's body has no end.
PushWithExpiry(tree, k) ==
    LET tar == WriteDirAsTar(tree) IN
    [archive |-> SubSeq(tar, 1, k), origin |-> tree, complete |-> k = Len(tar)]

\* An archive from a file or from standard input.
PushReaderWithExpiry(a) == [archive |-> a, origin |-> NoTree, complete |-> TRUE]

Offered ==
    {PushReaderWithExpiry(a) : a \in Archives}
    \cup UNION {{PushWithExpiry(tree, k) : k \in 0 .. Len(WriteDirAsTar(tree))} : tree \in Trees}

TypicalPushes == {PushReaderWithExpiry(a) : a \in Typical}

\* Bound: an archive that is not typical is the only one of its behaviour.
Uploads ==
    CASE archive = <<>> -> Offered
      [] archive # <<>> /\ archive[1] \in Typical -> TypicalPushes
      [] OTHER -> {}

\* handlePutSite, which gives up on a body that has no end, and
\* ReplaceFromTarWithExpiry up to applyLocal: the archive is unpacked before
\* anything is written, and refused or committed; the version before it goes.
Replace(n) ==
    LET v == Len(archive) + 1 IN
    /\ putting = NoSite
    /\ Len(archive) < MaxPushes
    /\ \E u \in Uploads :
          /\ archive' = Append(archive, u.archive)
          /\ owner' = Append(owner, n)
          /\ origin' = Append(origin, u.origin)
          /\ content' = Append(content, unpackTar(u.archive, limit))
          /\ \/ /\ u.complete /\ content'[v].ok
                /\ live' = [live EXCEPT ![n] = v]
                /\ objects' = (objects \ {live[n]}) \cup {v}
                /\ putting' = v
             \/ /\ ~(u.complete /\ content'[v].ok)
                /\ UNCHANGED <<live, objects, putting>>
    /\ UNCHANGED <<maxBytes, limit, cache, at, want, older>>

\* ... and content.put.
PutOwn ==
    /\ putting # NoSite
    /\ cache' = put(cache, putting)
    /\ Used(cache', putting)
    /\ putting' = NoSite
    /\ UNCHANGED <<maxBytes, limit, archive, owner, origin, content, live, objects, at, want>>

\* Delete: the metadata, dropAll, and the objects.
Delete(n) ==
    /\ putting = NoSite
    /\ live[n] # NoSite
    /\ live' = [live EXCEPT ![n] = NoSite]
    /\ cache' = dropAll(cache, n)
    /\ older' = {e \in older : {e[1], e[2]} \subseteq cache'.items}
    /\ objects' = {v \in objects : owner[v] # n}
    /\ UNCHANGED <<maxBytes, limit, archive, owner, origin, content, putting, at, want>>

\* Open: lookup and content.get.
Open(r, n) ==
    LET v == live[n] IN
    /\ at[r] = "idle"
    /\ \/ v = NoSite /\ UNCHANGED <<cache, older, at, want>>
       \/ /\ Hit(cache, v)
          /\ cache' = get(cache, v)
          /\ Used(cache', v)
          /\ UNCHANGED <<at, want>>
       \/ /\ v # NoSite /\ ~Hit(cache, v)
          /\ cache' = get(cache, v)
          /\ at' = [at EXCEPT ![r] = "load"]
          /\ want' = [want EXCEPT ![r] = v]
          /\ UNCHANGED older
    /\ UNCHANGED <<maxBytes, limit, archive, owner, origin, content, live, objects, putting>>

\* GetObject and unpackTar; the object may be gone by now.
Load(r) ==
    /\ at[r] = "load"
    /\ \/ /\ want[r] \in objects
          /\ at' = [at EXCEPT ![r] = "put"]
          /\ UNCHANGED want
       \/ /\ want[r] \notin objects
          /\ at' = [at EXCEPT ![r] = "idle"]
          /\ want' = [want EXCEPT ![r] = NoSite]
    /\ UNCHANGED <<maxBytes, limit, archive, owner, origin, content, live, objects, cache,
                   putting, older>>

\* ... and content.put, whatever happened to the site meanwhile.
PutLoaded(r) ==
    /\ at[r] = "put"
    /\ cache' = put(cache, want[r])
    /\ Used(cache', want[r])
    /\ at' = [at EXCEPT ![r] = "idle"]
    /\ want' = [want EXCEPT ![r] = NoSite]
    /\ UNCHANGED <<maxBytes, limit, archive, owner, origin, content, live, objects, putting>>

Next == \/ \E n \in Names : Replace(n) \/ Delete(n)
        \/ PutOwn
        \/ \E r \in Readers : (\E n \in Names : Open(r, n)) \/ Load(r) \/ PutLoaded(r)

Spec == Init /\ [][Next]_vars

-----------------------------------------------------------------------------
\* Every variable keeps its type; curBytes never becomes negative.
TypeOK ==
    /\ maxBytes \in Budgets /\ limit \in Limits
    /\ Len(archive) <= MaxPushes /\ Len(owner) = Len(archive) /\ Len(content) = Len(archive)
    /\ \A v \in DOMAIN archive : owner[v] \in Names
    /\ live \in [Names -> DOMAIN archive \cup {NoSite}]
    /\ objects \subseteq DOMAIN archive
    /\ \A i \in DOMAIN cache.ll : cache.ll[i] \in DOMAIN archive
    /\ cache.items \subseteq DOMAIN archive /\ cache.curBytes \in Nat
    /\ putting \in DOMAIN archive \cup {NoSite}
    /\ at \in [Readers -> {"idle", "load", "put"}]
    /\ want \in [Readers -> DOMAIN archive \cup {NoSite}]
    /\ older \subseteq (DOMAIN archive) \X (DOMAIN archive)

\* Whatever order requests load, put and delete in, the list and the map hold
\* the same entries once each, curBytes is what they were charged, the budget
\* holds (cache.go: "bounded by a total byte budget"), and no site takes more
\* memory than it is charged for.
CacheAccounts ==
    /\ cache.items = {cache.ll[i] : i \in DOMAIN cache.ll}
    /\ Cardinality(cache.items) = Len(cache.ll)
    /\ cache.curBytes = Total(Charge, cache.items)
    /\ cache.items # {} => cache.curBytes <= maxBytes
    /\ Total(Held, cache.items) <= cache.curBytes

\* A put takes out only entries used longer ago than every entry it leaves,
\* and no more of them than the budget asks for; it keeps what it put (cache.go:
\* "evicted least-recently-used first", "one oversized site cannot evict
\* everything else").  So it does what S3Store's CachePut allows.
EvictsOldest ==
    [][LET out == cache.items \ cache'.items IN
       (live' = live /\ out # {}) =>
           /\ \A x \in out, y \in cache.items \cap cache'.items : <<x, y>> \in older
           /\ \A x \in out : (\A z \in out \ {x} : <<z, x>> \in older)
                              => cache'.curBytes + Charge(x) > maxBytes
           /\ \E v \in cache'.items \ cache.items : TRUE]_vars

Latest == {Len(archive)} \ {0}

\* Both backends accept the same archives, cutting off at the same byte, and
\* build the same site with the same statistics, unless a path is repeated,
\* used both as a file and as a directory, or has a backslash (memfs.go: "the
\* same entry-name safety rule and size cap as the local backend").
BackendsAgree ==
    \A v \in Latest :
        LET a == archive[v]
            local == extractTar(a, limit)
            mem == content[v] IN
        /\ ~Sound(a) => ~local.ok /\ ~mem.ok
        /\ Plain(a) => local.ok = (Sound(a) /\ Fits(a, limit)) /\ mem.ok = local.ok
        /\ (Plain(a) /\ mem.ok) =>
              /\ mem.files = local.files
              /\ mem.isDir = local.dirs
              /\ DOMAIN mem.files = Files(a) /\ mem.isDir = Dirs(a)
              /\ mem.written = SizeOf(a, {local.files[p] : p \in DOMAIN local.files})

\* Every directory on the way to a file or directory of an unpacked site is
\* known, and each is listed by the one above it exactly once, except a path
\* that is both file and directory (memfs.go: "anything registered has its
\* whole ancestry registered too").
TreeWalkable ==
    \A v \in Latest :
        LET mem == content[v]
            nodes == DOMAIN mem.files \cup mem.isDir IN
        mem.ok =>
            /\ \A p \in nodes : Prefixes(Dir(p)) \subseteq mem.isDir
            /\ \A dir \in mem.isDir \cup {<<>>} :
                  entriesFor(mem, dir) = [p \in {p \in nodes : Dir(p) = dir} |-> MemOpen(mem, p)]
            /\ \A p \in nodes \ (DOMAIN mem.files \cap mem.isDir) :
                  BagIn(p, mem.listed) /\ mem.listed[p] = 1

\* A site pushed from a directory is that directory, whole: the same files and
\* directories, empty ones included and links left out, from either backend.
\* What a walk that failed had written by then is never published.
DirectoriesSurvive ==
    \A v \in {live[n] : n \in Names} \ {NoSite} :
        LET mem == content[v]
            kept(k) == {p \in DOMAIN origin[v] : origin[v][p].kind = k}
            backslash == \E p \in DOMAIN origin[v] :
                            \E k \in DOMAIN p : p[k] \in DOMAIN Backslashed IN
        (origin[v] # NoTree /\ ~backslash) =>
            /\ DOMAIN mem.files = kept("file")
            /\ mem.isDir = kept("dir")
            /\ \A p \in kept("file") : LET i == mem.files[p] IN
                    PathOf(archive[v], i) = p /\ archive[v][i].size = origin[v][p].size
            /\ extractTar(archive[v], limit).ok

=============================================================================
