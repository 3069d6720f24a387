-------------------------------- MODULE Archive --------------------------------
(***************************************************************************)
(* How an archive is written and how each backend unpacks it:              *)
(* storage.WriteDirAsTar, storage.SafeTarPath, storage.extractTar and      *)
(* s3store's unpackTar with the memFS it builds.                           *)
(*                                                                         *)
(* A path is the sequence of its components, <<>> the site's root.  An     *)
(* archive is a sequence of entries [kind, name, size]; the i-th entry's   *)
(* bytes are called i.  "link" is any kind of entry that is passed over,   *)
(* "broken" a place where the tar reader fails.                            *)
(***************************************************************************)
EXTENDS Naturals, Sequences, FiniteSets, Bags
LOCAL INSTANCE Functions

CONSTANTS
    Up,          \* the component ".."
    Slash,       \* stands before the components of an absolute path
    Backslashed  \* components with a backslash, and the components it parts

ASSUME NamesAssumption ==
    /\ Up # Slash /\ {Up, Slash} \cap DOMAIN Backslashed = {}
    /\ \A c \in DOMAIN Backslashed :
          Backslashed[c] \in Seq({Backslashed[c][k] : k \in DOMAIN Backslashed[c]})

Prefixes(p) == {SubSeq(p, 1, k) : k \in 1 .. Len(p)}
Dir(p) == SubSeq(p, 1, Len(p) - 1)

\* filepath.Clean, component by component.
Join(done, c) ==
    IF c # Up \/ done = <<>> \/ done[Len(done)] = Up THEN Append(done, c)
    ELSE IF done = <<Slash>> THEN done ELSE Dir(done)

Clean(name) ==
    LET part[k \in 0 .. Len(name)] ==
            IF k = 0 THEN <<>> ELSE Join(part[k - 1], name[k])
    IN part[Len(name)]

\* Mutant: only the name as it was written is looked at.
BugSafeUncleaned(name) == name = <<>> \/ Head(name) \notin {Up, Slash}

\* SafeTarPath has no objection.
SafeTarPath(name) == Clean(name) = <<>> \/ Head(Clean(name)) \notin {Up, Slash}

\* io.Copy through the limiter: at most one byte more than is left.
Copied(written, size, limit) ==
    IF limit = 0 \/ size <= limit - written THEN size ELSE limit - written + 1

TooLarge(written, limit) == limit > 0 /\ written > limit

\* Entry after entry, until one is refused.
Unpack(archive, empty, entry(_, _, _)) ==
    LET upto[k \in 0 .. Len(archive)] ==
            IF k = 0 THEN empty
            ELSE LET t == upto[k - 1] IN IF t.ok THEN entry(t, archive[k], k) ELSE t
    IN upto[Len(archive)]

Refuse(t) == [t EXCEPT !.ok = FALSE]

With(files, p, i) == [q \in DOMAIN files \cup {p} |-> IF q = p THEN i ELSE files[q]]

-----------------------------------------------------------------------------
(***************************************************************************)
(* extractTar: the tree is a directory of the file system.                 *)
(***************************************************************************)

MkdirAll(t, p) ==
    IF Prefixes(p) \cap DOMAIN t.files # {} THEN Refuse(t)
    ELSE [t EXCEPT !.dirs = @ \cup Prefixes(p)]

\* OpenFile with O_TRUNC: not over a directory, the root included.
OpenFile(t, p, i) ==
    IF p \in t.dirs \cup {<<>>} THEN Refuse(t)
    ELSE [t EXCEPT !.files = With(@, p, i)]

ExtractFile(t, p, e, i, limit) ==
    LET there   == MkdirAll(t, Dir(p))
        made    == IF there.ok THEN OpenFile(there, p, i) ELSE there
        written == t.written + Copied(t.written, e.size, limit) IN
    IF TooLarge(written, limit) THEN Refuse(t)
    ELSE [made EXCEPT !.written = written]

ExtractEntry(t, e, i, limit) ==
    CASE e.kind = "broken" \/ ~SafeTarPath(e.name) -> Refuse(t)
      [] e.kind = "dir" /\ SafeTarPath(e.name) -> MkdirAll(t, Clean(e.name))
      [] e.kind = "file" /\ SafeTarPath(e.name) ->
            ExtractFile(t, Clean(e.name), e, i, limit)
      [] OTHER -> t

EmptyDir == [ok |-> TRUE, files |-> <<>>, dirs |-> {}, written |-> 0]

extractTar(archive, limit) ==
    LET entry(t, e, i) == ExtractEntry(t, e, i, limit) IN
    Unpack(archive, EmptyDir, entry)

-----------------------------------------------------------------------------
(***************************************************************************)
(* unpackTar: `listed` counts how often each path appears in the children  *)
(* of the directory above it.                                              *)
(***************************************************************************)

\* filepathToSlash, and path.Clean of the outcome.
filepathToSlash(p) ==
    LET part[k \in 0 .. Len(p)] ==
            IF k = 0 THEN <<>>
            ELSE part[k - 1] \o IF p[k] \in DOMAIN Backslashed
                                THEN Backslashed[p[k]] ELSE <<p[k]>>
    IN Clean(part[Len(p)])

\* Mutant: a child in its list makes a directory look registered.
BugKidsRegister(m, dir) ==
    IF dir \in m.isDir \cup {<<>>} THEN m
    ELSE [m EXCEPT !.isDir = @ \cup ({dir, Dir(dir)} \ {<<>>}),
                   !.listed = @ (+) SetToBag({dir})]

\* The walk up from dir stops at the first directory that is known already.
addDir(m, dir) ==
    LET new == {p \in Prefixes(dir) :
                   \A q \in Prefixes(dir) : Len(q) >= Len(p) => q \notin m.isDir} IN
    [m EXCEPT !.isDir = @ \cup new, !.listed = @ (+) SetToBag(new)]

\* The first of several entries for a path stays.
addFile(m, p, i) ==
    IF p \in DOMAIN m.files THEN m
    ELSE [addDir(m, Dir(p)) EXCEPT !.files = With(@, p, i),
                                   !.listed = @ (+) SetToBag({p})]

UnpackFile(m, p, e, i, limit) ==
    LET written == m.written + Copied(m.written, e.size, limit) IN
    IF TooLarge(written, limit) THEN Refuse(m)
    ELSE [addFile(m, p, i) EXCEPT !.written = written]

UnpackEntry(m, e, i, limit) ==
    LET p == filepathToSlash(Clean(e.name)) IN
    CASE e.kind = "broken" \/ ~SafeTarPath(e.name) -> Refuse(m)
      [] e.kind = "dir" /\ SafeTarPath(e.name) /\ p # <<>> -> addDir(m, p)
      [] e.kind = "file" /\ SafeTarPath(e.name) /\ p # <<>> ->
            UnpackFile(m, p, e, i, limit)
      [] OTHER -> m

EmptyMemFS == [ok |-> TRUE, files |-> <<>>, isDir |-> {}, listed |-> EmptyBag, written |-> 0]

unpackTar(archive, limit) ==
    LET entry(m, e, i) == UnpackEntry(m, e, i, limit) IN
    Unpack(archive, EmptyMemFS, entry)

\* What Open gives for a path: a file before a directory.
MemOpen(m, p) ==
    CASE p \in DOMAIN m.files -> "file"
      [] p \notin DOMAIN m.files /\ p \in m.isDir \cup {<<>>} -> "dir"
      [] OTHER -> "none"

\* The children of a directory, and what their entries say they are.
entriesFor(m, dir) ==
    [p \in {p \in BagToSet(m.listed) : Dir(p) = dir} |->
        IF p \in DOMAIN m.files THEN "file" ELSE "dir"]

-----------------------------------------------------------------------------
(***************************************************************************)
(* WriteDirAsTar: a tree maps each path below the directory to its kind    *)
(* and size.  filepath.WalkDir goes in lexical order and passes a link     *)
(* over without following it.                                              *)
(***************************************************************************)

Before(p, q) ==
    \/ p \in Prefixes(Dir(q))
    \/ \E k \in 1 .. Len(p) : /\ k <= Len(q) /\ p[k] < q[k]
                              /\ SubSeq(p, 1, k - 1) = SubSeq(q, 1, k - 1)

WriteDirAsTar(tree) ==
    LET kept == {p \in DOMAIN tree : tree[p].kind # "link"}
        rank(p) == Cardinality({q \in kept : Before(q, p)})
        nth(k) == CHOOSE p \in kept : rank(p) = k - 1 IN
    [k \in 1 .. Cardinality(kept) |->
        [kind |-> tree[nth(k)].kind, name |-> nth(k), size |-> tree[nth(k)].size]]

-----------------------------------------------------------------------------
(***************************************************************************)
(* What an archive says, stated without an order of reading.               *)
(***************************************************************************)

\* Read from left to right, the name never climbs above where it started.
Inside(name) ==
    /\ \A k \in 1 .. Len(name) : name[k] # Slash
    /\ \A k \in 1 .. Len(name) :
          LET ups == Cardinality({j \in 1 .. k : name[j] = Up}) IN ups <= k - ups

Sound(archive) ==
    \A i \in DOMAIN archive : archive[i].kind # "broken" /\ Inside(archive[i].name)

Entries(archive, kind) == {i \in DOMAIN archive : archive[i].kind = kind}
PathOf(archive, i) == Clean(archive[i].name)

SizeOf(archive, some) == SumFunctionOnSet([i \in DOMAIN archive |-> archive[i].size], some)

Fits(archive, limit) == limit = 0 \/ SizeOf(archive, Entries(archive, "file")) <= limit

\* No path is given twice, or used both as a file and as a directory, and no
\* name has a backslash in it.
Plain(archive) ==
    /\ \A i \in Entries(archive, "file") :
          /\ PathOf(archive, i) # <<>>
          /\ \A j \in Entries(archive, "file") \cup Entries(archive, "dir") :
                i # j => PathOf(archive, i) \notin Prefixes(PathOf(archive, j))
    /\ \A i \in DOMAIN archive, c \in DOMAIN Backslashed :
          \A k \in DOMAIN archive[i].name : archive[i].name[k] # c

Files(archive) == {PathOf(archive, i) : i \in Entries(archive, "file")}

Dirs(archive) ==
    (UNION {Prefixes(PathOf(archive, i)) : i \in Entries(archive, "dir")})
    \cup (UNION {Prefixes(Dir(p)) : p \in Files(archive)})

=============================================================================
