----------------------------- MODULE BrokerProofs -----------------------------
(***************************************************************************)
(* Proofs about Broker for every set of names, builtins, tokens, roles,    *)
(* goroutines and failing calls, and every bound.                          *)
(*                                                                         *)
(* Authority rests on LockInv: who is about to change a site holds         *)
(* mutationMu and arrived with a good credential, however long ago; and,   *)
(* for what a restart finds on disk, on FluxInv: a directory is out of its *)
(* place only in such hands.  The two invariants about public requests     *)
(* rest on KeptInv, a name that is kept is told as it is, and on ReaderInv,*)
(* which says for each station of a request what the store told when the   *)
(* request got there, as long as the names it depends on are kept: a name  *)
(* that is kept is live or not exactly as it was (Stays).                  *)
(***************************************************************************)
EXTENDS Broker, FiniteSetTheorems, SequenceTheorems, TLAPS

Stations == {"idle", "upload", "lock", "mutate", "reap", "count", "set", "tokens"}
Jobs == {"none", "boot", "status", "put", "delete", "expire", "mint", "revoke"}
PublicStations ==
    Answers \cup {"idle", "index", "page", "stat", "open", "serve", "fallback", "group"}

SitesType ==
    /\ stored \in [Names -> Entries] /\ shown \in [Names -> Entries]
    /\ stale \subseteq Names /\ dangling \subseteq Names
    /\ fetched \in [Names -> Entries] \cup {Absent} /\ passed \subseteq Names

StoreType ==
    /\ role \in Roles /\ backend \in Backends /\ clock \in Nat
    /\ SitesType
    /\ tokens \in [Tokens -> Entries]
    /\ gauge \in 0 .. Cardinality(Names)
    /\ pushes \in Nat /\ faults \in Nat /\ restarts \in Nat
    /\ minted \subseteq Tokens

ApiType ==
    /\ mu \in Procs \cup {Nobody}
    /\ pc \in [Procs -> Stations]
    /\ job \in [Procs -> Jobs]
    /\ name \in [Procs -> Names]
    /\ ttl \in [Procs -> TTLs \cup {Never}]
    /\ count \in [Procs -> 0 .. Cardinality(Names)]
    /\ now \in Nat
    /\ standing \in [Procs -> {"none", "token", "root"}]

ReadType ==
    /\ at \in [Readers -> PublicStations]
    /\ path \in [Readers -> Names]
    /\ followed \in [Readers -> BOOLEAN]
    /\ failed \in [Readers -> BOOLEAN]
    /\ kept \in [Readers -> SUBSET Names]

\* A name stands for a place in the path, and there is one to start from.
LEMMA AnyNameType == AnyName \in Names
  BY NamesAssumption DEF AnyName

\* The type invariant, part by part.
LEMMA TypeParts == TypeOK <=> StoreType /\ ApiType /\ ReadType
  BY DEF TypeOK, StoreType, SitesType, ApiType, ReadType, Stations, Jobs,
     PublicStations

\* What a role may do is bounded by names of the model.
LEMMA BoundType ==
    ASSUME role \in Roles, backend \in Backends
    PROVE  /\ Limit.names \subseteq Names
           /\ Limit.workers \subseteq Workers
           /\ Limit.tokens \subseteq Tokens
  BY BoundAssumption DEF Limit

\* A List is never longer than the set of names.
LEMMA CountType ==
    /\ Cardinality(Names) \in Nat
    /\ \A S \in SUBSET Names : Cardinality(S) \in 0 .. Cardinality(Names)
    /\ Sites \subseteq Names
<1>1. Cardinality(Names) \in Nat
  BY NamesAssumption, FS_CardinalityType
<1>2. ASSUME NEW S \in SUBSET Names PROVE Cardinality(S) \in 0 .. Cardinality(Names)
  BY <1>1, NamesAssumption, FS_CardinalityType, FS_Subset
<1>3. Sites \subseteq Names
  BY DEF Sites
<1> QED
  BY <1>1, <1>2, <1>3

\* A deadline is an entry of the store.
LEMMA DeadlineType ==
    ASSUME clock \in Nat, NEW l \in TTLs \cup {Never}
    PROVE  Deadline(clock, l) \in Entries
  BY TTLsAssumption DEF Deadline, Entries

\* The end of a request leaves the API goroutines well typed.
LEMMA FinishType ==
    ASSUME ApiType, NEW p \in Procs, Finish(p)
    PROVE  ApiType'
<1>1. count' \in [Procs -> 0 .. Cardinality(Names)]
  BY CountType DEF ApiType, Finish
<1> QED
  BY <1>1, AnyNameType DEF ApiType, Finish, Stations, Jobs

\* So does the arrival of one.
LEMMA EnterType ==
    ASSUME StoreType, ApiType, NEW w \in Workers, NEW station \in Stations,
           NEW what \in Jobs, NEW bearer, Enter(w, station, what, bearer),
           name' \in [Procs -> Names], ttl' \in [Procs -> TTLs \cup {Never}]
    PROVE  ApiType'
<1>1. Standing(bearer) \in {"none", "token", "root"}
  BY DEF Standing
<1>2. w \in Procs
  BY DEF Procs
<1> QED
  BY <1>1, <1>2 DEF ApiType, Enter

\* Every change of what is published is a Change to entries of some names, of
\* which the map learns some.
Changes ==
    \E ns \in SUBSET Names : \E new \in [ns -> Entries], known, gone \in SUBSET ns :
        Change(new, known, gone)

\* A change of the store keeps entries and names.
LEMMA ChangeType ==
    ASSUME SitesType, ReadType, Changes
    PROVE  SitesType' /\ kept' \in [Readers -> SUBSET Names]
<1>1. PICK ns \in SUBSET Names : \E new \in [ns -> Entries], known, gone \in SUBSET ns :
          Change(new, known, gone)
  BY DEF Changes
<1>2. PICK new \in [ns -> Entries], known \in SUBSET ns, gone \in SUBSET ns :
          Change(new, known, gone)
  BY <1>1
<1>3. stored' \in [Names -> Entries] /\ shown' \in [Names -> Entries]
  BY <1>2 DEF Change, SitesType
<1>4. /\ stale' \subseteq Names /\ dangling' \subseteq Names /\ passed' \subseteq Names
      /\ fetched' = fetched
  BY <1>2 DEF Change, SitesType
<1>5. kept' \in [Readers -> SUBSET Names]
  BY <1>2 DEF Change, ReadType
<1> QED
  BY <1>3, <1>4, <1>5 DEF SitesType

\* The forms a change takes.
LEMMA ChangeForms ==
    ASSUME NEW n \in Names, NEW d \in Entries, NEW known \in SUBSET {n},
           NEW gone \in SUBSET {n}
    PROVE  /\ Change(Entry(n, d), known, gone) => Changes
           /\ Change(WithBackup(n, d), {}, {}) => Changes
           /\ Change(Nothing, {}, {}) => Changes
<1>1. Entry(n, d) \in [{n} -> Entries] /\ {n} \in SUBSET Names
  BY DEF Entry
<1>2. /\ WithBackup(n, d) \in [{n, Backup(n)} \cap Names -> Entries]
      /\ {n, Backup(n)} \cap Names \in SUBSET Names
  BY DEF WithBackup, Entries
<1>3. Nothing \in [{} -> Entries] /\ {} \in SUBSET Names
  BY DEF Nothing
<1> QED
  BY <1>1, <1>2, <1>3 DEF Changes

LEMMA GoneForm ==
    ASSUME NEW ns \in SUBSET Names, NEW known \in SUBSET ns,
           Change(Gone(ns), known, {})
    PROVE  Changes
<1>1. Gone(ns) \in [ns -> Entries]
  BY DEF Gone, Entries
<1> QED
  BY <1>1 DEF Changes

\* A public request that moves stays well typed.
LEMMA StepType ==
    ASSUME ReadType, NEW r \in Readers, NEW from, NEW to \in PublicStations,
           NEW bad \in BOOLEAN, Step(r, from, to, bad),
           UNCHANGED <<path, followed, kept>>
    PROVE  ReadType'
<1>1. failed' = [failed EXCEPT ![r] = @ \/ bad] /\ failed \in [Readers -> BOOLEAN]
  BY DEF Step, ReadType
<1>2. failed' \in [Readers -> BOOLEAN]
  BY <1>1, Zenon
<1> QED
  BY <1>2 DEF ReadType, Step

\* Every link of the index is a name.
LEMMA LinksType == Links \subseteq Names
  BY NamesAssumption DEF Links, LiveSites, Prefix

\* What the API goroutines leave alone in the public requests, and the other
\* way round.
ApiActs ==
    \/ \E w \in Workers : Request(w) \/ ReadBody(w) \/ Serve(w)
    \/ \E p \in Procs : LockMutation(p)
    \/ Watch

\* Public requests change nothing but themselves and the count of faults.
LEMMA ReadersApart ==
    ASSUME NEW r \in Readers, Read(r)
    PROVE  UNCHANGED <<role, backend, clock, storeVars, tokens, gauge, mu, apiVars,
                       pushes, restarts, minted>>
  BY DEF Read, GetIndex, RenderIndex, GetPath, Arrive, Follow, Stat, Open, ServeSite,
     Fallback, RenderGroupIndex, Leave, Quiet, bounds

\* The API goroutines leave the public requests where they are.
LEMMA ApiApart ==
    ASSUME ApiActs
    PROVE  UNCHANGED <<role, backend, clock, at, path, followed, failed, restarts>>
  BY DEF ApiActs, Request, GetStatus, PutSite, DeleteSite, ManageTokens, Enter,
     ReadBody, Serve, Handle, Replace, Delete, ChangeTokens, CountSites,
     SetSiteCount, LockMutation, Watch, WatchExpiries, ListExpired,
     DeleteExpired, readVars, bounds

\* A mutation ends in a change of the store.
Mutates(p) == \/ p \in Workers /\ (Replace(p) \/ Delete(p))
              \/ p = Watcher /\ DeleteExpired

LEMMA MutationChanges ==
    ASSUME TypeOK, NEW p \in Procs, Mutates(p)
    PROVE  Changes
<1>1. CASE Replace(p)
  <2>1. /\ name[p] \in Names /\ Deadline(clock, ttl[p]) \in Entries
        /\ Absent \in Entries /\ stored[name[p]] \in Entries
    BY DeadlineType DEF TypeOK, Entries
  <2> QED
    BY <1>1, <2>1, ChangeForms DEF Replace
<1>2. CASE Delete(p)
  <2>1. name[p] \in Names /\ Absent \in Entries
    BY DEF TypeOK, Entries
  <2> QED
    BY <1>2, <2>1, ChangeForms DEF Delete
<1>3. CASE DeleteExpired
  <2>1. Due \in SUBSET Names /\ (\A n \in Due : Due \ {n} \in SUBSET Names)
    BY DEF Due
  <2>2. ASSUME NEW ns \in SUBSET Names, NEW known \in SUBSET ns,
               Change(Gone(ns), known, {})
        PROVE  Changes
    BY <2>2, GoneForm
  <2>3. CASE Change(Gone(Due), Due, {})
    BY <2>1, <2>2, <2>3
  <2>4. CASE \E n \in Due : Change(Gone(Due \ {n}), Due \ {n}, {})
    <3>1. PICK n \in Due : Change(Gone(Due \ {n}), Due \ {n}, {})
      BY <2>4
    <3> QED
      BY <2>1, <2>2, <3>1
  <2>5. CASE \E some \in SUBSET Due :
                \E known \in {some} \cup {some \ {n} : n \in some} :
                    Change(Gone(some), known, {})
    <3>1. PICK some \in SUBSET Due :
              \E known \in {some} \cup {some \ {n} : n \in some} :
                  Change(Gone(some), known, {})
      BY <2>5
    <3>2. PICK known \in {some} \cup {some \ {n} : n \in some} :
              Change(Gone(some), known, {})
      BY <3>1
    <3>3. some \in SUBSET Names /\ known \in SUBSET some
      BY <2>1
    <3> QED
      BY <2>2, <3>2, <3>3
  <2> QED
    BY <1>3, <2>3, <2>4, <2>5 DEF DeleteExpired
<1> QED
  BY <1>1, <1>2, <1>3 DEF Mutates

\* A mutation keeps the store's type and the types of what readers depend on.
LEMMA MutationType ==
    ASSUME TypeOK, NEW p \in Procs, Mutates(p)
    PROVE  TypeOK'
<1>0. StoreType /\ ApiType /\ ReadType
  BY TypeParts
<1>1. /\ UNCHANGED <<role, backend, clock, tokens, gauge, at, path, followed, failed,
                     pushes, restarts, minted>>
      /\ faults' \in Nat
  BY <1>0 DEF Mutates, Replace, Delete, DeleteExpired, Fault, StoreType
<1>2. SitesType' /\ kept' \in [Readers -> SUBSET Names]
  BY <1>0, MutationChanges, ChangeType DEF StoreType
<1>3. ApiType'
  <2>1. CASE Finish(p)
    BY <1>0, <2>1, FinishType
  <2>2. CASE ToCount(p)
    BY <1>0, <2>2 DEF ToCount, ApiType, Stations
  <2> QED
    BY <2>1, <2>2 DEF Mutates, Replace, Delete, DeleteExpired
<1>4. StoreType' /\ ReadType'
  BY <1>0, <1>1, <1>2 DEF StoreType, ReadType
<1>5. (TypeOK <=> StoreType /\ ApiType /\ ReadType)'
  BY DEF TypeOK, StoreType, SitesType, ApiType, ReadType, Stations, Jobs,
     PublicStations
<1> QED
  BY <1>3, <1>4, <1>5

\* The other steps of the API goroutines.
LEMMA ApiTypeNext ==
    ASSUME TypeOK, ApiActs
    PROVE  TypeOK'
<1> USE DEF bounds, readVars, storeVars, SitesType
<1>0. StoreType /\ ApiType /\ ReadType /\ Workers \subseteq Procs /\ Watcher \in Procs
  BY TypeParts DEF Procs
<1>1. ASSUME NEW w \in Workers, Request(w)
      PROVE  StoreType' /\ ApiType' /\ ReadType'
  <2>1. UNCHANGED <<role, backend, clock, storeVars, tokens, gauge, faults, restarts,
                       minted>>
            /\ UNCHANGED readVars /\ pushes' \in Nat
    BY <1>0, <1>1 DEF Request, GetStatus, PutSite, DeleteSite, ManageTokens,
       Enter, StoreType
  <2>2. name' \in [Procs -> Names] /\ ttl' \in [Procs -> TTLs \cup {Never}]
    BY <1>0, <1>1, BoundType DEF Request, GetStatus, PutSite, DeleteSite,
       ManageTokens, StoreType, ApiType
  <2>3. PICK station, what, bearer :
           /\ station \in Stations /\ what \in Jobs
           /\ Enter(w, station, what, bearer)
    BY <1>1 DEF Request, GetStatus, PutSite, DeleteSite, ManageTokens, Stations,
       Jobs
  <2>4. ApiType'
    BY <1>0, <2>2, <2>3, EnterType
  <2> QED
    BY <1>0, <2>1, <2>4 DEF StoreType, ReadType
<1>2. ASSUME NEW w \in Workers, ReadBody(w)
      PROVE  StoreType' /\ ApiType' /\ ReadType'
  <2>1. ApiType'
    <3>1. CASE Finish(w)
      BY <1>0, <3>1, FinishType
    <3>2. CASE ~Finish(w)
      BY <1>0, <1>2, <3>2 DEF ReadBody, ApiType, Stations
    <3> QED
      BY <3>1, <3>2
  <2> QED
    BY <1>0, <1>2, <2>1 DEF ReadBody, StoreType, ReadType
<1>3. ASSUME NEW p \in Procs, LockMutation(p)
      PROVE  StoreType' /\ ApiType' /\ ReadType'
  BY <1>0, <1>3 DEF LockMutation, StoreType, ApiType, ReadType, Stations
<1>4. ASSUME WatchExpiries
      PROVE  StoreType' /\ ApiType' /\ ReadType'
  BY <1>0, <1>4 DEF WatchExpiries, StoreType, ApiType, ReadType, Stations, Jobs
<1>5. ASSUME NEW p \in Procs, CountSites(p)
      PROVE  StoreType' /\ ApiType' /\ ReadType'
  <2>1. ApiType'
    <3>1. CASE Finish(p)
      BY <1>0, <3>1, FinishType
    <3>2. CASE ~Finish(p)
      <4>1. \A S \in SUBSET Names : Cardinality(S) \in 0 .. Cardinality(Names)
        BY CountType
      <4>2. Sites \in SUBSET Names /\ \A n \in Sites : Sites \ {n} \in SUBSET Names
        BY CountType
      <4>3. PICK c \in 0 .. Cardinality(Names) : count' = [count EXCEPT ![p] = c]
        <5>1. CASE count' = [count EXCEPT ![p] = Cardinality(Sites)]
          BY <4>1, <4>2, <5>1
        <5>2. CASE \E n \in Sites : count' = [count EXCEPT ![p] = Cardinality(Sites \ {n})]
          BY <4>1, <4>2, <5>2
        <5> QED
          BY <1>5, <3>2, <5>1, <5>2 DEF CountSites
      <4>4. count' \in [Procs -> 0 .. Cardinality(Names)]
        BY <1>0, <4>3 DEF ApiType
      <4> QED
        BY <1>0, <1>5, <3>2, <4>4 DEF CountSites, ApiType, Stations
    <3> QED
      BY <3>1, <3>2
  <2> QED
    BY <1>0, <1>5, <2>1 DEF CountSites, Fault, StoreType, ReadType
<1>6. ASSUME NEW p \in Procs, SetSiteCount(p)
      PROVE  StoreType' /\ ApiType' /\ ReadType'
  <2>1. gauge' \in 0 .. Cardinality(Names)
    BY <1>0, <1>6 DEF SetSiteCount, ApiType
  <2>2. ApiType'
    BY <1>0, <1>6, FinishType DEF SetSiteCount
  <2> QED
    BY <1>0, <1>6, <2>1, <2>2 DEF SetSiteCount, StoreType, ReadType
<1>7. ASSUME NEW w \in Workers, ChangeTokens(w)
      PROVE  StoreType' /\ ApiType' /\ ReadType'
  <2>1. \A l \in TTLs : Deadline(clock, l) \in Entries
    BY <1>0, DeadlineType DEF StoreType
  <2>2. ApiType'
    BY <1>0, <1>7, FinishType DEF ChangeTokens
  <2>3. tokens' \in [Tokens -> Entries] /\ minted' \subseteq Tokens
    BY <1>0, <1>7, <2>1, BoundType DEF ChangeTokens, StoreType, Entries
  <2> QED
    BY <1>0, <1>7, <2>2, <2>3 DEF ChangeTokens, StoreType, ReadType
<1>9. ASSUME ListExpired
      PROVE  StoreType' /\ ApiType' /\ ReadType'
  <2>1. ApiType'
    <3>1. CASE Finish(Watcher)
      BY <1>0, <3>1, FinishType
    <3>2. CASE ~Finish(Watcher)
      BY <1>0, <1>9, <3>2 DEF ListExpired, ApiType, Stations
    <3> QED
      BY <3>1, <3>2
  <2> QED
    BY <1>0, <1>9, <2>1 DEF ListExpired, Fault, StoreType, ReadType
<1>8. (TypeOK <=> StoreType /\ ApiType /\ ReadType)'
  BY DEF TypeOK, StoreType, SitesType, ApiType, ReadType, Stations, Jobs,
     PublicStations
<1> QED
  BY <1>0, <1>1, <1>2, <1>3, <1>4, <1>5, <1>6, <1>7, <1>8, <1>9, MutationType
     DEF ApiActs, Serve, Handle, Watch, Mutates

\* A public request goes from station to station.
LEMMA ReadTypeNext ==
    ASSUME TypeOK, NEW r \in Readers, Read(r)
    PROVE  TypeOK'
<1>0. StoreType /\ ApiType /\ ReadType
  BY TypeParts
<1>1. ReadType'
  <2>1. CASE GetIndex(r) \/ GetPath(r)
    <3>1. PICK station \in {"index", "stat"}, n \in Names, ns \in SUBSET Names :
              Arrive(r, station, n, ns)
      BY <2>1, AnyNameType DEF GetIndex, GetPath, Concerned
    <3>2. followed' \in [Readers -> BOOLEAN]
      BY <1>0, <3>1, Zenon DEF Arrive, ReadType
    <3> QED
      BY <1>0, <3>1, <3>2 DEF Arrive, ReadType, PublicStations
  <2>5. CASE RenderIndex(r)
    <3>1. followed' \in [Readers -> BOOLEAN]
      BY <1>0, <2>5, Zenon DEF RenderIndex, ReadType
    <3> QED
      BY <1>0, <2>5, <3>1, LinksType DEF RenderIndex, ReadType, PublicStations
  <2>2. CASE Follow(r)
    BY <1>0, <2>2 DEF Follow, ReadType, PublicStations
  <2>3. CASE Stat(r) \/ Open(r) \/ ServeSite(r) \/ Fallback(r) \/ RenderGroupIndex(r)
    <3>1. /\ UNCHANGED <<path, followed, kept>>
          /\ \E from, to \in PublicStations, bad \in BOOLEAN : Step(r, from, to, bad)
      BY <2>3 DEF Stat, Open, ServeSite, Fallback, RenderGroupIndex, Quiet, PublicStations,
         Answers
    <3> QED
      BY <1>0, <3>1, StepType
  <2>4. CASE Leave(r)
    <3>1. followed' \in [Readers -> BOOLEAN] /\ failed' \in [Readers -> BOOLEAN]
      BY <1>0, <2>4, Zenon DEF Leave, ReadType
    <3> QED
      BY <1>0, <2>4, <3>1, AnyNameType DEF Leave, ReadType, PublicStations
  <2> QED
    BY <2>1, <2>2, <2>3, <2>4, <2>5 DEF Read
<1>2. faults' \in Nat
  <2>1. faults' = faults \/ \E f \in FaultPoints : Fault(f)
    <3>1. CASE GetIndex(r) \/ RenderIndex(r) \/ GetPath(r) \/ Follow(r) \/ Leave(r)
      BY <3>1 DEF GetIndex, RenderIndex, GetPath, Arrive, Follow, Leave, bounds
    <3>2. CASE Stat(r) \/ Open(r) \/ ServeSite(r) \/ RenderGroupIndex(r)
      BY <3>2 DEF Stat, Open, ServeSite, RenderGroupIndex, FaultPoints
    <3>3. CASE Fallback(r)
      BY <3>3 DEF Fallback, FaultPoints
    <3> QED
      BY <3>1, <3>2, <3>3 DEF Read
  <2> QED
    BY <1>0, <2>1 DEF Fault, StoreType
<1>3. StoreType' /\ ApiType'
  BY <1>0, <1>2, ReadersApart DEF StoreType, SitesType, ApiType, apiVars, storeVars
<1>4. (TypeOK <=> StoreType /\ ApiType /\ ReadType)'
  BY DEF TypeOK, StoreType, SitesType, ApiType, ReadType, Stations, Jobs,
     PublicStations
<1> QED
  BY <1>1, <1>3, <1>4

\* The broker of another process changes the store as this one's would.
AwayActs == Elsewhere \/ UndoElsewhere \/ CollectElsewhere

LEMMA AwayChanges ==
    ASSUME TypeOK, AwayActs
    PROVE  /\ Changes
           /\ UNCHANGED <<role, backend, clock, tokens, gauge, mu, apiVars, at, path,
                          followed, failed, minted>>
           /\ pushes' \in Nat /\ faults' \in Nat /\ restarts' \in Nat
           /\ ~HasApi
<1>1. Absent \in Entries /\ \A l \in TTLs : Deadline(clock, l) \in Entries
  BY DeadlineType DEF TypeOK, Entries
<1>2. Limit.names \subseteq Names
  BY BoundType DEF TypeOK
<1>3. CASE Elsewhere
  <2>1. Changes
    <3>1. CASE \E n \in Limit.names, l \in TTLs :
                 LET d == Deadline(clock, l) IN
                 \/ Change(Entry(n, d), {}, {})
                 \/ Change(WithBackup(n, d), {}, {})
                 \/ Change(Entry(n, d), {}, {n})
      BY <1>1, <1>2, <3>1, ChangeForms
    <3>2. CASE \E n \in Published : Change(Entry(n, Absent), {}, {})
      BY <1>1, <3>2, ChangeForms DEF Published
    <3>3. CASE Change([n \in {n \in Names : shown[n] # stored[n]} |-> shown[n]], {}, {})
      <4> DEFINE ns == {n \in Names : shown[n] # stored[n]}
                 new == [n \in ns |-> shown[n]]
      <4>1. ns \in SUBSET Names /\ new \in [ns -> Entries] /\ {} \in SUBSET ns
        BY DEF TypeOK
      <4> QED
        BY <3>3, <4>1 DEF Changes
    <3> QED
      BY <1>3, <3>1, <3>2, <3>3 DEF Elsewhere
  <2>2. pushes' \in Nat /\ faults' \in Nat /\ restarts' \in Nat
    <3>1. /\ pushes' \in {pushes, pushes + 1} /\ faults' \in {faults, faults + 1}
          /\ restarts' \in {restarts, restarts + 1}
      BY <1>3 DEF Elsewhere, Fault
    <3> QED
      BY <3>1 DEF TypeOK
  <2> QED
    BY <1>3, <2>1, <2>2 DEF Elsewhere
<1>4. CASE UndoElsewhere
  <2>1. Changes
    BY <1>1, <1>4, AnyNameType, ChangeForms DEF UndoElsewhere
  <2> QED
    BY <1>4, <2>1 DEF UndoElsewhere, bounds, TypeOK
<1>5. CASE CollectElsewhere
  <2>1. Changes
    BY <1>5, GoneForm DEF CollectElsewhere
  <2> QED
    BY <1>5, <2>1 DEF CollectElsewhere, bounds, TypeOK
<1> QED
  BY <1>3, <1>4, <1>5 DEF AwayActs

\* What the store tells changes by itself, or by a refresh.
MapActs == Disturb \/ Refresh \/ Fetch \/ InstallMap

\* Readers are told e under n and a copy under the names in `moved`.
Told(n, e, moved) ==
    /\ shown' = [m \in Names |-> IF m = n THEN e ELSE
                                 IF m \in moved THEN Never ELSE stored[m]]
    /\ kept' = [r \in Readers |-> kept[r] \ ({n} \cup moved)]

LEMMA DisturbForm ==
    ASSUME TypeOK, Disturb
    PROVE  \E n \in Names, e \in Entries : \E moved : Told(n, e, moved)
<1>0. SitesType
  BY TypeParts DEF StoreType
<1>1. /\ Replaced \cap Published \subseteq Names
      /\ Removed \cap Published \subseteq Names
      /\ Replaced \ Published \subseteq Names
  BY <1>0, BoundType DEF Published, Replaced, Procs, TypeOK
<1>2. /\ Absent \in Entries /\ Never \in Entries
      /\ \A n \in Names : stored[n] \in Entries
  BY <1>0 DEF SitesType, Entries
<1>3. CASE \E n \in Replaced \cap Published, e \in {"gone", "new"} :
             Told(n, IF e = "gone" THEN Absent ELSE stored[n], {Backup(n)})
  <2>1. PICK n \in Replaced \cap Published, e \in {"gone", "new"} :
            Told(n, IF e = "gone" THEN Absent ELSE stored[n], {Backup(n)})
    BY <1>3
  <2>2. n \in Names /\ (IF e = "gone" THEN Absent ELSE stored[n]) \in Entries
    BY <1>1, <1>2
  <2> QED
    BY <2>1, <2>2
<1>4. CASE \E n \in Replaced \ Published : Told(n, Never, {})
  <2>1. PICK n \in Replaced \ Published : Told(n, Never, {})
    BY <1>4
  <2>2. n \in Names
    BY <1>1
  <2> QED
    BY <1>2, <2>1, <2>2
<1>5. CASE \E n \in Removed \cap Published : Told(n, Absent, {})
  <2>1. PICK n \in Removed \cap Published : Told(n, Absent, {})
    BY <1>5
  <2>2. n \in Names
    BY <1>1
  <2> QED
    BY <1>2, <2>1, <2>2
<1> QED
  BY <1>3, <1>4, <1>5 DEF Disturb, Told

LEMMA MapType ==
    ASSUME TypeOK, MapActs
    PROVE  /\ SitesType' /\ kept' \in [Readers -> SUBSET Names]
           /\ UNCHANGED <<role, backend, clock, stored, dangling, tokens, gauge, mu,
                          apiVars, at, path, followed, failed, bounds>>
<1>0. SitesType /\ ReadType
  BY TypeParts DEF StoreType
<1>1. CASE Disturb
  <2>1. \E n \in Names, e \in Entries : \E moved : Told(n, e, moved)
    BY <1>1, DisturbForm
  <2>2. shown' \in [Names -> Entries] /\ kept' \in [Readers -> SUBSET Names]
    BY <1>0, <2>1 DEF Told, SitesType, ReadType, Entries
  <2> QED
    BY <1>0, <1>1, <2>2 DEF Disturb, SitesType
<1>2. CASE Refresh
  BY <1>0, <1>2 DEF Refresh, SitesType, ReadType, readVars
<1>3. CASE Fetch
  BY <1>0, <1>3 DEF Fetch, SitesType, ReadType, readVars
<1>4. CASE InstallMap
  BY <1>0, <1>4 DEF InstallMap, SitesType, ReadType
<1> QED
  BY <1>1, <1>2, <1>3, <1>4 DEF MapActs

\* Time, the store's own ways, the broker of another process, and a restart.
LEMMA WorldTypeNext ==
    ASSUME TypeOK, Tick \/ Store \/ Restart
    PROVE  TypeOK'
<1>0. StoreType /\ ApiType /\ ReadType /\ SitesType
  BY TypeParts DEF StoreType
<1>1. CASE Tick
  BY <1>0, <1>1 DEF Tick, apiVars, storeVars, bounds, TypeOK
<1>2. CASE AwayActs
  <2>1. SitesType' /\ kept' \in [Readers -> SUBSET Names]
    BY <1>0, <1>2, AwayChanges, ChangeType
  <2> QED
    BY <1>2, <2>1, AwayChanges DEF apiVars, TypeOK, SitesType
<1>4. CASE MapActs
  BY <1>4, MapType DEF apiVars, bounds, TypeOK, SitesType
<1>3. CASE Restart
  <2>1. followed' \in [Readers -> BOOLEAN] /\ failed' \in [Readers -> BOOLEAN]
    BY <1>3, Zenon DEF Restart
  <2>2. /\ gauge' \in 0 .. Cardinality(Names)
        /\ count' \in [Procs -> 0 .. Cardinality(Names)]
    BY <1>3, CountType DEF Restart
  <2>3. StoreType'
    BY <1>0, <1>3, <2>2 DEF Restart, StoreType, SitesType
  <2>4. ApiType'
    BY <1>3, <2>2, AnyNameType DEF Restart, ApiType, Stations, Jobs
  <2>5. ReadType'
    BY <1>3, <2>1, AnyNameType DEF Restart, ReadType, PublicStations
  <2>6. (TypeOK <=> StoreType /\ ApiType /\ ReadType)'
    BY DEF TypeOK, StoreType, SitesType, ApiType, ReadType, Stations, Jobs,
       PublicStations
  <2> QED
    BY <2>3, <2>4, <2>5, <2>6
<1> QED
  BY <1>1, <1>2, <1>3, <1>4 DEF Store, AwayActs, MapActs

\* Every step keeps the types.
LEMMA TypeNext == TypeOK /\ [Next]_vars => TypeOK'
<1>1. ASSUME TypeOK, UNCHANGED vars PROVE TypeOK'
  BY <1>1 DEF vars, apiVars, readVars, storeVars, bounds, TypeOK
<1> QED
  BY <1>1, ApiTypeNext, ReadTypeNext, WorldTypeNext DEF Next, ApiActs

\* The process starts well typed, in every role.
LEMMA TypeInit == Init => TypeOK
<1> SUFFICES ASSUME Init PROVE TypeOK
  OBVIOUS
<1>1. followed \in [Readers -> BOOLEAN] /\ failed \in [Readers -> BOOLEAN]
  BY Zenon DEF Init
<1>2. /\ gauge \in 0 .. Cardinality(Names)
      /\ count \in [Procs -> 0 .. Cardinality(Names)]
  BY CountType DEF Init
<1>3. StoreType
  BY <1>2 DEF Init, StoreType, SitesType, Entries
<1>4. ApiType
  BY <1>2, AnyNameType DEF Init, ApiType, Stations, Jobs
<1>5. ReadType
  BY <1>1, AnyNameType DEF Init, ReadType, PublicStations
<1> QED
  BY <1>3, <1>4, <1>5, TypeParts

\* Every variable keeps its type, and the gauge never exceeds the number of
\* names there are.
THEOREM TypeCorrect == Spec => []TypeOK
  BY TypeInit, TypeNext, PTL DEF Spec

-----------------------------------------------------------------------------
(***************************************************************************)
(* Who may change what.                                                    *)
(***************************************************************************)
LockInv ==
    /\ \A p \in Procs : pc[p] \in {"mutate", "reap"} => mu = p
    /\ \A w \in Workers : pc[w] \in {"upload", "lock", "mutate"} => standing[w] # "none"
    /\ \A w \in Workers : pc[w] = "tokens" => standing[w] = "root"

\* This process's mutation is at work on the directories.
Busy == (\E w \in Workers : pc[w] = "mutate") \/ pc[Watcher] = "reap"

\* Nothing is out of its place otherwise.
FluxInv == HasApi /\ backend = "local" /\ shown # stored => Busy

\* A request that requireAuth or requireRoot lets in has the standing for it.
LEMMA Admitted ==
    ASSUME TypeOK, NEW bearer
    PROVE  /\ requireAuth(bearer) => Standing(bearer) # "none"
           /\ requireRoot(bearer) => Standing(bearer) = "root"
<1>1. CASE bearer = Root
  BY <1>1, ProcsAssumption DEF requireAuth, requireRoot, Standing
<1>2. CASE bearer # Root /\ bearer \in Tokens /\ Verify(bearer)
  <2>1. tokens[bearer] # Absent /\ ~(tokens[bearer] \in Nat /\ clock > tokens[bearer])
    BY <1>2 DEF Verify, TypeOK
  <2> QED
    BY <1>2, <2>1 DEF requireRoot, Standing
<1> QED
  BY <1>1, <1>2 DEF requireAuth, requireRoot

\* The lock's holder and what admitted it stay what they are.
LEMMA LockNext == TypeOK /\ LockInv /\ [Next]_vars => LockInv'
<1> SUFFICES ASSUME TypeOK, LockInv, [Next]_vars PROVE LockInv'
  OBVIOUS
<1> USE DEF LockInv
<1>0. /\ pc \in [Procs -> Stations] /\ standing \in [Procs -> {"none", "token", "root"}]
      /\ Workers \subseteq Procs /\ Watcher \in Procs /\ Watcher \notin Workers
      /\ Nobody \notin Procs
  BY ProcsAssumption, TypeParts DEF ApiType, Procs
<1>1. ASSUME NEW p \in Procs, Finish(p) PROVE LockInv'
  BY <1>0, <1>1 DEF Finish
<1>2. ASSUME NEW w \in Workers, Request(w) PROVE LockInv'
  <2>1. PICK station, what, bearer :
          /\ Enter(w, station, what, bearer)
          /\ \/ station = "count"
             \/ station \in {"upload", "lock"} /\ requireAuth(bearer)
             \/ station = "tokens" /\ requireRoot(bearer)
    BY <1>2 DEF Request, GetStatus, PutSite, DeleteSite, ManageTokens
  <2> QED
    BY <1>0, <2>1, Admitted DEF Enter
<1>3. ASSUME NEW w \in Workers, ReadBody(w) PROVE LockInv'
  <2>1. CASE ~Finish(w)
    BY <1>0, <1>3, <2>1 DEF ReadBody
  <2> QED
    BY <1>0, <1>1, <2>1
<1>4. ASSUME NEW p \in Procs, LockMutation(p) PROVE LockInv'
  BY <1>0, <1>4 DEF LockMutation
<1>5. ASSUME WatchExpiries PROVE LockInv'
  BY <1>0, <1>5 DEF WatchExpiries
<1>6. ASSUME NEW p \in Procs, ToCount(p) PROVE LockInv'
  BY <1>0, <1>6 DEF ToCount
<1>7. ASSUME NEW p \in Procs, CountSites(p) PROVE LockInv'
  <2>1. CASE ~Finish(p)
    BY <1>0, <1>7, <2>1 DEF CountSites
  <2> QED
    BY <1>1, <2>1
<1>8. ASSUME NEW p \in Procs,
             \/ Replace(p) \/ Delete(p) \/ SetSiteCount(p) \/ ChangeTokens(p)
             \/ p = Watcher /\ DeleteExpired
      PROVE  LockInv'
  <2>1. Finish(p) \/ ToCount(p)
    BY <1>8 DEF Replace, Delete, SetSiteCount, ChangeTokens, DeleteExpired
  <2> QED
    BY <1>1, <1>6, <2>1
<1>9. ASSUME NEW r \in Readers, Read(r) PROVE LockInv'
  BY <1>9, ReadersApart DEF apiVars
<1>10. ASSUME Tick \/ AwayActs \/ MapActs PROVE LockInv'
  BY <1>10, AwayChanges, MapType DEF Tick, apiVars
<1>13. ASSUME ListExpired PROVE LockInv'
  <2>1. CASE ~Finish(Watcher)
    BY <1>0, <1>13, <2>1 DEF ListExpired
  <2> QED
    BY <1>0, <1>1, <2>1
<1>11. ASSUME Restart PROVE LockInv'
  BY <1>0, <1>11 DEF Restart
<1>12. ASSUME UNCHANGED vars PROVE LockInv'
  BY <1>12 DEF vars, apiVars
<1> QED
  BY <1>0, <1>2, <1>3, <1>4, <1>5, <1>7, <1>8, <1>9, <1>10, <1>11, <1>12, <1>13
     DEF Next, Serve, Handle, Watch, Store, AwayActs, MapActs

\* A goroutine that is not at work on the directories leaves who is.
LEMMA BusyStays ==
    ASSUME TypeOK, Busy, NEW p \in Procs, NEW to \in Stations,
           pc' = [pc EXCEPT ![p] = to], pc[p] \notin {"mutate", "reap"}
    PROVE  Busy'
<1>1. pc \in [Procs -> Stations] /\ Workers \subseteq Procs /\ Watcher \in Procs
  BY TypeParts DEF ApiType, Procs
<1>2. CASE pc[Watcher] = "reap"
  BY <1>1, <1>2 DEF Busy
<1>3. CASE \E w \in Workers : pc[w] = "mutate"
  <2>1. PICK w \in Workers : pc[w] = "mutate"
    BY <1>3
  <2>2. pc'[w] = "mutate"
    BY <1>1, <2>1
  <2> QED
    BY <2>2 DEF Busy
<1> QED
  BY <1>2, <1>3 DEF Busy

\* Who disturbs the directories puts them in order before letting go.
LEMMA FluxNext == TypeOK /\ LockInv /\ FluxInv /\ [Next]_vars => FluxInv'
<1> SUFFICES ASSUME TypeOK, LockInv, FluxInv, [Next]_vars PROVE FluxInv'
  OBVIOUS
<1>0. /\ pc \in [Procs -> Stations] /\ Workers \subseteq Procs /\ Watcher \in Procs
      /\ Watcher \notin Workers
  BY ProcsAssumption, TypeParts DEF ApiType, Procs
<1>1. ASSUME NEW p \in Procs, Mutates(p) PROVE FluxInv'
  <2>1. Changes /\ backend' = backend
    BY <1>1, MutationChanges DEF Mutates, Replace, Delete, DeleteExpired
  <2> QED
    BY <2>1 DEF Changes, Change, FluxInv
<1>2. ASSUME AwayActs PROVE FluxInv'
  BY <1>2, AwayChanges DEF FluxInv, HasApi
<1>3. ASSUME Disturb PROVE FluxInv'
  <2>1. HasApi => Busy
    <3>1. CASE \E n \in Replaced : TRUE
      BY <3>1 DEF Replaced, Busy
    <3>2. CASE \E n \in Removed : TRUE
      BY <3>2 DEF Removed, Busy
    <3> QED
      BY <1>3, <3>1, <3>2 DEF Disturb
  <2> QED
    BY <1>3, <2>1 DEF Disturb, FluxInv, HasApi, Busy, apiVars
<1>4. ASSUME Refresh \/ Fetch \/ InstallMap PROVE FluxInv'
  BY <1>4 DEF Refresh, Fetch, InstallMap, FluxInv, HasApi, Busy, apiVars
<1>5. ASSUME ListExpired PROVE FluxInv'
  <2>1. pc[Watcher] = "mutate" /\ mu = Watcher
    BY <1>0, <1>5 DEF ListExpired, LockInv
  <2>2. ~Busy
    BY <1>0, <2>1 DEF LockInv, Busy
  <2> QED
    BY <1>5, <2>2 DEF ListExpired, FluxInv, HasApi
<1>6. ASSUME Restart PROVE FluxInv'
  BY <1>6 DEF Restart, FluxInv
<1>7. ASSUME UNCHANGED <<role, backend, stored, shown>>,
             \/ pc' = pc
             \/ \E p \in Procs, to \in Stations :
                   pc' = [pc EXCEPT ![p] = to] /\ pc[p] \notin {"mutate", "reap"}
      PROVE  FluxInv'
  BY <1>7, BusyStays DEF FluxInv, HasApi, Busy
<1>8. ASSUME NEW w \in Workers, Request(w) \/ ReadBody(w) \/ ChangeTokens(w)
      PROVE  FluxInv'
  <2>1. UNCHANGED <<role, backend, stored, shown>>
    BY <1>8 DEF Request, GetStatus, PutSite, DeleteSite, ManageTokens, Enter,
       ReadBody, ChangeTokens, storeVars
  <2>2. /\ pc[w] \notin {"mutate", "reap"}
        /\ \E to \in Stations : pc' = [pc EXCEPT ![w] = to]
    BY <1>8 DEF Request, GetStatus, PutSite, DeleteSite, ManageTokens, Enter,
       ReadBody, ChangeTokens, Finish, Stations
  <2> QED
    BY <1>0, <1>7, <2>1, <2>2
<1>9. ASSUME NEW p \in Procs, LockMutation(p) \/ CountSites(p) \/ SetSiteCount(p)
      PROVE  FluxInv'
  <2>1. UNCHANGED <<role, backend, stored, shown>>
    BY <1>9 DEF LockMutation, CountSites, SetSiteCount, storeVars
  <2>2. /\ pc[p] \notin {"mutate", "reap"}
        /\ \E to \in Stations : pc' = [pc EXCEPT ![p] = to]
    BY <1>9 DEF LockMutation, CountSites, SetSiteCount, Finish, Stations
  <2> QED
    BY <1>7, <2>1, <2>2
<1>10. ASSUME WatchExpiries PROVE FluxInv'
  <2>1. /\ UNCHANGED <<role, backend, stored, shown>>
        /\ pc[Watcher] \notin {"mutate", "reap"}
        /\ \E to \in Stations : pc' = [pc EXCEPT ![Watcher] = to]
    BY <1>10 DEF WatchExpiries, storeVars, Stations
  <2> QED
    BY <1>0, <1>7, <2>1
<1>11. ASSUME NEW r \in Readers, Read(r) PROVE FluxInv'
  BY <1>7, <1>11, ReadersApart DEF apiVars, storeVars
<1>12. ASSUME Tick \/ UNCHANGED vars PROVE FluxInv'
  BY <1>7, <1>12 DEF Tick, vars, apiVars, storeVars
<1> QED
  BY <1>0, <1>1, <1>2, <1>3, <1>4, <1>5, <1>6, <1>8, <1>9, <1>10, <1>11, <1>12
     DEF Next, Serve, Handle, Watch, Store, AwayActs, Mutates

\* Sites change under mutationMu and for an admitted request or the watcher,
\* tokens for the root token, however the clock, revocations, restarts and
\* other requests fall between arrival and effect.
THEOREM ChangesAuthorised == Spec => Authority
<1> DEFINE A == /\ HasApi /\ stored' # stored =>
                      mu = Watcher \/ (mu \in Workers /\ standing[mu] # "none")
                /\ tokens' # tokens => \E w \in Workers :
                      pc[w] = "tokens" /\ pc'[w] = "idle" /\ standing[w] = "root"
<1>1. TypeOK /\ LockInv /\ FluxInv /\ [Next]_vars => [A]_vars
  <2> SUFFICES ASSUME TypeOK, LockInv, FluxInv, Next PROVE A
    OBVIOUS
  <2>0. pc \in [Procs -> Stations] /\ Workers \subseteq Procs /\ Watcher \in Procs
    BY TypeParts DEF ApiType, Procs
  <2>1. ASSUME NEW w \in Workers, Replace(w) \/ Delete(w) PROVE A
    <3>1. mu = w /\ standing[w] # "none" /\ tokens' = tokens
      BY <2>0, <2>1 DEF Replace, Delete, LockInv
    <3> QED
      BY <3>1
  <2>2. ASSUME DeleteExpired PROVE A
    BY <2>0, <2>2 DEF DeleteExpired, LockInv
  <2>3. ASSUME NEW w \in Workers, ChangeTokens(w) PROVE A
    BY <2>0, <2>3 DEF ChangeTokens, Finish, LockInv, storeVars
  <2>4. ASSUME AwayActs \/ MapActs PROVE A
    BY <2>4, AwayChanges, MapType
  <2>7. ASSUME Restart PROVE A
    <3>1. tokens' = tokens
      BY <2>7 DEF Restart
    <3>2. ASSUME stored' # stored
          PROVE  mu = Watcher \/ (mu \in Workers /\ standing[mu] # "none")
      <4>1. Busy
        BY <2>7, <3>2 DEF Restart, FluxInv
      <4>2. CASE pc[Watcher] = "reap"
        BY <2>0, <4>2 DEF LockInv
      <4>3. CASE \E w \in Workers : pc[w] = "mutate"
        BY <2>0, <4>3 DEF LockInv
      <4> QED
        BY <4>1, <4>2, <4>3 DEF Busy
    <3> QED
      BY <3>1, <3>2
  <2>5. ASSUME \/ \E w \in Workers : Request(w) \/ ReadBody(w)
               \/ \E p \in Procs : LockMutation(p) \/ CountSites(p) \/ SetSiteCount(p)
               \/ WatchExpiries \/ ListExpired \/ Tick
        PROVE  A
    BY <2>5 DEF Request, GetStatus, PutSite, DeleteSite, ManageTokens, Enter,
       ReadBody, LockMutation, CountSites, SetSiteCount, WatchExpiries,
       ListExpired, Tick, storeVars
  <2>6. ASSUME NEW r \in Readers, Read(r) PROVE A
    BY <2>6, ReadersApart DEF storeVars
  <2> QED
    BY <2>0, <2>1, <2>2, <2>3, <2>4, <2>5, <2>6, <2>7
       DEF Next, Serve, Handle, Watch, Store, AwayActs, MapActs
<1>2. Init => LockInv /\ FluxInv
  BY ProcsAssumption DEF Init, LockInv, FluxInv, Procs
<1> QED
  BY <1>1, <1>2, TypeInit, TypeNext, LockNext, FluxNext, PTL DEF Spec, Authority

-----------------------------------------------------------------------------
(***************************************************************************)
(* What a public request is answered.                                      *)
(***************************************************************************)
\* A name that is kept is told as it is, and its content is there; and so it
\* will be when a slow refresh is installed.
KeptInv ==
    /\ \A r \in Readers : \A n \in kept[r] :
          shown[n] = stored[n] /\ n \notin stale \cup dangling
    /\ fetched # Absent => \A n \in Names \ passed : fetched[n] = stored[n]

\* A change of the store takes from kept the names whose entries it changes.
LEMMA ChangeKeeps ==
    ASSUME TypeOK, KeptInv, Changes
    PROVE  /\ KeptInv'
           /\ \A r \in Readers : \A n \in kept'[r] : n \in kept[r] /\ stored'[n] = stored[n]
<1>1. PICK ns \in SUBSET Names : \E new \in [ns -> Entries], known, gone \in SUBSET ns :
          Change(new, known, gone)
  BY DEF Changes
<1>2. PICK new \in [ns -> Entries], known \in SUBSET ns, gone \in SUBSET ns :
          Change(new, known, gone)
  BY <1>1
<1>3. /\ stored' = [n \in Names |-> IF n \in ns THEN new[n] ELSE stored[n]]
      /\ kept' = [r \in Readers |-> kept[r] \ ns]
      /\ kept \in [Readers -> SUBSET Names]
  BY <1>2 DEF Change, TypeOK
<1>4. ASSUME NEW r \in Readers, NEW n \in kept'[r]
      PROVE  /\ n \in kept[r] /\ stored'[n] = stored[n]
             /\ shown'[n] = stored'[n] /\ n \notin stale' \cup dangling'
  <2>1. n \in kept[r] /\ n \notin ns /\ n \in Names /\ stored'[n] = stored[n]
    BY <1>3, <1>4
  <2>2. shown[n] = stored[n] /\ n \notin stale \cup dangling
    BY <2>1 DEF KeptInv
  <2>3. shown'[n] = stored'[n]
    <3>1. CASE backend = "local"
      BY <1>2, <3>1 DEF Change
    <3>2. CASE backend # "local"
      BY <1>2, <2>1, <2>2, <3>2 DEF Change
    <3> QED
      BY <3>1, <3>2
  <2> QED
    BY <1>2, <2>1, <2>2, <2>3 DEF Change
<1>5. fetched' # Absent => \A n \in Names \ passed' : fetched'[n] = stored'[n]
  BY <1>2, <1>3 DEF Change, KeptInv
<1> QED
  BY <1>4, <1>5 DEF KeptInv

\* So do the ways the store tells of itself.
LEMMA MapKeeps ==
    ASSUME TypeOK, KeptInv, MapActs
    PROVE  /\ KeptInv'
           /\ \A r \in Readers : \A n \in kept'[r] : n \in kept[r] /\ stored'[n] = stored[n]
<1>0. kept \in [Readers -> SUBSET Names] /\ UNCHANGED <<stored, dangling>>
  BY MapType DEF TypeOK
<1>1. CASE Disturb
  <2>1. UNCHANGED <<stale, fetched, passed>>
    BY <1>1 DEF Disturb
  <2>2. PICK n, e, moved : Told(n, e, moved)
    BY <1>1, DisturbForm
  <2> QED
    BY <1>0, <2>1, <2>2 DEF Told, KeptInv
<1>2. CASE Refresh
  BY <1>0, <1>2 DEF Refresh, KeptInv, readVars
<1>3. CASE Fetch
  BY <1>0, <1>3 DEF Fetch, KeptInv, readVars
<1>4. CASE InstallMap
  BY <1>0, <1>4 DEF InstallMap, KeptInv
<1> QED
  BY <1>1, <1>2, <1>3, <1>4 DEF MapActs

\* What the API goroutines do with the store.
LEMMA ApiStore ==
    ASSUME TypeOK, ApiActs
    PROVE  Changes \/ ListExpired \/ UNCHANGED <<storeVars, kept>>
<1>1. ASSUME NEW w \in Workers, Request(w) \/ ReadBody(w) \/ ChangeTokens(w)
      PROVE  UNCHANGED <<storeVars, kept>>
  BY <1>1 DEF Request, GetStatus, PutSite, DeleteSite, ManageTokens, Enter,
     ReadBody, ChangeTokens, readVars
<1>2. ASSUME NEW p \in Procs, LockMutation(p) \/ CountSites(p) \/ SetSiteCount(p)
      PROVE  UNCHANGED <<storeVars, kept>>
  BY <1>2 DEF LockMutation, CountSites, SetSiteCount, readVars
<1>3. ASSUME WatchExpiries PROVE UNCHANGED <<storeVars, kept>>
  BY <1>3 DEF WatchExpiries, readVars
<1>4. ASSUME NEW p \in Procs, Mutates(p) PROVE Changes
  BY <1>4, MutationChanges
<1>5. Workers \subseteq Procs /\ Watcher \in Procs
  BY DEF Procs
<1> QED
  BY <1>1, <1>2, <1>3, <1>4, <1>5 DEF ApiActs, Serve, Handle, Watch, Mutates

LEMMA ApiKeeps ==
    ASSUME TypeOK, KeptInv, ApiActs
    PROVE  /\ KeptInv'
           /\ \A r \in Readers : \A n \in kept'[r] : n \in kept[r] /\ stored'[n] = stored[n]
<1>1. CASE Changes
  BY <1>1, ChangeKeeps
<1>2. CASE ListExpired
  BY <1>2 DEF ListExpired, KeptInv, readVars
<1>3. CASE UNCHANGED <<storeVars, kept>>
  BY <1>3 DEF storeVars, KeptInv
<1> QED
  BY <1>1, <1>2, <1>3, ApiStore

\* A request keeps what the store tells as it is, or less.
LEMMA ReadKeeps ==
    ASSUME TypeOK, KeptInv, NEW r \in Readers, Read(r)
    PROVE  KeptInv'
<1>0. kept \in [Readers -> SUBSET Names] /\ UNCHANGED storeVars
  BY ReadersApart DEF TypeOK
<1>1. \A q \in Readers : kept'[q] \subseteq kept[q] \cup Settled
  <2>1. CASE GetIndex(r) \/ GetPath(r)
    <3>1. PICK ns : kept' = [kept EXCEPT ![r] = ns \cap Settled]
      BY <2>1 DEF GetIndex, GetPath, Arrive
    <3> QED
      BY <1>0, <3>1
  <2>2. CASE RenderIndex(r)
    <3>1. PICK ns : kept' = [kept EXCEPT ![r] = @ \cap ns]
      BY <2>2 DEF RenderIndex
    <3> QED
      BY <1>0, <3>1
  <2>3. CASE Leave(r)
    BY <1>0, <2>3 DEF Leave
  <2>4. CASE Follow(r) \/ Stat(r) \/ Open(r) \/ ServeSite(r) \/ Fallback(r)
             \/ RenderGroupIndex(r)
    BY <2>4 DEF Follow, Stat, Open, ServeSite, Fallback, RenderGroupIndex, Quiet
  <2> QED
    BY <2>1, <2>2, <2>3, <2>4 DEF Read
<1> QED
  BY <1>0, <1>1 DEF storeVars, Settled, KeptInv

LEMMA KeptNext == TypeOK /\ KeptInv /\ [Next]_vars => KeptInv'
<1> SUFFICES ASSUME TypeOK, KeptInv, [Next]_vars PROVE KeptInv'
  OBVIOUS
<1>1. CASE Tick
  <2>1. /\ kept' = [r \in Readers |-> {n \in kept[r] : stored[n] # clock + 1}]
        /\ UNCHANGED storeVars
    BY <1>1 DEF Tick
  <2> QED
    BY <2>1 DEF storeVars, KeptInv
<1>2. CASE Restart
  BY <1>2 DEF Restart, KeptInv
<1>3. CASE UNCHANGED vars
  BY <1>3 DEF vars, storeVars, readVars, KeptInv
<1>4. CASE AwayActs
  BY <1>4, AwayChanges, ChangeKeeps
<1> QED
  BY <1>1, <1>2, <1>3, <1>4, ApiKeeps, MapKeeps, ReadKeeps
     DEF Next, ApiActs, Store, AwayActs, MapActs

\* The site the link stands for and every site below it are as they were.
Intact(r) == Concerned(path[r]) \subseteq kept[r]

Below(n) == \E m \in Names : Live(m) /\ Under(m, n)

\* Past the store, a live site has been missed only through a failure.
PathInv(r) ==
    /\ at[r] \in {"fallback", "group"} \cup (Answers \ {"site", "error"}) =>
           (path[r] \in kept[r] /\ Live(path[r]) => failed[r] \/ path[r] = Api)
    /\ at[r] \in {"open", "serve"} /\ path[r] \in kept[r] => Live(path[r])

\* What is left, at each station, of what the link promised.
LinkInv(r) ==
    followed[r] /\ Intact(r) /\ ~failed[r] =>
        /\ at[r] \in {"page", "stat"} =>
               Live(path[r]) \/ path[r] \in Builtins \/ Below(path[r])
        /\ at[r] = "fallback" => path[r] \in Builtins \/ Below(path[r])
        /\ at[r] = "group" => Below(path[r])
        /\ at[r] = "notFound" => path[r] = Api \/ Hidden(path[r])

ReaderInv == \A r \in Readers : PathInv(r) /\ LinkInv(r)

\* The request stays where it is, and so does every name it keeps.
Stays(r) ==
    /\ at'[r] = at[r] /\ path'[r] = path[r]
    /\ followed'[r] = followed[r] /\ failed'[r] = failed[r]
    /\ \A n \in kept'[r] : /\ n \in kept[r]
                           /\ Live(n)' <=> Live(n)
                           /\ Hidden(n)' <=> Hidden(n)

\* What is stored as it was and told as it is has not changed for a reader.
LEMMA KeptStays ==
    ASSUME KeptInv, KeptInv', UNCHANGED <<clock, at, path, followed, failed>>,
           \A r \in Readers : \A n \in kept'[r] : n \in kept[r] /\ stored'[n] = stored[n]
    PROVE  \A r \in Readers : Stays(r)
<1> SUFFICES ASSUME NEW r \in Readers PROVE Stays(r)
  OBVIOUS
<1>1. \A n \in kept'[r] : n \in kept[r] /\ shown'[n] = shown[n]
  BY DEF KeptInv
<1> QED
  BY <1>1 DEF Stays, Live, Hidden

\* A tick takes from kept the names whose entries elapse.
LEMMA TickStays ==
    ASSUME TypeOK, KeptInv, Tick
    PROVE  \A r \in Readers : Stays(r)
<1> SUFFICES ASSUME NEW r \in Readers PROVE Stays(r)
  OBVIOUS
<1>1. kept'[r] = {n \in kept[r] : stored[n] # clock + 1} /\ kept[r] \subseteq Names
  BY DEF Tick, TypeOK
<1>2. clock' = clock + 1 /\ clock \in Nat
      /\ UNCHANGED <<shown, at, path, followed, failed>>
  BY DEF Tick, TypeOK, storeVars
<1>3. ASSUME NEW n \in kept'[r]
      PROVE  /\ n \in kept[r] /\ (Live(n)' <=> Live(n)) /\ (Hidden(n)' <=> Hidden(n))
  <2>1. n \in kept[r] /\ shown[n] # clock + 1 /\ shown'[n] = shown[n]
    BY <1>1, <1>2, <1>3 DEF KeptInv
  <2>2. Elapsed(shown[n], clock + 1) <=> Elapsed(shown[n], clock)
    BY <1>2, <2>1 DEF Elapsed
  <2> QED
    BY <1>2, <2>1, <2>2 DEF Live, Hidden
<1> QED
  BY <1>2, <1>3 DEF Stays

\* What is kept is as it was, so a request that stays keeps its invariant.
LEMMA StaysKeeps ==
    ASSUME TypeOK, NEW r \in Readers, Stays(r), PathInv(r), LinkInv(r)
    PROVE  PathInv(r)' /\ LinkInv(r)'
<1>1. PathInv(r)'
  BY DEF Stays, PathInv
<1>2. LinkInv(r)'
  <2> SUFFICES ASSUME followed'[r], Intact(r)', ~failed'[r]
               PROVE  /\ at'[r] \in {"page", "stat"} => \/ Live(path[r])'
                                                       \/ path'[r] \in Builtins
                                                       \/ Below(path[r])'
                      /\ at'[r] = "fallback" => path'[r] \in Builtins \/ Below(path[r])'
                      /\ at'[r] = "group" => Below(path[r])'
                      /\ at'[r] = "notFound" => path'[r] = Api \/ Hidden(path[r])'
    BY DEF LinkInv
  <2>1. Intact(r) /\ path[r] \in Names /\ path'[r] \in kept'[r]
    BY DEF Intact, Concerned, Stays, TypeOK
  <2>2. (Live(path[r])' <=> Live(path[r])) /\ (Hidden(path[r])' <=> Hidden(path[r]))
    BY <2>1 DEF Stays, Live, Hidden
  <2>3. Below(path[r]) => Below(path[r])'
    <3> SUFFICES ASSUME NEW m \in Names, Live(m), Under(m, path[r])
                 PROVE  Below(path[r])'
      BY DEF Below
    <3>1. m \in kept'[r]
      BY DEF Intact, Concerned, Stays
    <3> QED
      BY <3>1 DEF Stays, Below
  <2> QED
    BY <2>1, <2>2, <2>3 DEF LinkInv, Stays
<1> QED
  BY <1>1, <1>2

\* What one step of a public request does to it, and to the others.
LEMMA StepEffect ==
    ASSUME TypeOK, NEW r \in Readers, NEW from, NEW to, NEW bad \in BOOLEAN,
           Step(r, from, to, bad)
    PROVE  /\ at[r] = from /\ at'[r] = to
           /\ failed'[r] = (failed[r] \/ bad)
           /\ \A q \in Readers \ {r} : at'[q] = at[q] /\ failed'[q] = failed[q]
  BY DEF Step, TypeOK

\* A name of several labels lies under the first of them.
LEMMA FirstLabel ==
    ASSUME NEW S, NEW m \in Seq(S), Len(m) > 0
    PROVE  m = <<Head(m)>> \/ Under(m, <<Head(m)>>)
<1>1. Len(m) \in Nat /\ m[1] \in S /\ Head(m) = m[1]
  OBVIOUS
<1>2. CASE Len(m) = 1
  BY <1>1, <1>2
<1>3. CASE Len(m) > 1
  <2>1. /\ SubSeq(m, 1, 1) \in Seq(S) /\ Len(SubSeq(m, 1, 1)) = 1
        /\ SubSeq(m, 1, 1)[1] = m[1]
    BY <1>1, <1>3, SubSeqProperties
  <2>2. SubSeq(m, 1, 1) = <<m[1]>>
    <3> DEFINE u == SubSeq(m, 1, 1)
    <3> HIDE DEF u
    <3>1. u \in Seq(S) /\ Len(u) = 1 /\ u[1] = m[1]
      BY <2>1 DEF u
    <3>2. u = <<u[1]>>
      BY <3>1
    <3> QED
      BY <3>1, <3>2 DEF u
  <2>3. Len(<<Head(m)>>) = 1
    OBVIOUS
  <2> QED
    BY <1>1, <1>3, <2>2, <2>3 DEF Under
<1> QED
  BY <1>1, <1>2, <1>3

\* A link of the index is a live site, a builtin, or a group with a live child.
LEMMA LinksLead ==
    ASSUME TypeOK, NEW n \in Links
    PROVE  Live(n) \/ n \in Builtins \/ Below(n)
<1>1. CASE n \in LiveSites \cup Builtins
  BY <1>1 DEF LiveSites
<1>2. ASSUME NEW m \in LiveSites, n = Prefix(m), ~Live(n) PROVE Below(n)
  <2>1. m \in Names /\ Live(m) /\ Len(m) > 0
    BY NamesAssumption DEF LiveSites
  <2>2. m \in Seq(STRING)
    BY <2>1, NamesAssumption, Zenon
  <2>3. m = <<Head(m)>> \/ Under(m, <<Head(m)>>)
    BY <2>1, <2>2, FirstLabel
  <2> QED
    BY <1>2, <2>1, <2>3 DEF Prefix, Below
<1> QED
  BY <1>1, <1>2 DEF Links

\* Arrivals and departures.
LEMMA ArriveKeeps ==
    ASSUME TypeOK, NEW r \in Readers,
           GetIndex(r) \/ RenderIndex(r) \/ GetPath(r) \/ Follow(r) \/ Leave(r),
           PathInv(r), LinkInv(r)
    PROVE  PathInv(r)' /\ LinkInv(r)'
<1>0. /\ at \in [Readers -> PublicStations] /\ path \in [Readers -> Names]
      /\ followed \in [Readers -> BOOLEAN] /\ failed \in [Readers -> BOOLEAN]
  BY TypeParts DEF ReadType
<1>1. CASE RenderIndex(r)
  <2>1. PICK n \in Links : path' = [path EXCEPT ![r] = n]
    BY <1>1 DEF RenderIndex
  <2>2. at'[r] = "page" /\ path'[r] = n /\ UNCHANGED <<shown, clock>>
    BY <1>0, <1>1, <2>1 DEF RenderIndex, storeVars
  <2>3. Live(n) \/ n \in Builtins \/ Below(n)
    BY LinksLead
  <2> QED
    BY <2>2, <2>3 DEF PathInv, LinkInv, Live, Below, Answers
<1>2. CASE GetIndex(r) \/ GetPath(r)
  <2>1. at'[r] \in {"index", "stat"} /\ followed'[r] = FALSE
    BY <1>0, <1>2 DEF GetIndex, GetPath, Arrive
  <2> QED
    BY <2>1 DEF PathInv, LinkInv, Answers
<1>3. CASE Follow(r)
  <2>1. /\ at[r] = "page" /\ at'[r] = "stat"
        /\ UNCHANGED <<path, followed, failed, kept, shown, clock>>
    BY <1>0, <1>3 DEF Follow, storeVars
  <2> QED
    BY <2>1 DEF PathInv, LinkInv, Live, Below, Intact, Answers
<1>4. CASE Leave(r)
  <2>1. at'[r] = "idle"
    BY <1>0, <1>4 DEF Leave
  <2> QED
    BY <2>1 DEF PathInv, LinkInv, Answers
<1> QED
  BY <1>1, <1>2, <1>3, <1>4

\* The calls to the store, one after the other, each with the store of its own
\* moment.
LEMMA CallsKeep ==
    ASSUME TypeOK, KeptInv, NEW r \in Readers,
           Stat(r) \/ Open(r) \/ ServeSite(r) \/ Fallback(r) \/ RenderGroupIndex(r),
           PathInv(r), LinkInv(r)
    PROVE  PathInv(r)' /\ LinkInv(r)'
<1>0. UNCHANGED <<path, followed, kept, shown, clock>> /\ path[r] \in Names
  BY DEF Stat, Open, ServeSite, Fallback, RenderGroupIndex, Quiet, storeVars, TypeOK
<1>1. /\ Live(path[r])' <=> Live(path[r])
      /\ Hidden(path[r])' <=> Hidden(path[r])
      /\ Below(path[r])' <=> Below(path[r])
      /\ Intact(r)' <=> Intact(r)
      /\ ~(Live(path[r]) /\ Hidden(path[r]))
      /\ Live(path[r]) => path[r] \in Sites
      /\ Intact(r) => path[r] \in kept[r]
  BY <1>0 DEF Live, Hidden, Below, Intact, Concerned, Sites
<1> DEFINE Moves(from, to) ==
             at[r] = from /\ at'[r] = to /\ (failed'[r] <=> failed[r])
<1>2. ASSUME NEW from, NEW to, Step(r, from, to, FALSE)
      PROVE  Moves(from, to)
  BY <1>2, StepEffect, Zenon
<1>3. ASSUME NEW from, NEW to \in {"fallback", "error", "notFound"},
             Step(r, from, to, TRUE)
      PROVE  PathInv(r)' /\ LinkInv(r)'
  <2>1. at'[r] = to /\ failed'[r]
    BY <1>3, StepEffect, Zenon
  <2> QED
    BY <2>1 DEF PathInv, LinkInv
<1>4. CASE Stat(r)
  <2>1. CASE Step(r, "stat", "fallback", TRUE)
    BY <1>3, <2>1
  <2>2. CASE Moves("stat", "notFound") /\ (path[r] = Api \/ Hidden(path[r]))
    BY <1>0, <1>1, <2>2 DEF PathInv, LinkInv, Answers
  <2>3. CASE Moves("stat", "open") /\ Live(path[r])
    BY <1>0, <1>1, <2>3 DEF PathInv, LinkInv, Answers
  <2>4. CASE Moves("stat", "fallback") /\ path[r] \notin Sites
    <3>1. ~Live(path[r])
      BY <1>1, <2>4
    <3> QED
      BY <1>0, <1>1, <2>4, <3>1 DEF PathInv, LinkInv, Answers
  <2> QED
    BY <1>2, <1>4, <2>1, <2>2, <2>3, <2>4 DEF Stat
<1>5. CASE Open(r)
  <2>1. CASE Step(r, "open", "error", TRUE)
    BY <1>3, <2>1
  <2>2. CASE Moves("open", "serve")
    BY <1>0, <1>1, <2>2 DEF PathInv, LinkInv, Answers
  <2>3. CASE /\ Moves("open", "notFound")
             /\ path[r] \in (Names \ Sites) \cup stale \cup dangling
    <3>1. path[r] \notin kept[r]
      BY <1>1, <2>3 DEF PathInv, KeptInv
    <3> QED
      BY <1>0, <1>1, <2>3, <3>1 DEF PathInv, LinkInv
  <2> QED
    BY <1>2, <1>5, <2>1, <2>2, <2>3 DEF Open
<1>8. CASE ServeSite(r)
  <2>1. CASE Moves("serve", "site")
    BY <2>1 DEF PathInv, LinkInv, Answers
  <2>2. CASE Moves("serve", "notFound") /\ path[r] \notin Sites
    <3>1. path[r] \notin kept[r]
      BY <1>1, <2>2 DEF PathInv
    <3> QED
      BY <1>0, <1>1, <2>2, <3>1 DEF PathInv, LinkInv
  <2> QED
    BY <1>2, <1>8, <2>1, <2>2 DEF ServeSite
<1>6. CASE Fallback(r)
  <2>0. Below(path[r]) => hasGroupChildren(path[r])
    BY DEF Below, hasGroupChildren, Sites, Live
  <2>1. CASE Step(r, "fallback", "notFound", TRUE)
    BY <1>3, <2>1
  <2>2. CASE Moves("fallback", "builtin")
    BY <1>0, <1>1, <2>2 DEF PathInv, LinkInv, Answers
  <2>3. CASE Moves("fallback", "group") /\ path[r] \notin Builtins
    BY <1>0, <1>1, <2>3 DEF PathInv, LinkInv, Answers
  <2>4. CASE /\ ~followed[r]
             /\ Moves("fallback", "redirect") \/ Moves("fallback", "notFound")
    BY <1>0, <1>1, <2>4 DEF PathInv, LinkInv, Answers
  <2>5. CASE /\ path[r] \notin Builtins /\ ~hasGroupChildren(path[r])
             /\ Moves("fallback", "notFound")
    BY <1>0, <1>1, <2>0, <2>5 DEF PathInv, LinkInv, Answers
  <2> QED
    BY <1>2, <1>6, <2>1, <2>2, <2>3, <2>4, <2>5 DEF Fallback
<1>7. CASE RenderGroupIndex(r)
  <2> DEFINE rows == {n \in LiveSites : Under(n, path[r])}
  <2>0. Below(path[r]) => rows # {}
    BY DEF Below, LiveSites
  <2>1. CASE Step(r, "group", "error", TRUE)
    BY <1>3, <2>1
  <2>2. CASE Moves("group", "groupIndex")
    BY <1>0, <1>1, <2>2 DEF PathInv, LinkInv, Answers
  <2>3. CASE Moves("group", "notFound") /\ rows = {}
    BY <1>0, <1>1, <2>0, <2>3 DEF PathInv, LinkInv, Answers
  <2> QED
    BY <1>2, <1>3, <1>7, <2>1, <2>2, <2>3 DEF RenderGroupIndex
<1> QED
  BY <1>4, <1>5, <1>6, <1>7, <1>8

\* A public request leaves the others where they are.
LEMMA OthersStay ==
    ASSUME TypeOK, NEW r \in Readers, Read(r), NEW q \in Readers, q # r
    PROVE  Stays(q)
<1>0. /\ at \in [Readers -> PublicStations] /\ path \in [Readers -> Names]
      /\ followed \in [Readers -> BOOLEAN] /\ failed \in [Readers -> BOOLEAN]
      /\ kept \in [Readers -> SUBSET Names] /\ UNCHANGED <<shown, clock>>
  BY TypeParts, ReadersApart DEF ReadType, storeVars
<1>1. /\ at'[q] = at[q] /\ path'[q] = path[q] /\ kept'[q] = kept[q]
      /\ followed'[q] = followed[q] /\ failed'[q] = failed[q]
  <2>1. CASE GetIndex(r) \/ RenderIndex(r) \/ GetPath(r) \/ Follow(r) \/ Leave(r)
    BY <1>0, <2>1 DEF GetIndex, RenderIndex, GetPath, Arrive, Follow, Leave
  <2>2. CASE Stat(r) \/ Open(r) \/ ServeSite(r) \/ Fallback(r) \/ RenderGroupIndex(r)
    <3>1. UNCHANGED <<path, followed, kept>>
      BY <2>2 DEF Stat, Open, ServeSite, Fallback, RenderGroupIndex, Quiet
    <3>2. \E from, to : \E bad \in BOOLEAN : Step(r, from, to, bad)
      BY <2>2 DEF Stat, Open, ServeSite, Fallback, RenderGroupIndex
    <3> QED
      BY <3>1, <3>2, StepEffect
  <2> QED
    BY <2>1, <2>2 DEF Read
<1> QED
  BY <1>0, <1>1 DEF Stays, Live, Hidden

\* Every public request keeps its invariant in every step.
LEMMA ReaderNext == TypeOK /\ KeptInv /\ ReaderInv /\ [Next]_vars => ReaderInv'
<1> SUFFICES ASSUME TypeOK, KeptInv, ReaderInv, [Next]_vars, NEW r \in Readers
             PROVE  PathInv(r)' /\ LinkInv(r)'
  BY DEF ReaderInv
<1>0. PathInv(r) /\ LinkInv(r)
  BY DEF ReaderInv
<1>1. CASE ApiActs
  <2>1. Stays(r)
    BY <1>1, ApiApart, ApiKeeps, KeptStays
  <2> QED
    BY <1>0, <2>1, StaysKeeps
<1>2. CASE Read(r)
  BY <1>0, <1>2, ArriveKeeps, CallsKeep DEF Read
<1>3. ASSUME NEW q \in Readers, Read(q), q # r
      PROVE  PathInv(r)' /\ LinkInv(r)'
  BY <1>0, <1>3, OthersStay, StaysKeeps
<1>4. CASE Tick
  BY <1>0, <1>4, TickStays, StaysKeeps
<1>5. CASE AwayActs
  <2>1. Stays(r)
    BY <1>5, AwayChanges, ChangeKeeps, KeptStays
  <2> QED
    BY <1>0, <2>1, StaysKeeps
<1>8. CASE MapActs
  <2>1. Stays(r)
    BY <1>8, MapType, MapKeeps, KeptStays
  <2> QED
    BY <1>0, <2>1, StaysKeeps
<1>6. CASE Restart
  <2>1. at'[r] = "idle"
    BY <1>6 DEF Restart
  <2> QED
    BY <2>1 DEF PathInv, LinkInv, Answers
<1>7. CASE UNCHANGED vars
  <2>1. Stays(r)
    BY <1>7 DEF vars, storeVars, readVars, Stays, Live, Hidden
  <2> QED
    BY <1>0, <2>1, StaysKeeps
<1> QED
  BY <1>1, <1>2, <1>3, <1>4, <1>5, <1>6, <1>7, <1>8
     DEF Next, ApiActs, Store, AwayActs, MapActs

\* The public requests' invariant holds in every reachable state.
THEOREM ReaderInvariance == Spec => [](TypeOK /\ KeptInv /\ ReaderInv)
<1>1. Init => KeptInv /\ ReaderInv
  <2>1. Init => KeptInv
    BY DEF Init, KeptInv
  <2>2. Init => ReaderInv
    BY DEF Init, ReaderInv, PathInv, LinkInv, Answers
  <2> QED
    BY <2>1, <2>2
<1> QED
  BY <1>1, TypeInit, TypeNext, KeptNext, ReaderNext, PTL DEF Spec

\* A site that from the request on stayed as it was and was told as it is is
\* not passed over for a builtin, a group or a 404, whatever the store goes
\* through meanwhile with other sites, refreshes of its map, and restarts.
THEOREM DiskFirst == Spec => []DiskSitesWin
<1>1. TypeOK /\ KeptInv /\ ReaderInv => DiskSitesWin
  BY DEF TypeOK, KeptInv, ReaderInv, PathInv, DiskSitesWin, Published, Live
<1> QED
  BY ReaderInvariance, <1>1, PTL

\* A link of the index leads to an answer as long as the sites it stands for
\* are left alone and told as they are, whatever happens to the others.
THEOREM LinksLeadSomewhere == Spec => []IndexLinksResolve
<1>1. TypeOK /\ KeptInv /\ ReaderInv => IndexLinksResolve
  <2> SUFFICES ASSUME TypeOK, KeptInv, ReaderInv, NEW r \in Readers,
                      at[r] = "notFound", followed[r],
                      Concerned(path[r]) \subseteq kept[r],
                      path[r] # Api, ~failed[r]
               PROVE  Elapsed(stored[path[r]], clock)
    BY DEF IndexLinksResolve
  <2>1. Hidden(path[r])
    BY DEF ReaderInv, LinkInv, Intact
  <2>2. path[r] \in kept[r]
    BY DEF Concerned, TypeOK
  <2> QED
    BY <2>1, <2>2 DEF KeptInv, Hidden
<1> QED
  BY ReaderInvariance, <1>1, PTL

=============================================================================
