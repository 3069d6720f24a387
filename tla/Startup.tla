-------------------------------- MODULE Startup --------------------------------
(***************************************************************************)
(* Starting up: how the daemon in each of its roles (cmd/crated) and the   *)
(* client (cmd/crate) come by the root token and the storage backend, and  *)
(* how config.yaml is created (internal/config/config.go).                 *)
(*                                                                         *)
(* Nothing locks config.yaml and os.WriteFile truncates the file before it *)
(* writes it, so reading, truncating and writing are steps of their own.   *)
(* Every error return on the way up is Exit: it leaves the file exactly    *)
(* where a signal at the same point would.                                 *)
(*                                                                         *)
(* Of Config the model keeps the token and the storage backend; addresses, *)
(* URLs and limits take the same path (default, file, environment).        *)
(***************************************************************************)
EXTENDS Naturals

CONSTANTS
    Brokers,     \* daemons with --role=all or --role=broker
    Webs,        \* daemons with --role=web
    Clients,     \* invocations of crate that need the config
    EnvToken,    \* processes with CRATE_TOKEN set
    EnvBackend,  \* CRATE_STORAGE_BACKEND of each process, "" when unset
    MaxTokens    \* bound: root tokens generated

Process == Brokers \cup Webs \cup Clients

\* "bad" is whatever ValidateStorage refuses: an unknown backend, an S3 one
\* with no endpoint or bucket, a meta_ttl that does not parse.
Backends == {"local", "s3", "bad"}

ASSUME TokensAssumption == MaxTokens \in Nat \ {0}
ASSUME RolesAssumption == Webs \cap (Brokers \cup Clients) = {}
ASSUME EnvAssumption ==
    /\ EnvToken \subseteq Process
    /\ EnvBackend \in [Process -> Backends \cup {""}]

\* The root token: 0 is the empty string, generated ones are numbered, and
\* Override is the value the operator keeps in CRATE_TOKEN.
Override == MaxTokens + 1
Tokens == 0 .. Override

Config == [token : Tokens, backend : Backends \cup {""}]

\* The zero Config, which is also what an empty file parses to.
Zero == [token |-> 0, backend |-> ""]

\* config.yaml when it is not there.
Missing == [token |-> 0, backend |-> "missing"]

VARIABLES
    file,     \* config.yaml: what it parses to, or Missing
    minted,   \* tokens generated so far
    pc,       \* how far each process has come
    cfg,      \* the Config each process holds
    past      \* history: what went on since the file was last absent at rest

vars == <<file, minted, pc, cfg, past>>

Stations == {"off", "load", "create", "write", "orphan", "boot", "up"}
Events == {"blank", "overlap", "torn", "removed"}

Goto(p, station) == pc' = [pc EXCEPT ![p] = station]

\* Creating the file, between reading that it is absent and writing it.
Initialising(p) == pc[p] \in {"create", "write"}

Loaded(p) == pc[p] \in {"boot", "up"}

-----------------------------------------------------------------------------
\* A first start, or one over a file the operator wrote, with or without a
\* token, or an earlier run left.
Init ==
    /\ \/ file = Missing /\ minted = 0 /\ past = {}
       \/ file \in [token : {1}, backend : Backends \cup {""}] /\ minted = 1 /\ past = {}
       \/ file \in [token : {0}, backend : Backends \cup {""}] /\ minted = 0 /\ past = {"blank"}
    /\ pc = [p \in Process |-> "off"]
    /\ cfg = [p \in Process |-> Zero]

BugNoDefault(c) == c
applyDefaults(c) ==
    IF c.backend = "" THEN [c EXCEPT !.backend = "local"] ELSE c

applyEnv(p, c) ==
    [token   |-> IF p \in EnvToken THEN Override ELSE c.token,
     backend |-> IF EnvBackend[p] # "" THEN EnvBackend[p] ELSE c.backend]

\* What is saved on a first run: a fresh token and the defaults.
defaultConfig == applyDefaults([token |-> minted + 1, backend |-> ""])

\* A process that reads while another is between its read and its write.
NoteOverlap(p) ==
    past' = IF \E q \in Process \ {p} : Initialising(q)
            THEN past \cup {"overlap"} ELSE past

\* LoadOrInit up to its Save.
BugSavesOverrides(p) ==
    /\ pc[p] = "load"
    /\ p \notin Webs
    /\ IF file # Missing
       THEN /\ cfg' = [cfg EXCEPT ![p] = applyEnv(p, applyDefaults(file))]
            /\ Goto(p, "boot")
            /\ UNCHANGED minted
       ELSE /\ minted < MaxTokens
            /\ minted' = minted + 1
            /\ cfg' = [cfg EXCEPT ![p] = applyEnv(p, defaultConfig)]
            /\ Goto(p, "create")
    /\ NoteOverlap(p)
    /\ UNCHANGED file
BugReinitialises(p) ==
    /\ pc[p] = "load"
    /\ p \notin Webs
    /\ IF file # Missing /\ file.backend # ""
       THEN /\ cfg' = [cfg EXCEPT ![p] = applyEnv(p, applyDefaults(file))]
            /\ Goto(p, "boot")
            /\ UNCHANGED minted
       ELSE /\ minted < MaxTokens
            /\ minted' = minted + 1
            /\ cfg' = [cfg EXCEPT ![p] = defaultConfig]
            /\ Goto(p, "create")
    /\ NoteOverlap(p)
    /\ UNCHANGED file
LoadOrInit(p) ==
    /\ pc[p] = "load"
    /\ p \notin Webs
    /\ IF file # Missing
       THEN /\ cfg' = [cfg EXCEPT ![p] = applyEnv(p, applyDefaults(file))]
            /\ Goto(p, "boot")
            /\ UNCHANGED minted
       ELSE /\ minted < MaxTokens
            /\ minted' = minted + 1
            /\ cfg' = [cfg EXCEPT ![p] = defaultConfig]
            /\ Goto(p, "create")
    /\ NoteOverlap(p)
    /\ UNCHANGED file

\* Save, first half: os.WriteFile opens the file, creating or truncating it.
Truncate(p) ==
    /\ pc[p] = "create"
    /\ file' = Zero
    /\ Goto(p, "write")
    /\ UNCHANGED <<minted, cfg, past>>

\* Save, second half, and the rest of LoadOrInit.  A file unlinked since it
\* was opened takes the write and nobody sees it.
BugFileKept(p) ==
    /\ pc[p] \in {"write", "orphan"}
    /\ cfg' = [cfg EXCEPT ![p] = applyEnv(p, cfg[p])]
    /\ Goto(p, "boot")
    /\ UNCHANGED <<file, minted, past>>
Save(p) ==
    /\ pc[p] \in {"write", "orphan"}
    /\ file' = IF pc[p] = "write" THEN cfg[p] ELSE file
    /\ cfg' = [cfg EXCEPT ![p] = applyEnv(p, cfg[p])]
    /\ Goto(p, "boot")
    /\ UNCHANGED <<minted, past>>

\* LoadReadOnly: never creates the file and never keeps a token.
BugIgnoresFile(p) ==
    /\ pc[p] = "load"
    /\ p \in Webs
    /\ LET c == applyEnv(p, applyDefaults(Zero))
       IN  cfg' = [cfg EXCEPT ![p] = [c EXCEPT !.token = 0]]
    /\ Goto(p, "boot")
    /\ NoteOverlap(p)
    /\ UNCHANGED <<file, minted>>
LoadReadOnly(p) ==
    /\ pc[p] = "load"
    /\ p \in Webs
    /\ LET c == applyEnv(p, applyDefaults(IF file = Missing THEN Zero ELSE file))
       IN  cfg' = [cfg EXCEPT ![p] = [c EXCEPT !.token = 0]]
    /\ Goto(p, "boot")
    /\ NoteOverlap(p)
    /\ UNCHANGED <<file, minted>>

-----------------------------------------------------------------------------
\* The paths are resolved; the config is about to be read.
Launch(p) ==
    /\ pc[p] = "off"
    /\ Goto(p, "load")
    /\ UNCHANGED <<file, minted, cfg, past>>

\* The rest of the daemon's run: settings validated, store and tokens opened,
\* the listener up.  The client does none of this.
Boot(p) ==
    /\ pc[p] = "boot"
    /\ p \in Clients \/ cfg[p].backend # "bad"
    /\ Goto(p, "up")
    /\ UNCHANGED <<file, minted, cfg, past>>

\* An error return before the daemon is up, a shutdown, a client that is done,
\* or the end of the process at any point.
Exit(p) ==
    /\ pc[p] # "off"
    /\ Goto(p, "off")
    /\ cfg' = [cfg EXCEPT ![p] = Zero]
    /\ past' = IF pc[p] = "write" THEN past \cup {"torn"} ELSE past
    /\ UNCHANGED <<file, minted>>

\* The operator deletes config.yaml to be given another token.
RemoveConfig ==
    /\ file # Missing
    /\ file' = Missing
    /\ pc' = [p \in Process |-> IF pc[p] = "write" THEN "orphan" ELSE pc[p]]
    /\ past' = IF \A p \in Process : pc[p] = "off"
               THEN {} ELSE past \cup {"removed"}
    /\ UNCHANGED <<minted, cfg>>

Start(p) ==
    Launch(p) \/ LoadOrInit(p) \/ Truncate(p) \/ Save(p) \/ LoadReadOnly(p) \/ Boot(p)

Next == (\E p \in Process : Start(p) \/ Exit(p)) \/ RemoveConfig

Spec == Init /\ [][Next]_vars

-----------------------------------------------------------------------------
(***************************************************************************)
(* Properties.                                                             *)
(***************************************************************************)

\* What config.yaml and every process's Config can look like: every Config
\* that was loaded names a backend.
TypeOK ==
    /\ file \in Config \cup {Missing}
    /\ minted \in 0 .. MaxTokens
    /\ pc \in [Process -> Stations]
    /\ cfg \in [Process -> Config]
    /\ \A p \in Process : Loaded(p) => cfg[p].backend # ""
    /\ past \subseteq Events

\* The client can talk to the daemon without any setup: as long as no first
\* run overlapped another start and the file was not deleted under a running
\* process, everything that is running on the file's token holds the token that
\* is in the file.  It is not empty, unless the operator wrote a file without a
\* token or a first run was cut off inside Save: LoadOrInit never fills it in
\* (LoadOrInit, config.go:213-237; requireAuth refuses the empty token).
RootTokenAgrees ==
    past \cap {"overlap", "removed"} = {} =>
        \A p \in Process \ (Webs \cup EnvToken) :
            Loaded(p) => /\ cfg[p].token = file.token
                         /\ past = {} => file.token # 0

\* Daemons started from one config file and one environment publish to and
\* serve from the same backend, even when a first run overlaps another start or
\* is cut off: LoadReadOnly and both branches of LoadOrInit apply defaults and
\* environment alike, and a truncated file reads as the defaults
\* (config.go:213-266).
RolesShareBackend ==
    "removed" \notin past =>
        \A p, q \in Brokers \cup Webs :
            Loaded(p) /\ Loaded(q) /\ EnvBackend[p] = EnvBackend[q]
                => cfg[p].backend = cfg[q].backend

\* CRATE_TOKEN stays process-local: it never reaches config.yaml, not even when
\* the process that has it set is the one that creates the file
\* (config.go:216-224).
OverrideStaysLocal == file.token # Override

\* The root token outlives every restart: unless a first run overlapped another
\* start, a token that is in the file leaves it only when the operator deletes
\* the file, whoever starts, fails or stops (config.go:213-237).
TokenPersists ==
    [][file.token # 0 /\ past' \cap {"overlap", "removed"} = {}
        => file' \in {file, Missing}]_vars
================================================================================
