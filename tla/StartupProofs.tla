----------------------------- MODULE StartupProofs -----------------------------
(***************************************************************************)
(* What Startup's run checks on one machine, for any number of processes   *)
(* in every role and any environment.                                      *)
(*                                                                         *)
(* The inductive invariant says what a process that is creating the file   *)
(* may rely on: it is the only one, the file is still blank and nobody     *)
(* runs on its token, unless `past` records an overlap or a removal; and   *)
(* what it is about to write is a generated token under the default        *)
(* backend, never an override.                                             *)
(***************************************************************************)
EXTENDS Startup, TLAPS

\* The Config a reader starts from.
Contents == IF file = Missing THEN Zero ELSE file

\* What a first run is about to write.
Drafts ==
    \A p \in Process : pc[p] \in {"create", "write", "orphan"} =>
        cfg[p].token \in 1 .. MaxTokens /\ cfg[p].backend = "local"

\* Unless starts overlapped, one process at most is creating the file, and it
\* is blank until that process has written it; until then nothing has happened
\* to the file and nobody runs on its token.
Alone ==
    past \cap {"overlap", "removed"} = {} =>
        /\ \A p \in Process : Initialising(p) =>
              /\ file.token = 0
              /\ \A q \in Process : Initialising(q) => q = p
        /\ file = Missing \/ (\E p \in Process : Initialising(p)) =>
              past = {} /\ \A q \in Process \ Webs : ~Loaded(q)
        /\ \A p \in Process : pc[p] = "write" => file # Missing

\* A file that is there holds a token, or somebody is about to write one.
Filled ==
    past = {} /\ file # Missing =>
        file.token # 0 \/ \E p \in Process : pc[p] = "write"

\* Only a removed file has writers nobody will hear of.
Orphans == \A p \in Process : pc[p] = "orphan" => "removed" \in past

\* No first run is under way over a file that names another backend.
DefaultsSaved ==
    "removed" \notin past =>
        \A p \in Process : Initialising(p) => Contents.backend \in {"", "local"}

\* Every Config in use is the file's, by way of the defaults and the environment.
BackendLoaded ==
    "removed" \notin past =>
        \A p \in Process : Loaded(p) =>
            cfg[p].backend = IF EnvBackend[p] # "" THEN EnvBackend[p]
                                ELSE applyDefaults(Contents).backend

IInv ==
    /\ TypeOK
    /\ Drafts
    /\ Alone
    /\ Filled
    /\ Orphans
    /\ DefaultsSaved
    /\ BackendLoaded
    /\ RootTokenAgrees
    /\ OverrideStaysLocal

-----------------------------------------------------------------------------
(***************************************************************************)
(* Configs.                                                                *)
(***************************************************************************)

LEMMA TokenValues ==
    /\ 0 \in Tokens /\ Override \in Tokens /\ 0 # Override
    /\ 0 \in 0 .. MaxTokens /\ 1 \in 0 .. MaxTokens
    /\ 1 \in Tokens /\ 1 # Override /\ 1 # 0
    /\ \A t \in 1 .. MaxTokens : t \in Tokens /\ t # 0 /\ t # Override
  BY TokensAssumption DEF Tokens, Override

LEMMA ConfigFields ==
    /\ Zero \in Config /\ Zero.token = 0 /\ Zero.backend = ""
    /\ Missing.token = 0 /\ Missing.backend = "missing" /\ Missing \notin Config
    /\ \A c \in Config : c.token \in Tokens /\ c.backend \in Backends \cup {""}
    /\ \A t \in Tokens, b \in Backends \cup {""} : [token |-> t, backend |-> b] \in Config
  <1>1. Zero \in Config /\ Zero.token = 0 /\ Zero.backend = ""
    BY TokenValues DEF Config, Zero
  <1>2. Missing.token = 0 /\ Missing.backend = "missing" /\ Missing \notin Config
    BY DEF Config, Missing, Backends
  <1> QED
    BY <1>1, <1>2 DEF Config

\* What the defaults and the environment make of a Config.
LEMMA Defaulted ==
    ASSUME NEW c \in Config
    PROVE  /\ applyDefaults(c) \in Config
           /\ applyDefaults(c).token = c.token
           /\ applyDefaults(c).backend = IF c.backend = "" THEN "local" ELSE c.backend
           /\ applyDefaults(c).backend # ""
  <1>1. CASE c.backend = ""
    <2>1. applyDefaults(c) = [c EXCEPT !.backend = "local"]
      BY <1>1 DEF applyDefaults
    <2>2. c \in [token : Tokens, backend : Backends \cup {""}]
      BY DEF Config
    <2>3. "local" \in Backends
      BY DEF Backends
    <2> QED
      BY <1>1, <2>1, <2>2, <2>3 DEF Config
  <1>2. CASE c.backend # ""
    BY <1>2 DEF applyDefaults
  <1> QED
    BY <1>1, <1>2

LEMMA Overridden ==
    ASSUME NEW p \in Process, NEW c \in Config
    PROVE  /\ applyEnv(p, c) \in Config
           /\ p \notin EnvToken => applyEnv(p, c).token = c.token
           /\ applyEnv(p, c).backend = IF EnvBackend[p] # "" THEN EnvBackend[p] ELSE c.backend
  <1>1. c.token \in Tokens /\ c.backend \in Backends \cup {""}
    BY ConfigFields
  <1>2. Override \in Tokens /\ EnvBackend[p] \in Backends \cup {""}
    BY TokenValues, EnvAssumption
  <1> QED
    BY <1>1, <1>2 DEF applyEnv, Config

LEMMA Drafted ==
    ASSUME TypeOK, minted < MaxTokens
    PROVE  /\ defaultConfig \in Config
           /\ defaultConfig.token \in 1 .. MaxTokens
           /\ defaultConfig.backend = "local"
  <1> DEFINE c == [token |-> minted + 1, backend |-> ""]
  <1>1. minted \in 0 .. MaxTokens
    BY DEF TypeOK
  <1>2. minted + 1 \in 1 .. MaxTokens /\ minted + 1 \in Tokens
    BY <1>1, TokensAssumption DEF Tokens, Override
  <1>3. c \in Config /\ c.token = minted + 1 /\ c.backend = ""
    BY <1>2, ConfigFields
  <1>4. defaultConfig = applyDefaults(c)
    BY DEF defaultConfig
  <1> HIDE DEF c
  <1> QED
    BY <1>2, <1>3, <1>4, Defaulted

LEMMA ContentsOK == TypeOK => Contents \in Config /\ Contents.token = file.token
  BY ConfigFields DEF TypeOK, Contents

-----------------------------------------------------------------------------
LEMMA InitHolds == Init => IInv
  <1> SUFFICES ASSUME Init PROVE IInv
    OBVIOUS
  <1>1. /\ file = Missing \/ (file \in Config /\ file.token \in {0, 1})
        /\ past = {} => file = Missing \/ file.token = 1
        /\ file = Missing => past = {}
    BY TokenValues, ConfigFields DEF Init, Config
  <1>2. \A p \in Process : pc[p] = "off" /\ cfg[p] = Zero
    BY DEF Init
  <1>3. TypeOK
    <2>1. minted \in 0 .. MaxTokens
      BY TokenValues DEF Init
    <2>2. pc \in [Process -> Stations] /\ cfg \in [Process -> Config]
      BY ConfigFields DEF Init, Stations
    <2> QED
      BY <1>1, <1>2, <2>1, <2>2 DEF Init, TypeOK, Loaded, Events
  <1>4. Drafts /\ Alone /\ Filled /\ Orphans
    BY <1>1, <1>2, ConfigFields, TokenValues DEF Drafts, Alone, Filled, Orphans, Initialising, Loaded
  <1>5. DefaultsSaved /\ BackendLoaded /\ RootTokenAgrees
    BY <1>2 DEF DefaultsSaved, BackendLoaded, RootTokenAgrees, Initialising, Loaded
  <1>6. OverrideStaysLocal
    BY <1>1, ConfigFields, TokenValues DEF OverrideStaysLocal
  <1> QED
    BY <1>3, <1>4, <1>5, <1>6 DEF IInv

\* A process starts.
LEMMA LaunchKeeps == ASSUME IInv, NEW p \in Process, Launch(p) PROVE IInv'
  <1> USE DEF IInv
  <1>1. /\ pc' \in [Process -> Stations]
        /\ \A q \in Process : pc'[q] = IF q = p THEN "load" ELSE pc[q]
    BY DEF TypeOK, Launch, Goto, Stations
  <1>2. pc[p] = "off" /\ file' = file /\ minted' = minted /\ cfg' = cfg /\ past' = past
    BY DEF Launch
  <1>11. TypeOK'
    BY <1>1, <1>2 DEF TypeOK, Loaded
  <1>12. Drafts'
    BY <1>1, <1>2 DEF Drafts
  <1>13. Alone'
    BY <1>1, <1>2 DEF Alone, Initialising, Loaded
  <1>14. Filled'
    BY <1>1, <1>2 DEF Filled
  <1>15. Orphans'
    BY <1>1, <1>2 DEF Orphans
  <1>16. DefaultsSaved'
    BY <1>1, <1>2 DEF DefaultsSaved, Initialising, Contents
  <1>17. BackendLoaded'
    BY <1>1, <1>2 DEF BackendLoaded, Loaded, Contents
  <1>18. RootTokenAgrees'
    BY <1>1, <1>2 DEF RootTokenAgrees, Loaded
  <1>19. OverrideStaysLocal'
    BY <1>1, <1>2 DEF OverrideStaysLocal
  <1> QED
    BY <1>11, <1>12, <1>13, <1>14, <1>15, <1>16, <1>17, <1>18, <1>19

\* A process is up.
LEMMA BootKeeps == ASSUME IInv, NEW p \in Process, Boot(p) PROVE IInv'
  <1> USE DEF IInv
  <1>1. /\ pc' \in [Process -> Stations]
        /\ \A q \in Process : pc'[q] = IF q = p THEN "up" ELSE pc[q]
    BY DEF TypeOK, Boot, Goto, Stations
  <1>2. pc[p] = "boot" /\ file' = file /\ minted' = minted /\ cfg' = cfg /\ past' = past
    BY DEF Boot
  <1>11. TypeOK'
    BY <1>1, <1>2 DEF TypeOK, Loaded
  <1>12. Drafts'
    BY <1>1, <1>2 DEF Drafts
  <1>13. Alone'
    BY <1>1, <1>2 DEF Alone, Initialising, Loaded
  <1>14. Filled'
    BY <1>1, <1>2 DEF Filled
  <1>15. Orphans'
    BY <1>1, <1>2 DEF Orphans
  <1>16. DefaultsSaved'
    BY <1>1, <1>2 DEF DefaultsSaved, Initialising, Contents
  <1>17. BackendLoaded'
    BY <1>1, <1>2 DEF BackendLoaded, Loaded, Contents
  <1>18. RootTokenAgrees'
    BY <1>1, <1>2 DEF RootTokenAgrees, Loaded
  <1>19. OverrideStaysLocal'
    BY <1>1, <1>2 DEF OverrideStaysLocal
  <1> QED
    BY <1>11, <1>12, <1>13, <1>14, <1>15, <1>16, <1>17, <1>18, <1>19

\* A process ends.
LEMMA ExitKeeps == ASSUME IInv, NEW p \in Process, Exit(p) PROVE IInv'
  <1> USE DEF IInv
  <1>1. /\ pc' \in [Process -> Stations]
        /\ \A q \in Process : pc'[q] = IF q = p THEN "off" ELSE pc[q]
    BY DEF TypeOK, Exit, Goto, Stations
  <1>2. /\ cfg' \in [Process -> Config]
        /\ \A q \in Process : cfg'[q] = IF q = p THEN Zero ELSE cfg[q]
    BY ConfigFields DEF TypeOK, Exit
  <1>3. file' = file /\ minted' = minted
    BY DEF Exit
  <1>4. past' = IF pc[p] = "write" THEN past \cup {"torn"} ELSE past
    BY DEF Exit
  <1>11. TypeOK'
    BY <1>1, <1>2, <1>3, <1>4 DEF TypeOK, Loaded, Events
  <1>12. Drafts'
    BY <1>1, <1>2, <1>3, <1>4 DEF Drafts
  <1>13. Alone'
    BY <1>1, <1>2, <1>3, <1>4 DEF Alone, Initialising, Loaded
  <1>14. Filled'
    BY <1>1, <1>2, <1>3, <1>4 DEF Filled
  <1>15. Orphans'
    BY <1>1, <1>2, <1>3, <1>4 DEF Orphans
  <1>16. DefaultsSaved'
    BY <1>1, <1>2, <1>3, <1>4 DEF DefaultsSaved, Initialising, Contents
  <1>17. BackendLoaded'
    BY <1>1, <1>2, <1>3, <1>4 DEF BackendLoaded, Loaded, Contents
  <1>18. RootTokenAgrees'
    BY <1>1, <1>2, <1>3, <1>4 DEF RootTokenAgrees, Loaded
  <1>19. OverrideStaysLocal'
    BY <1>1, <1>2, <1>3, <1>4 DEF OverrideStaysLocal
  <1> QED
    BY <1>11, <1>12, <1>13, <1>14, <1>15, <1>16, <1>17, <1>18, <1>19

\* Creating or truncating the file.
LEMMA TruncateKeeps == ASSUME IInv, NEW p \in Process, Truncate(p) PROVE IInv'
  <1> USE DEF IInv
  <1>1. /\ pc' \in [Process -> Stations]
        /\ \A q \in Process : pc'[q] = IF q = p THEN "write" ELSE pc[q]
    BY DEF TypeOK, Truncate, Goto, Stations
  <1>2. file' = Zero /\ minted' = minted /\ cfg' = cfg /\ past' = past
    BY DEF Truncate
  <1>3. pc[p] = "create"
    BY DEF Truncate
  <1>4. Contents' = Zero
    BY <1>2 DEF Contents
  <1>11. TypeOK'
    BY <1>1, <1>2, <1>3, <1>4, ConfigFields DEF TypeOK, Loaded
  <1>12. Drafts'
    BY <1>1, <1>2, <1>3, <1>4, ConfigFields DEF Drafts
  <1>13. Alone'
    BY <1>1, <1>2, <1>3, <1>4, ConfigFields DEF Alone, Initialising, Loaded
  <1>14. Filled'
    BY <1>1, <1>2, <1>3, <1>4, ConfigFields DEF Filled
  <1>15. Orphans'
    BY <1>1, <1>2, <1>3, <1>4, ConfigFields DEF Orphans
  <1>16. DefaultsSaved'
    BY <1>1, <1>2, <1>3, <1>4, ConfigFields DEF DefaultsSaved, Initialising, Contents
  <1>17. BackendLoaded'
    <2> SUFFICES ASSUME "removed" \notin past, NEW q \in Process, Loaded(q)'
                 PROVE  cfg[q].backend = IF EnvBackend[q] # "" THEN EnvBackend[q]
                                         ELSE applyDefaults(Zero).backend
      BY <1>2, <1>4 DEF BackendLoaded, applyDefaults
    <2>1. Contents.backend \in {"", "local"}
      BY <1>3 DEF DefaultsSaved, Initialising
    <2>2. applyDefaults(Contents).backend = "local" /\ applyDefaults(Zero).backend = "local"
      BY <2>1, ContentsOK, ConfigFields, Defaulted
    <2>3. Loaded(q)
      BY <1>1, <1>3 DEF Loaded
    <2> QED
      BY <2>2, <2>3 DEF BackendLoaded
  <1>18. RootTokenAgrees'
    BY <1>1, <1>2, <1>3, <1>4, ConfigFields DEF RootTokenAgrees, Loaded, Alone, Initialising
  <1>19. OverrideStaysLocal'
    BY <1>1, <1>2, <1>3, <1>4, ConfigFields, TokenValues DEF OverrideStaysLocal
  <1> QED
    BY <1>11, <1>12, <1>13, <1>14, <1>15, <1>16, <1>17, <1>18, <1>19

\* Writing it.
LEMMA SaveKeeps == ASSUME IInv, NEW p \in Process, Save(p) PROVE IInv'
  <1> USE DEF IInv
  <1>1. /\ pc' \in [Process -> Stations]
        /\ \A q \in Process : pc'[q] = IF q = p THEN "boot" ELSE pc[q]
    BY DEF TypeOK, Save, Goto, Stations
  <1>2. minted' = minted /\ past' = past
    BY DEF Save
  <1>3. cfg[p] \in Config /\ cfg[p].token \in 1 .. MaxTokens /\ cfg[p].backend = "local"
    BY DEF Save, TypeOK, Drafts
  <1>4. /\ cfg' \in [Process -> Config]
        /\ \A q \in Process : cfg'[q] = IF q = p THEN applyEnv(p, cfg[p]) ELSE cfg[q]
    BY <1>3, Overridden DEF TypeOK, Save
  <1>5. \/ pc[p] = "write" /\ file' = cfg[p]
        \/ pc[p] = "orphan" /\ file' = file /\ "removed" \in past
    <2>1. pc[p] \in {"write", "orphan"} /\ file' = IF pc[p] = "write" THEN cfg[p] ELSE file
      BY DEF Save
    <2>2. CASE pc[p] = "write"
      BY <2>1, <2>2
    <2>3. CASE pc[p] = "orphan"
      BY <2>1, <2>3 DEF Orphans
    <2> QED
      BY <2>1, <2>2, <2>3
  <1>6. Contents' \in Config /\ (pc[p] = "write" => Contents' = cfg[p])
    BY <1>3, <1>5, ConfigFields DEF Contents, TypeOK
  <1>7. /\ applyEnv(p, cfg[p]).backend = IF EnvBackend[p] # "" THEN EnvBackend[p] ELSE "local"
        /\ p \notin EnvToken => applyEnv(p, cfg[p]).token = cfg[p].token
    BY <1>3, Overridden
  <1>11. TypeOK'
    <2>1. file' \in Config \cup {Missing}
      BY <1>3, <1>5 DEF TypeOK
    <2>2. applyEnv(p, cfg[p]).backend # ""
      BY <1>7
    <2>3. \A q \in Process : Loaded(q)' => cfg'[q].backend # ""
      BY <1>1, <1>4, <2>2 DEF TypeOK, Loaded
    <2> QED
      BY <1>1, <1>2, <1>4, <2>1, <2>3 DEF TypeOK
  <1>12. Drafts'
    BY <1>1, <1>2, <1>3, <1>4, <1>5, <1>6, <1>7 DEF Drafts
  <1>13. Alone'
    <2> SUFFICES ASSUME past \cap {"overlap", "removed"} = {} PROVE Alone'
      BY <1>2 DEF Alone
    <2>1. pc[p] = "write" /\ file' = cfg[p] /\ file' # Missing
      BY <1>3, <1>5, ConfigFields
    <2>2. \A q \in Process : ~Initialising(q)'
      BY <1>1, <2>1 DEF Alone, Initialising
    <2> QED
      BY <1>2, <2>1, <2>2 DEF Alone, Initialising
  <1>14. Filled'
    BY <1>1, <1>2, <1>3, <1>4, <1>5, <1>6, <1>7, TokenValues DEF Filled
  <1>15. Orphans'
    BY <1>1, <1>2, <1>3, <1>4, <1>5, <1>6, <1>7 DEF Orphans
  <1>16. DefaultsSaved'
    BY <1>1, <1>2, <1>3, <1>4, <1>5, <1>6, <1>7 DEF DefaultsSaved, Initialising, Contents
  <1>17. BackendLoaded'
    <2> SUFFICES ASSUME "removed" \notin past, NEW q \in Process, Loaded(q)'
                 PROVE  cfg'[q].backend = IF EnvBackend[q] # "" THEN EnvBackend[q]
                                          ELSE applyDefaults(Contents').backend
      BY <1>2 DEF BackendLoaded, applyDefaults
    <2>1. pc[p] = "write" /\ Contents' = cfg[p]
      BY <1>2, <1>5, <1>6
    <2>2. Contents.backend \in {"", "local"}
      BY <2>1 DEF DefaultsSaved, Initialising
    <2>3. applyDefaults(Contents).backend = "local" /\ applyDefaults(Contents').backend = "local"
      BY <1>3, <2>1, <2>2, ContentsOK, Defaulted
    <2>4. CASE q = p
      BY <1>4, <1>7, <2>3, <2>4
    <2>5. CASE q # p
      BY <1>1, <1>4, <2>3, <2>5 DEF BackendLoaded, Loaded
    <2> QED
      BY <2>4, <2>5
  <1>18. RootTokenAgrees'
    <2> SUFFICES ASSUME past \cap {"overlap", "removed"} = {},
                        NEW q \in Process \ (Webs \cup EnvToken), Loaded(q)'
                 PROVE  cfg'[q].token = file'.token /\ file'.token # 0
      BY <1>2 DEF RootTokenAgrees
    <2>1. pc[p] = "write" /\ file' = cfg[p] /\ file'.token # 0
      BY <1>3, <1>5, TokenValues
    <2>2. ~Loaded(q)
      BY <2>1 DEF Alone, Initialising
    <2>3. q = p
      BY <1>1, <2>2 DEF Loaded
    <2> QED
      BY <1>4, <1>7, <2>1, <2>3
  <1>19. OverrideStaysLocal'
    BY <1>1, <1>2, <1>3, <1>4, <1>5, <1>6, <1>7, TokenValues DEF OverrideStaysLocal
  <1> QED
    BY <1>11, <1>12, <1>13, <1>14, <1>15, <1>16, <1>17, <1>18, <1>19

\* The web role reads the config.
LEMMA LoadReadOnlyKeeps == ASSUME IInv, NEW p \in Process, LoadReadOnly(p) PROVE IInv'
  <1> USE DEF IInv
  <1> DEFINE c == applyEnv(p, applyDefaults(Contents))
  <1>1. /\ pc' \in [Process -> Stations]
        /\ \A q \in Process : pc'[q] = IF q = p THEN "boot" ELSE pc[q]
    BY DEF TypeOK, LoadReadOnly, Goto, Stations
  <1>2. pc[p] = "load" /\ p \in Webs /\ file' = file /\ minted' = minted
    BY DEF LoadReadOnly
  <1>3. applyDefaults(Contents) \in Config /\ applyDefaults(Contents).backend # ""
    BY ContentsOK, Defaulted
  <1>4. /\ c \in Config /\ c.backend # ""
        /\ c.backend = IF EnvBackend[p] # "" THEN EnvBackend[p] ELSE applyDefaults(Contents).backend
    <2> DEFINE d == applyDefaults(Contents)
    <2>1. d \in Config /\ d.backend # ""
      BY <1>3
    <2> HIDE DEF d
    <2>2. applyEnv(p, d) \in Config
      BY <2>1, Overridden
    <2>3. applyEnv(p, d).backend = IF EnvBackend[p] # "" THEN EnvBackend[p] ELSE d.backend
      BY <2>1, Overridden
    <2>4. applyEnv(p, d).backend # ""
      BY <2>1, <2>3
    <2> QED
      BY <2>2, <2>3, <2>4 DEF d
  <1> HIDE DEF c
  <1>5. /\ [c EXCEPT !.token = 0] \in Config
        /\ [c EXCEPT !.token = 0].backend = c.backend
    BY <1>4, TokenValues DEF Config
  <1>6. /\ cfg' \in [Process -> Config]
        /\ \A q \in Process : cfg'[q] = IF q = p THEN [c EXCEPT !.token = 0] ELSE cfg[q]
    BY <1>5 DEF TypeOK, LoadReadOnly, Contents, c
  <1>7. past' \in {past, past \cup {"overlap"}}
    BY DEF LoadReadOnly, NoteOverlap
  <1>11. TypeOK'
    BY <1>1, <1>2, <1>4, <1>5, <1>6, <1>7 DEF TypeOK, Loaded, Events
  <1>12. Drafts'
    BY <1>1, <1>2, <1>4, <1>5, <1>6, <1>7 DEF Drafts
  <1>13. Alone'
    BY <1>1, <1>2, <1>4, <1>5, <1>6, <1>7 DEF Alone, Initialising, Loaded
  <1>14. Filled'
    BY <1>1, <1>2, <1>4, <1>5, <1>6, <1>7 DEF Filled
  <1>15. Orphans'
    BY <1>1, <1>2, <1>4, <1>5, <1>6, <1>7 DEF Orphans
  <1>16. DefaultsSaved'
    BY <1>1, <1>2, <1>4, <1>5, <1>6, <1>7 DEF DefaultsSaved, Initialising, Contents
  <1>17. BackendLoaded'
    BY <1>1, <1>2, <1>4, <1>5, <1>6, <1>7 DEF BackendLoaded, Loaded, Contents
  <1>18. RootTokenAgrees'
    BY <1>1, <1>2, <1>4, <1>5, <1>6, <1>7 DEF RootTokenAgrees, Loaded
  <1>19. OverrideStaysLocal'
    BY <1>1, <1>2, <1>4, <1>5, <1>6, <1>7 DEF OverrideStaysLocal
  <1> QED
    BY <1>11, <1>12, <1>13, <1>14, <1>15, <1>16, <1>17, <1>18, <1>19

\* Reading a config that is there.
LEMMA LoadKeeps ==
    ASSUME IInv, NEW p \in Process, LoadOrInit(p), file # Missing PROVE IInv'
  <1> USE DEF IInv
  <1> DEFINE d == applyDefaults(file)
             c == applyEnv(p, d)
  <1>1. /\ pc' \in [Process -> Stations]
        /\ \A q \in Process : pc'[q] = IF q = p THEN "boot" ELSE pc[q]
    BY DEF TypeOK, LoadOrInit, Goto, Stations
  <1>2. pc[p] = "load" /\ p \notin Webs /\ file' = file /\ minted' = minted
    BY DEF LoadOrInit
  <1>3. file \in Config /\ Contents = file
    BY DEF TypeOK, Contents
  <1>4. d \in Config /\ d.backend # "" /\ d.token = file.token /\ d = applyDefaults(Contents)
    BY <1>3, Defaulted
  <1>5. /\ cfg' = [cfg EXCEPT ![p] = c]
        /\ past' \in {past, past \cup {"overlap"}}
        /\ "overlap" \notin past' => \A q \in Process \ {p} : ~Initialising(q)
    BY DEF LoadOrInit, NoteOverlap
  <1> HIDE DEF d
  <1>6. /\ c \in Config
        /\ c.backend = IF EnvBackend[p] # "" THEN EnvBackend[p] ELSE d.backend
        /\ p \notin EnvToken => c.token = file.token
    BY <1>4, Overridden
  <1>7. c.backend # ""
    BY <1>4, <1>6
  <1> HIDE DEF c
  <1>8. /\ cfg' \in [Process -> Config]
        /\ \A q \in Process : cfg'[q] = IF q = p THEN c ELSE cfg[q]
    BY <1>5, <1>6 DEF TypeOK
  <1>11. TypeOK'
    BY <1>1, <1>2, <1>4, <1>5, <1>6, <1>7, <1>8 DEF TypeOK, Loaded, Events
  <1>12. Drafts'
    BY <1>1, <1>2, <1>4, <1>5, <1>6, <1>7, <1>8 DEF Drafts
  <1>13. Alone'
    BY <1>1, <1>2, <1>4, <1>5, <1>6, <1>7, <1>8 DEF Alone, Initialising, Loaded
  <1>14. Filled'
    BY <1>1, <1>2, <1>4, <1>5, <1>6, <1>7, <1>8 DEF Filled
  <1>15. Orphans'
    BY <1>1, <1>2, <1>4, <1>5, <1>6, <1>7, <1>8 DEF Orphans
  <1>16. DefaultsSaved'
    BY <1>1, <1>2, <1>4, <1>5, <1>6, <1>7, <1>8 DEF DefaultsSaved, Initialising, Contents
  <1>17. BackendLoaded'
    BY <1>1, <1>2, <1>4, <1>5, <1>6, <1>7, <1>8 DEF BackendLoaded, Loaded, Contents
  <1>18. RootTokenAgrees'
    BY <1>1, <1>2, <1>4, <1>5, <1>6, <1>7, <1>8 DEF RootTokenAgrees, Loaded, Filled, Initialising
  <1>19. OverrideStaysLocal'
    BY <1>1, <1>2, <1>4, <1>5, <1>6, <1>7, <1>8 DEF OverrideStaysLocal
  <1> QED
    BY <1>11, <1>12, <1>13, <1>14, <1>15, <1>16, <1>17, <1>18, <1>19

\* Finding none and drafting one.
LEMMA DraftKeeps ==
    ASSUME IInv, NEW p \in Process, LoadOrInit(p), file = Missing PROVE IInv'
  <1> USE DEF IInv
  <1> DEFINE c == defaultConfig
  <1>1. /\ pc' \in [Process -> Stations]
        /\ \A q \in Process : pc'[q] = IF q = p THEN "create" ELSE pc[q]
    BY DEF TypeOK, LoadOrInit, Goto, Stations
  <1>2. pc[p] = "load" /\ file' = file /\ file.token = 0
    BY ConfigFields DEF LoadOrInit
  <1>3. minted' \in 0 .. MaxTokens
    <2>1. minted \in 0 .. MaxTokens
      BY DEF TypeOK
    <2>2. minted < MaxTokens /\ minted' = minted + 1
      BY DEF LoadOrInit
    <2> QED
      BY <2>1, <2>2, TokensAssumption
  <1>4. c \in Config /\ c.token \in 1 .. MaxTokens /\ c.backend = "local"
    BY Drafted DEF LoadOrInit
  <1>5. /\ cfg' = [cfg EXCEPT ![p] = c]
        /\ past' \in {past, past \cup {"overlap"}}
        /\ "overlap" \notin past' => \A q \in Process \ {p} : ~Initialising(q)
    BY DEF LoadOrInit, NoteOverlap
  <1> HIDE DEF c
  <1>6. /\ cfg' \in [Process -> Config]
        /\ \A q \in Process : cfg'[q] = IF q = p THEN c ELSE cfg[q]
    BY <1>4, <1>5 DEF TypeOK
  <1>7. Contents = Zero /\ Zero.backend = ""
    BY ConfigFields DEF Contents
  <1>11. TypeOK'
    BY <1>1, <1>2, <1>3, <1>4, <1>5, <1>6, <1>7 DEF TypeOK, Loaded, Events
  <1>12. Drafts'
    BY <1>1, <1>2, <1>3, <1>4, <1>5, <1>6, <1>7 DEF Drafts
  <1>13. Alone'
    BY <1>1, <1>2, <1>3, <1>4, <1>5, <1>6, <1>7 DEF Alone, Initialising, Loaded
  <1>14. Filled'
    BY <1>1, <1>2, <1>3, <1>4, <1>5, <1>6, <1>7 DEF Filled
  <1>15. Orphans'
    BY <1>1, <1>2, <1>3, <1>4, <1>5, <1>6, <1>7 DEF Orphans
  <1>16. DefaultsSaved'
    BY <1>1, <1>2, <1>3, <1>4, <1>5, <1>6, <1>7 DEF DefaultsSaved, Initialising, Contents
  <1>17. BackendLoaded'
    BY <1>1, <1>2, <1>3, <1>4, <1>5, <1>6, <1>7 DEF BackendLoaded, Loaded, Contents
  <1>18. RootTokenAgrees'
    BY <1>1, <1>2, <1>3, <1>4, <1>5, <1>6, <1>7 DEF RootTokenAgrees, Loaded
  <1>19. OverrideStaysLocal'
    BY <1>1, <1>2, <1>3, <1>4, <1>5, <1>6, <1>7 DEF OverrideStaysLocal
  <1> QED
    BY <1>11, <1>12, <1>13, <1>14, <1>15, <1>16, <1>17, <1>18, <1>19

\* The operator deletes the file.
LEMMA RemoveConfigKeeps == ASSUME IInv, RemoveConfig PROVE IInv'
  <1> USE DEF IInv
  <1>1. /\ pc' \in [Process -> Stations]
        /\ \A q \in Process : pc'[q] = IF pc[q] = "write" THEN "orphan" ELSE pc[q]
    BY DEF TypeOK, RemoveConfig, Stations
  <1>2. file' = Missing /\ minted' = minted /\ cfg' = cfg
    BY DEF RemoveConfig
  <1>3. \/ past' = {} /\ \A q \in Process : pc[q] = "off"
        \/ past' = past \cup {"removed"}
    BY DEF RemoveConfig
  <1>11. TypeOK'
    BY <1>1, <1>2, <1>3 DEF TypeOK, Loaded, Events
  <1>12. Drafts'
    BY <1>1, <1>2, <1>3 DEF Drafts
  <1>13. Alone'
    BY <1>1, <1>2, <1>3 DEF Alone, Initialising, Loaded
  <1>14. Filled'
    BY <1>1, <1>2, <1>3 DEF Filled
  <1>15. Orphans'
    BY <1>1, <1>2, <1>3 DEF Orphans
  <1>16. DefaultsSaved'
    BY <1>1, <1>2, <1>3 DEF DefaultsSaved, Initialising, Contents
  <1>17. BackendLoaded'
    BY <1>1, <1>2, <1>3 DEF BackendLoaded, Loaded, Contents
  <1>18. RootTokenAgrees'
    BY <1>1, <1>2, <1>3 DEF RootTokenAgrees, Loaded
  <1>19. OverrideStaysLocal'
    BY <1>1, <1>2, <1>3, ConfigFields, TokenValues DEF OverrideStaysLocal
  <1> QED
    BY <1>11, <1>12, <1>13, <1>14, <1>15, <1>16, <1>17, <1>18, <1>19

LEMMA NextKeeps == IInv /\ [Next]_vars => IInv'
  <1> SUFFICES ASSUME IInv, [Next]_vars PROVE IInv'
    OBVIOUS
  <1>1. ASSUME NEW p \in Process, Start(p) PROVE IInv'
    BY <1>1, LoadKeeps, DraftKeeps, TruncateKeeps, SaveKeeps, LoadReadOnlyKeeps, LaunchKeeps,
       BootKeeps DEF Start
  <1>2. ASSUME NEW p \in Process, Exit(p) PROVE IInv'
    BY <1>2, ExitKeeps
  <1>3. CASE RemoveConfig
    BY <1>3, RemoveConfigKeeps
  <1>4. CASE UNCHANGED vars
    BY <1>4 DEF vars, IInv, TypeOK, Drafts, Alone, Filled, Orphans, DefaultsSaved,
       BackendLoaded, RootTokenAgrees, OverrideStaysLocal, Initialising, Loaded,
       Contents, applyDefaults
  <1> QED
    BY <1>1, <1>2, <1>3, <1>4 DEF Next

-----------------------------------------------------------------------------
\* The inductive invariant holds in every reachable state.
THEOREM Invariance == Spec => []IInv
  BY InitHolds, NextKeeps, PTL DEF Spec

\* Every process is at a station of its start-up with a well-formed Config, and
\* one that has loaded its Config has a backend (config.go:213-266).
THEOREM TypeCorrect == Spec => []TypeOK
  <1>1. IInv => TypeOK
    BY DEF IInv
  <1> QED
    BY <1>1, Invariance, PTL

\* Whatever runs on the file's token holds the file's token, for any number of
\* daemons and clients, unless first runs overlapped, one was cut off in Save
\* or the file was deleted under them (config.go:213-237).
THEOREM TokenAgreement == Spec => []RootTokenAgrees
  <1>1. IInv => RootTokenAgrees
    BY DEF IInv
  <1> QED
    BY <1>1, Invariance, PTL

\* CRATE_TOKEN never reaches config.yaml (config.go:216-224).
THEOREM OverrideIsLocal == Spec => []OverrideStaysLocal
  <1>1. IInv => OverrideStaysLocal
    BY DEF IInv
  <1> QED
    BY <1>1, Invariance, PTL

\* Daemons under one file and one environment use one backend, overlapping and
\* interrupted first runs included (config.go:213-266).
THEOREM OneBackend == Spec => []RolesShareBackend
  <1>1. IInv => RolesShareBackend
    BY DEF IInv, BackendLoaded, RolesShareBackend, Process
  <1> QED
    BY <1>1, Invariance, PTL

\* A root token in the file is replaced by nobody: it goes when the operator
\* deletes the file, unless a first run overlapped another start
\* (config.go:213-237).
THEOREM TokenIsKept == Spec => TokenPersists
  <1> DEFINE Kept == file.token # 0 /\ past' \cap {"overlap", "removed"} = {}
                        => file' \in {file, Missing}
  <1>1. ASSUME IInv, [Next]_vars PROVE Kept
    <2>1. ASSUME NEW p \in Process, Truncate(p) \/ Save(p) PROVE Kept
      BY <1>1, <2>1 DEF IInv, TypeOK, Alone, Orphans, Initialising, Truncate, Save
    <2>2. ASSUME NEW p \in Process,
                 Launch(p) \/ LoadOrInit(p) \/ LoadReadOnly(p) \/ Boot(p) \/ Exit(p)
          PROVE  Kept
      BY <2>2 DEF Launch, LoadOrInit, LoadReadOnly, Boot, Exit
    <2>3. CASE RemoveConfig
      BY <2>3 DEF RemoveConfig
    <2>4. CASE UNCHANGED vars
      BY <2>4 DEF vars
    <2> QED
      BY <1>1, <2>1, <2>2, <2>3, <2>4 DEF Next, Start
  <1>2. IInv /\ [Next]_vars => [Kept]_vars
    BY <1>1
  <1> QED
    BY <1>2, Invariance, PTL DEF Spec, TokenPersists
================================================================================
