-------------------------------- MODULE Startup --------------------------------
(***************************************************************************)
(* Several processes of ghp that start on one SQL store: Run of            *)
(* internal/server/server.go from opening the store to serving, with the   *)
(* migrations of internal/database/migrate.go, the seeding of the default  *)
(* app, the backfill of app ids into agent tokens and the load of the app  *)
(* registry; and the command "ghp migrate".  A process that fails or is    *)
(* stopped is started again, possibly from a newer binary.                 *)
(*                                                                         *)
(* A process that serves handles the requests that change what others see  *)
(* when they start: apps created and deleted, agent tokens created, tokens *)
(* purged.  Private keys are all usable here; AppRegistry has the others.  *)
(***************************************************************************)
EXTENDS Naturals, FiniteSets, FiniteSetsExt, Sequences

CONSTANTS
  Process,
  Files,        \* migrations embedded in the newest binary, numbered in order
  OldFiles,     \* migrations embedded in the oldest binary in use
  AppsFile,     \* the migration that creates the table apps (004_add_apps)
  Config,       \* the github section to consider: "none" (no app_id),
                \* "keyless" (no private key) or "full"
  Mode,         \* how a process is started: "serve", "migrate" (serve
                \* --migrate) or "command" (ghp migrate)
  Token,        \* agent tokens
  OldToken,     \* those that are older than the apps
  MaxRequests,  \* bound: apps created or deleted by requests
  MaxFailures,  \* bound: processes stopped or killed, and failing calls of the store
  Unassigned,   \* a token whose app_id is NULL
  None          \* no app, no token, no table

ASSUME FilesAssumption  == Files \in Nat /\ OldFiles \in 1..Files /\ AppsFile \in 1..OldFiles
ASSUME ConfigAssumption == Config \subseteq {"none", "keyless", "full"}
ASSUME ModeAssumption   == Mode \subseteq {"serve", "migrate", "command"}
ASSUME TokenAssumption  == OldToken \subseteq Token
ASSUME BoundAssumption  == {MaxRequests, MaxFailures} \subseteq Nat

\* Apps in the order of their creation.  One more is seeded than is deleted.
App == 1..MaxRequests + 1

ASSUME NoneAssumption ==
  /\ None \notin App \cup {Unassigned}
  /\ None \notin {"plain", "default"}
  /\ \A S \in SUBSET (1..Files) : S # None
  /\ Unassigned \notin App

VARIABLES
  config,    \* the github section of the configuration
  mode,      \* how each process is started
  schema,    \* history: the migrations executed, in the order of their commits
  ledger,    \* the rows of schema_migrations, or None: there is no such table
  apps,      \* each record of an app: absent, or default, or not
  next,      \* the next new record
  tokens,    \* the app_id of each token, or None: there is no such row
  proc,      \* each process
  requests,  \* history: for the bounds
  failures

vars == <<config, mode, schema, ledger, apps, next, tokens, proc, requests, failures>>

database == <<schema, ledger, apps, next, tokens>>

bounds == <<requests, failures>>

\* A process: the migrations of its binary; those it found pending; the tokens
\* it has still to assign, and the app it seeded; its registry (providers and
\* defaultID) and whether a request has yet to reload it; the provider given to
\* the proxy; and whether the legacy provider of the API is set.  Two fields are
\* history: the pending migrations were read; no call of the store has failed
\* and no app was deleted since it started.
State == {"down", "check", "ensure", "read", "run", "seed", "create", "tokens",
          "backfill", "load", "up"}

ProcessType ==
  [pc : State, files : OldFiles..Files, pending : SUBSET (1..Files), todo : SUBSET Token,
   seeded : App \cup {None}, providers : SUBSET App, defaultID : App \cup {None},
   reload : BOOLEAN, wired : {"registry", "config", "nothing"}, legacy : BOOLEAN,
   checked : BOOLEAN, clean : BOOLEAN]

Down(files) ==
  [pc |-> "down", files |-> files, pending |-> {}, todo |-> {}, seeded |-> None,
   providers |-> {}, defaultID |-> None, reload |-> FALSE, wired |-> "nothing",
   legacy |-> FALSE, checked |-> FALSE, clean |-> TRUE]

TypeOK ==
  /\ config \in Config
  /\ mode \in [Process -> Mode]
  /\ schema \in Seq(1..Files)
  /\ ledger \in {None} \cup SUBSET (1..Files)
  /\ apps \in [App -> {"plain", "default", None}]
  /\ next \in 1..MaxRequests + 2
  /\ tokens \in [Token -> App \cup {Unassigned, None}]
  /\ proc \in [Process -> ProcessType]
  /\ requests \in 0..MaxRequests
  /\ failures \in 0..MaxFailures

\* A new database, or that of a release that had no apps: with its tokens.
Init ==
  /\ config \in Config
  /\ mode \in [Process -> Mode]
  /\ \E n \in 0..AppsFile - 1 :
       /\ schema = [m \in 1..n |-> m]
       /\ ledger = IF n = 0 THEN None ELSE 1..n
       /\ tokens = [t \in Token |-> IF n > 0 /\ t \in OldToken THEN Unassigned ELSE None]
  /\ apps = [a \in App |-> None]
  /\ next = 1
  /\ proc \in [Process -> {Down(n) : n \in OldFiles..Files}]
  /\ requests = 0 /\ failures = 0

-----------------------------------------------------------------------------
(* Tables.                                                                 *)

\* The tables apps and the column proxy_tokens.app_id exist.
HasApps == \E n \in DOMAIN schema : schema[n] = AppsFile

Present == {a \in App : apps[a] # None}

DefaultRows == {a \in Present : apps[a] = "default"}

\* INSERT INTO apps: the unique index apps_single_default.
Conflict(row) == row = "default" /\ DefaultRows # {}

\* Mutant of References: proxy_tokens.app_id has no foreign key, or SQLite does
\* not enforce it (PRAGMA foreign_keys).
ReferencesAny(a) == TRUE

\* INSERT and UPDATE of proxy_tokens: the foreign key app_id.
References(a) == a \in Present \cup {Unassigned}

-----------------------------------------------------------------------------
(* Steps of one process, up to serving.                                    *)

Goto(p, s) == proc' = [proc EXCEPT ![p] = s]

Step(p, pc) == Goto(p, [proc[p] EXCEPT !.pc = pc])

Exit(p) == Goto(p, Down(proc[p].files))

\* The process is started, by systemd or by an operator.  The binary may have
\* been upgraded.
Start(p) ==
  /\ proc[p].pc = "down"
  /\ \E n \in proc[p].files..Files :
       Goto(p, [Down(n) EXCEPT !.pc = IF mode[p] = "serve" THEN "check" ELSE "ensure"])
  /\ UNCHANGED <<config, mode, database, bounds>>

\* EnsureMigrationsTable.
EnsureTable(p) ==
  /\ proc[p].pc = "ensure"
  /\ ledger' = IF ledger = None THEN {} ELSE ledger
  /\ Step(p, "read")
  /\ UNCHANGED <<config, mode, schema, apps, next, tokens, bounds>>

\* Mutant of Pending: the rows of schema_migrations are not looked at.
PendingAll(files) == 1..files

\* PendingMigrations: the files without a row.
Pending(files) == (1..files) \ ledger

ReadPending(p) ==
  /\ proc[p].pc = "read"
  /\ Goto(p, [proc[p] EXCEPT !.pc = "run", !.pending = Pending(proc[p].files),
                             !.checked = TRUE])
  /\ UNCHANGED <<config, mode, database, bounds>>

\* Mutant of Recorded: schema_migrations has no primary key.
RecordedNever(m) == FALSE

\* The record exists already: the transaction is rolled back.
Recorded(m) == m \in ledger

\* Mutant of Refuse: another process is at work, and this one goes on.
RefuseGoOn(p) == Step(p, "seed")

\* The first error ends the process.
Refuse(p) == Exit(p)

\* RunMigration for the next pending migration: the script and its record, in one
\* transaction.
RunMigration(p) ==
  LET m == Min(proc[p].pending)
  IN  /\ proc[p].pc = "run"
      /\ proc[p].pending # {}
      /\ \/ /\ ~Recorded(m)
            /\ schema' = Append(schema, m)
            /\ ledger' = ledger \cup {m}
            /\ Goto(p, [proc[p] EXCEPT !.pending = @ \ {m}])
         \/ /\ Recorded(m)
            /\ Refuse(p)
            /\ UNCHANGED <<schema, ledger>>
      /\ UNCHANGED <<config, mode, apps, next, tokens, bounds>>

Migrated(p) ==
  /\ proc[p].pc = "run"
  /\ proc[p].pending = {}
  /\ IF mode[p] = "command" THEN Exit(p) ELSE Step(p, "seed")
  /\ UNCHANGED <<config, mode, database, bounds>>

\* Without --migrate: the process ends when migrations are pending.  That there
\* is no table schema_migrations is an error of the query, and only logged.
CheckPending(p) ==
  /\ proc[p].pc = "check"
  /\ \/ /\ ledger = None
        /\ Step(p, "seed")
     \/ /\ ledger # None
        /\ IF Pending(proc[p].files) = {}
             THEN Goto(p, [proc[p] EXCEPT !.pc = "seed", !.checked = TRUE])
             ELSE Exit(p)
  /\ UNCHANGED <<config, mode, database, bounds>>

\* seedDefaultApp as far as its look at the existing apps.
SeedList(p) ==
  /\ proc[p].pc = "seed"
  /\ \/ config # "none" /\ ~HasApps /\ Goto(p, [proc[p] EXCEPT !.pc = "load", !.clean = FALSE])
     \/ config = "full" /\ HasApps /\ Present = {} /\ Step(p, "create")
     \/ config = "none" /\ Step(p, "load")
     \/ config # "none" /\ HasApps /\ (config = "keyless" \/ Present # {}) /\ Step(p, "load")
  /\ UNCHANGED <<config, mode, database, bounds>>

\* Mutant of AfterRefusal: the start-up does not look at the table again.
AfterRefusalConfig(s) == [s EXCEPT !.pc = "up", !.wired = "config", !.legacy = TRUE]

\* The error of seedDefaultApp is logged.
AfterRefusal(s) == [s EXCEPT !.pc = "load"]

\* The creation of the default app.  Another process may have been faster.
SeedCreate(p) ==
  /\ proc[p].pc = "create"
  /\ \/ /\ ~Conflict("default")
        /\ apps' = [apps EXCEPT ![next] = "default"]
        /\ next' = next + 1
        /\ Goto(p, [proc[p] EXCEPT !.pc = "tokens", !.seeded = next])
     \/ /\ Conflict("default")
        /\ Goto(p, AfterRefusal(proc[p]))
        /\ UNCHANGED <<apps, next>>
  /\ UNCHANGED <<config, mode, schema, ledger, tokens, bounds>>

\* backfillTokenAppID: the tokens without an app.
ListTokens(p) ==
  /\ proc[p].pc = "tokens"
  /\ Goto(p, [proc[p] EXCEPT !.pc = "backfill",
                             !.todo = {t \in Token : tokens[t] = Unassigned}])
  /\ UNCHANGED <<config, mode, database, bounds>>

\* Mutant of AfterMiss: the first token that cannot be updated ends the loop.
AfterMissReturn(s, t) == [s EXCEPT !.pc = "load", !.todo = {}]

AfterMiss(s, t) == [s EXCEPT !.todo = @ \ {t}]

\* UpdateProxyTokenAppID.  The token may be gone, and the app too.
BackfillToken(p) ==
  LET s == proc[p]
  IN  /\ s.pc = "backfill"
      /\ \E t \in s.todo :
           \/ /\ tokens[t] # None /\ References(s.seeded)
              /\ tokens' = [tokens EXCEPT ![t] = s.seeded]
              /\ Goto(p, [s EXCEPT !.todo = @ \ {t}])
           \/ /\ ~(tokens[t] # None /\ References(s.seeded))
              /\ Goto(p, AfterMiss(s, t))
              /\ UNCHANGED tokens
      /\ UNCHANGED <<config, mode, schema, ledger, apps, next, bounds>>

Backfilled(p) ==
  /\ proc[p].pc = "backfill"
  /\ proc[p].todo = {}
  /\ Step(p, "load")
  /\ UNCHANGED <<config, mode, database, bounds>>

\* The app that GetDefault and DefaultOrOnlyID answer with.
DefaultOrOnly(s) ==
  CASE s.defaultID # None             -> s.defaultID
    [] Cardinality(s.providers) = 1   -> CHOOSE a \in s.providers : TRUE
    [] OTHER                          -> None

\* LoadAll and Reload: the providers and the default of the table.
Loaded(s) ==
  [s EXCEPT !.providers = Present,
            !.defaultID = IF DefaultRows = {} THEN None ELSE Max(DefaultRows)]

\* The provider of the proxy, when there is no app in the table: the registry,
\* the app of the configuration, or no provider.
Fallback == CASE config = "none"    -> "registry"
              [] config = "full"    -> "config"
              [] config = "keyless" -> "nothing"

\* The choice of the provider, and of the legacy one.
Wired(s) ==
  LET w == IF s.providers = {} THEN Fallback ELSE "registry"
  IN  [s EXCEPT !.wired = w,
                !.legacy = w = "config" \/ DefaultOrOnly(s) # None]

\* Without the table, the load fails; the registry is wired for a later one.
LoadFailed(s) == [s EXCEPT !.pc = "up", !.wired = "registry", !.clean = FALSE]

Load(p) ==
  /\ proc[p].pc = "load"
  /\ Goto(p, IF HasApps THEN [Wired(Loaded(proc[p])) EXCEPT !.pc = "up"]
                        ELSE LoadFailed(proc[p]))
  /\ UNCHANGED <<config, mode, database, bounds>>

\* A call of the store fails.  While migrations run this ends the process; the
\* check of the migrations, the seeding and the load are only logged.
Fault(p) ==
  LET s == [proc[p] EXCEPT !.clean = FALSE]
  IN  /\ failures < MaxFailures
      /\ failures' = failures + 1
      /\ \/ s.pc \in {"ensure", "read", "run"} /\ Exit(p)
         \/ s.pc = "check" /\ Goto(p, [s EXCEPT !.pc = "seed"])
         \/ s.pc \in {"seed", "create", "tokens"} /\ config # "none"
              /\ Goto(p, [s EXCEPT !.pc = "load"])
         \/ s.pc = "backfill" /\ \E t \in s.todo : Goto(p, AfterMiss(s, t))
         \/ s.pc = "load" /\ Goto(p, LoadFailed(s))
         \/ s.pc = "up" /\ s.reload /\ Goto(p, [s EXCEPT !.reload = FALSE])
      /\ UNCHANGED <<config, mode, database, requests>>

\* The process is stopped or killed, or crashes.
Stop(p) ==
  /\ proc[p].pc # "down"
  /\ failures < MaxFailures
  /\ failures' = failures + 1
  /\ Exit(p)
  /\ UNCHANGED <<config, mode, database, requests>>

-----------------------------------------------------------------------------
(* Requests to a process that serves.                                      *)

\* One request at a time changes the apps: AppRegistry has those that overlap.
Admin(p) ==
  /\ proc[p].pc = "up"
  /\ ~proc[p].reload
  /\ HasApps
  /\ requests < MaxRequests
  /\ requests' = requests + 1

\* handleCreateApp without is_default, as far as its reload.
CreateApp(p) ==
  /\ Admin(p)
  /\ apps' = [apps EXCEPT ![next] = "plain"]
  /\ next' = next + 1
  /\ Goto(p, [proc[p] EXCEPT !.reload = TRUE])
  /\ UNCHANGED <<config, mode, schema, ledger, tokens, failures>>

\* handleDeleteApp as far as its reload.  ON DELETE SET NULL.
DeleteApp(p) ==
  /\ Admin(p)
  /\ \E a \in Present :
       /\ apps' = [apps EXCEPT ![a] = None]
       /\ tokens' = [t \in Token |-> IF tokens[t] = a THEN Unassigned ELSE tokens[t]]
  /\ proc' = [q \in Process |-> [proc[q] EXCEPT !.clean = FALSE,
                                                !.reload = @ \/ q = p]]
  /\ UNCHANGED <<config, mode, schema, ledger, next, failures>>

\* The reload that ends both.  Only the process that served the request has it.
Reload(p) ==
  /\ proc[p].reload
  /\ Goto(p, [Loaded(proc[p]) EXCEPT !.reload = FALSE])
  /\ UNCHANGED <<config, mode, database, bounds>>

\* handleCreateToken for an agent token, with or without app_record_id.
Selectable(s) ==
  IF s.providers = {} THEN {Unassigned}
                      ELSE (s.providers \cap Present) \cup ({DefaultOrOnly(s)} \ {None})

CreateToken(p, t) ==
  /\ proc[p].pc = "up"
  /\ HasApps
  /\ tokens[t] = None
  /\ t \notin OldToken
  /\ proc[p].providers # {} \/ proc[p].legacy
  /\ \E a \in Selectable(proc[p]) :
       /\ References(a)
       /\ tokens' = [tokens EXCEPT ![t] = a]
  /\ UNCHANGED <<config, mode, schema, ledger, apps, next, proc, bounds>>

\* The clean-up of expired and revoked tokens.
Purge(p) ==
  /\ proc[p].pc = "up"
  /\ \E t \in Token :
       /\ tokens[t] # None
       /\ tokens' = [tokens EXCEPT ![t] = None]
  /\ UNCHANGED <<config, mode, schema, ledger, apps, next, proc, bounds>>

-----------------------------------------------------------------------------
Boot(p) ==
  \/ EnsureTable(p) \/ ReadPending(p) \/ RunMigration(p) \/ Migrated(p)
  \/ CheckPending(p) \/ SeedList(p) \/ SeedCreate(p) \/ ListTokens(p)
  \/ BackfillToken(p) \/ Backfilled(p) \/ Load(p)

Serve(p) ==
  \/ CreateApp(p) \/ DeleteApp(p) \/ Reload(p)
  \/ \E t \in Token : CreateToken(p, t)
  \/ Purge(p)

Next == \E p \in Process : Start(p) \/ Boot(p) \/ Fault(p) \/ Stop(p) \/ Serve(p)

Spec == Init /\ [][Next]_vars

\* The go runtime runs a process on, and systemd starts it again when it fails
\* (packaging/systemd/ghp.service).  Nobody has to run "ghp migrate".
Fairness == \A p \in Process : /\ WF_vars(Boot(p))
                               /\ WF_vars(mode[p] # "command" /\ Start(p))

FairSpec == Spec /\ Fairness

-----------------------------------------------------------------------------
(* Properties.                                                             *)

\* Whatever processes of different versions migrate at once, fail or are killed,
\* every migration is executed once and in order, and schema_migrations says
\* exactly which.
SchemaIsWhole ==
  /\ schema = [m \in 1..Len(schema) |-> m]
  /\ ledger # None => ledger = 1..Len(schema)
  /\ ledger = None => schema = <<>>

\* A process that serves, and could read what is pending, has the schema of its
\* own version, also when another process did the work or broke it off.
ServesOnItsSchema ==
  \A p \in Process :
    proc[p].pc = "up" /\ proc[p].checked => proc[p].files <= Len(schema)

\* Processes that start together on an empty table, and find it empty together,
\* seed one default app.
SeededOnce == \A a, b \in DefaultRows : a = b

\* An agent token never names an app that is not there: neither does the
\* backfill write an app that was deleted after it was seeded, nor a process
\* that has not heard of the deletion.
TokensNameApps ==
  \A t \in Token : tokens[t] \in App => tokens[t] \in Present

\* A start in which no call failed and during which no app was deleted ends with
\* a registry that serves every token that names an app, also when another
\* process seeded the app that this one wanted to seed.
CleanStartServes ==
  [][\A p \in Process :
       proc[p].pc # "up" /\ proc'[p].pc = "up" /\ proc'[p].clean /\ config = "full" =>
         /\ proc'[p].wired = "registry"
         /\ proc'[p].providers # {}
         /\ \A t \in Token : tokens[t] \in App => tokens[t] \in proc'[p].providers]_vars

\* A start that seeds, and in which no call failed and during which no app was
\* deleted, leaves no older token without an app, also when tokens are purged
\* while it goes through them.
BackfillIsWhole ==
  [][\A p \in Process :
       proc[p].pc = "backfill" /\ proc'[p].pc = "load" /\ proc[p].clean =>
         \A t \in OldToken : tokens[t] # Unassigned]_vars

\* A process that is started with --migrate serves in the end, whoever else
\* migrates and makes its own attempts fail.
MigratingServes ==
  \A p \in Process : mode[p] = "migrate" ~> proc[p].pc = "up"

=============================================================================
