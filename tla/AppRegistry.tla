----------------------------- MODULE AppRegistry -----------------------------
(***************************************************************************)
(* GitHub Apps: the apps table, the admin handlers that change it          *)
(* (internal/server/api.go) and the registry of token providers that one   *)
(* instance builds from it (internal/github/registry.go), at start-up and  *)
(* after every change.  The table is either in a SQL store, where each     *)
(* store method is one statement or one transaction, or in Vault KV v2,    *)
(* where it is a sequence of reads and blind writes of one key.            *)
(*                                                                         *)
(* Of a record the model keeps the private key, which stands for all the   *)
(* fields that a provider is built from, and is_default.                   *)
(***************************************************************************)
EXTENDS Integers, FiniteSetsExt

CONSTANTS
  Backend,     \* stores to consider: a subset of {"sql", "vault"}
  Config,      \* configurations to consider: a subset of {"none", "keyless",
               \* "full"} (github.app_id unset, set without and with a key)
  MaxApps,     \* bound: records ever created
  MaxRequests, \* bound: admin requests ever begun
  Key,         \* private keys
  BadKey,      \* keys that NewAppTokenProvider refuses
  ConfigKey,   \* github.private_key of a "full" configuration
  Admin,       \* goroutines serving POST, PUT and DELETE /api/apps
  None         \* an absent record, provider or default

ASSUME BackendAssumption == Backend \subseteq {"sql", "vault"}
ASSUME ConfigAssumption  == Config \subseteq {"none", "keyless", "full"}
ASSUME BoundAssumption   == MaxApps \in Nat /\ MaxRequests \in Nat
ASSUME KeyAssumption     == BadKey \subseteq Key /\ ConfigKey \in Key \ BadKey

Row == [key : Key, def : BOOLEAN]

ASSUME NoneAssumption    == None \notin Nat /\ None \notin Key /\ None \notin Row

\* Record ids in the order of created_at; a new record gets a new UUID.
App == 1..MaxApps

VARIABLES
  backend,     \* the store this deployment uses
  config,      \* its configuration
  rows,        \* the apps table
  next,        \* the id of the next record
  begun,       \* history: admin requests begun, for the bound
  state,       \* life cycle of the instance
  wired,       \* the AppTokenProvider that Run gives to the proxy
  providers,   \* AppRegistry.providers: the key each provider was built from
  defaultID,   \* AppRegistry.defaultID
  req,         \* progress of each admin request
  settled      \* history: the last thing to happen was a start-up, or a request
               \* that met no other one, that ran to its end

vars == <<backend, config, rows, next, begun, state, wired, providers, defaultID, req, settled>>

instanceVars == <<state, wired, providers, defaultID>>

Table == [App -> Row \cup {None}]

NoRows == [a \in App |-> None]

NoProviders == [a \in App |-> None]

\* A request: the record it is about; is_default of its body; the record it is
\* going to write; the keys still to be read and the records read by ListApps,
\* and what they are for; and whether it has met another request.
Fields == [pc : {"update", "write", "promote", "set", "list", "get", "clear",
                 "apply", "delete", "remove", "refused"},
           app : App, def : {"true", "false", "omitted"},
           copy : Row \cup {None}, todo : SUBSET App, listed : Table,
           for : {"clear", "apply"}, alone : BOOLEAN]

Request == {q \in Fields : q.pc \in {"update", "write", "set"} => q.copy # None}

Idle == [pc |-> "idle", app |-> None, def |-> "omitted", copy |-> None,
         todo |-> {}, listed |-> NoRows, for |-> "apply", alone |-> FALSE]

TypeOK ==
  /\ backend \in Backend
  /\ config \in Config
  /\ rows \in Table
  /\ next \in 1..MaxApps + 1
  /\ begun \in 0..MaxRequests
  /\ state \in {"down", "loading", "up"}
  /\ wired \in {"registry", "config", "nothing"}
  /\ providers \in [App -> Key \cup {None}]
  /\ defaultID \in App \cup {None}
  /\ req \in [Admin -> Request \cup {Idle}]
  /\ settled \in BOOLEAN

Init ==
  /\ backend \in Backend
  /\ config \in Config
  /\ rows = NoRows
  /\ next = 1
  /\ begun = 0
  /\ state = "down"
  /\ wired = "nothing"
  /\ providers = NoProviders
  /\ defaultID = None
  /\ req = [r \in Admin |-> Idle]
  /\ settled = FALSE

-----------------------------------------------------------------------------
(* The registry.                                                           *)

Present(t) == {a \in App : t[a] # None}

\* loadAppLocked succeeds.
Loadable(row) == row.key \notin BadKey

Loaded(t) == {a \in Present(t) : Loadable(t[a])}

\* Mutant of Rebuilt: a provider that cannot be rebuilt is left as it was.
RebuiltKeepsFailed(old, t) ==
  [a \in App |-> IF a \in Loaded(t) THEN t[a].key
                 ELSE IF a \in Present(t) THEN old[a] ELSE None]

\* The loop over the listed records, and the removal of all others.
Rebuilt(old, t) ==
  [a \in App |-> IF a \in Loaded(t) THEN t[a].key ELSE None]

\* The loop runs in the order of created_at and every default overwrites the one
\* before it; a record that cannot be loaded is skipped.
DefaultOf(t) ==
  LET D == {a \in Loaded(t) : t[a].def}
  IN  IF D = {} THEN None ELSE Max(D)

-----------------------------------------------------------------------------
(* Start-up and crashes.                                                   *)

\* seedDefaultApp, when the store has no record.  A store failure is logged.
Seed ==
  /\ state = "down"
  /\ state' = "loading"
  /\ \/ /\ config = "full"
        /\ rows = NoRows
        /\ next \in App
        /\ rows' = [rows EXCEPT ![next] = [key |-> ConfigKey, def |-> TRUE]]
        /\ next' = next + 1
     \/ UNCHANGED <<rows, next>>
  /\ UNCHANGED <<backend, config, begun, wired, providers, defaultID, req, settled>>

\* The choice of the provider for the proxy when LoadAll has found no record.
Fallback == CASE config = "none"    -> "registry"
              [] config = "full"    -> "config"
              [] config = "keyless" -> "nothing"

\* LoadAll, and the choice of the provider.
LoadAll ==
  /\ state = "loading"
  /\ state' = "up"
  /\ \/ /\ providers' = Rebuilt(NoProviders, rows)
        /\ defaultID' = DefaultOf(rows)
        /\ wired' = IF rows = NoRows THEN Fallback ELSE "registry"
        /\ settled' = TRUE
     \/ /\ wired' = "registry"
        /\ UNCHANGED <<providers, defaultID, settled>>
  /\ UNCHANGED <<backend, config, begun, rows, next, req>>

Crash ==
  /\ state = "up"
  /\ state' = "down"
  /\ wired' = "nothing"
  /\ providers' = NoProviders
  /\ defaultID' = None
  /\ req' = [r \in Admin |-> Idle]
  /\ settled' = FALSE
  /\ UNCHANGED <<backend, config, begun, rows, next>>

-----------------------------------------------------------------------------
(* Admin requests.                                                         *)

\* A request gets to its first use of the store.
Begin(r, first) ==
  LET others == {q \in Admin \ {r} : req[q] # Idle}
  IN  /\ state = "up"
      /\ req[r] = Idle
      /\ begun < MaxRequests
      /\ begun' = begun + 1
      /\ req' = [q \in Admin |->
                   IF q = r THEN [first EXCEPT !.alone = (others = {})]
                   ELSE IF q \in others THEN [req[q] EXCEPT !.alone = FALSE]
                   ELSE req[q]]
      /\ settled' = FALSE

Goto(r, next_) == req' = [req EXCEPT ![r] = next_]

\* The request goes on to Reload.
ToReload(q) == [q EXCEPT !.pc = "list", !.for = "apply", !.copy = None,
                         !.todo = {}, !.listed = NoRows]

\* handleCreateApp: the record is inserted without the flag.
Create(r, key, def) ==
  LET first == [Idle EXCEPT !.app = next, !.def = IF def THEN "true" ELSE "false",
                            !.pc = IF def THEN "promote" ELSE "list"]
  IN  /\ next \in App
      /\ Begin(r, first)
      /\ rows' = [rows EXCEPT ![next] = [key |-> key, def |-> FALSE]]
      /\ next' = next + 1
      /\ UNCHANGED <<backend, config, instanceVars>>

\* Mutant of Merge: is_default is not a pointer in updateAppRequest.
MergeZeroValue(row, key, def) ==
  [key |-> IF key = None THEN row.key ELSE key, def |-> def = "true"]

\* The fields that the body names replace those of the record.
Merge(row, key, def) ==
  [key |-> IF key = None THEN row.key ELSE key,
   def |-> IF def = "omitted" THEN row.def ELSE def = "true"]

\* handleUpdateApp as far as GetAppByID and the merge.
UpdateRead(r, a, key, def) ==
  /\ rows[a] # None
  /\ Begin(r, [Idle EXCEPT !.pc = "update", !.app = a, !.def = def,
                           !.copy = Merge(rows[a], key, def)])
  /\ UNCHANGED <<backend, config, rows, next, instanceVars>>

\* After UpdateApp.
Updated(q) == IF q.copy.def THEN [q EXCEPT !.pc = "promote", !.copy = None]
              ELSE ToReload(q)

\* The unique index apps_single_default.
Conflict(a, row) == row.def /\ \E b \in Present(rows) \ {a} : rows[b].def

\* UPDATE apps SET ... WHERE id = ?
SqlUpdate(r) ==
  LET q == req[r]
  IN  /\ backend = "sql"
      /\ q.pc = "update"
      /\ rows[q.app] # None
      /\ \/ /\ ~Conflict(q.app, q.copy)
            /\ rows' = [rows EXCEPT ![q.app] = q.copy]
            /\ Goto(r, Updated(q))
         \/ /\ Conflict(q.app, q.copy)
            /\ UNCHANGED rows
            /\ Goto(r, [q EXCEPT !.pc = "refused"])
      /\ UNCHANGED <<backend, config, begun, next, instanceVars, settled>>

\* VaultStore.UpdateApp: the record exists; then it is overwritten.
VaultUpdateCheck(r) ==
  /\ backend = "vault"
  /\ req[r].pc = "update"
  /\ rows[req[r].app] # None
  /\ Goto(r, [req[r] EXCEPT !.pc = "write"])
  /\ UNCHANGED <<backend, config, begun, rows, next, instanceVars, settled>>

VaultUpdateWrite(r) ==
  LET q == req[r]
  IN  /\ q.pc = "write"
      /\ rows' = [rows EXCEPT ![q.app] = q.copy]
      /\ Goto(r, Updated(q))
      /\ UNCHANGED <<backend, config, begun, next, instanceVars, settled>>

\* SQLiteStore.SetDefaultApp, one transaction.
SqlPromote(r) ==
  LET q == req[r]
  IN  /\ backend = "sql"
      /\ q.pc = "promote"
      /\ rows[q.app] # None
      /\ rows' = [a \in App |-> IF rows[a] = None THEN None
                                ELSE [rows[a] EXCEPT !.def = (a = q.app)]]
      /\ Goto(r, ToReload(q))
      /\ UNCHANGED <<backend, config, begun, next, instanceVars, settled>>

\* VaultStore.SetDefaultApp: read the target, write it back with the flag, list
\* all records, and write back those that have the flag without it.
VaultPromoteRead(r) ==
  LET q == req[r]
  IN  /\ backend = "vault"
      /\ q.pc = "promote"
      /\ rows[q.app] # None
      /\ Goto(r, [q EXCEPT !.pc = "set", !.copy = rows[q.app]])
      /\ UNCHANGED <<backend, config, begun, rows, next, instanceVars, settled>>

VaultPromoteSet(r) ==
  LET q == req[r]
  IN  /\ q.pc = "set"
      /\ rows' = [rows EXCEPT ![q.app] = [q.copy EXCEPT !.def = TRUE]]
      /\ Goto(r, [q EXCEPT !.pc = "list", !.for = "clear", !.copy = None])
      /\ UNCHANGED <<backend, config, begun, next, instanceVars, settled>>

\* Mutant of ToClear: the target is not left out.
ToClearAll(q) == {a \in Present(q.listed) : q.listed[a].def}

ToClear(q) == {a \in Present(q.listed) \ {q.app} : q.listed[a].def}

VaultClear(r) ==
  LET q == req[r]
  IN  /\ q.pc = "clear"
      /\ \/ \E a \in ToClear(q) :
              /\ rows' = [rows EXCEPT ![a] = [q.listed[a] EXCEPT !.def = FALSE]]
              /\ Goto(r, [q EXCEPT !.listed[a] = None])
         \/ /\ ToClear(q) = {}
            /\ UNCHANGED rows
            /\ Goto(r, ToReload(q))
      /\ UNCHANGED <<backend, config, begun, next, instanceVars, settled>>

\* ListApps: one query, or the list of keys and one read for each of them.
SqlList(r) ==
  /\ backend = "sql"
  /\ req[r].pc = "list"
  /\ Goto(r, [req[r] EXCEPT !.pc = "apply", !.listed = rows])
  /\ UNCHANGED <<backend, config, begun, rows, next, instanceVars, settled>>

VaultList(r) ==
  /\ backend = "vault"
  /\ req[r].pc = "list"
  /\ Goto(r, [req[r] EXCEPT !.pc = "get", !.todo = Present(rows), !.listed = NoRows])
  /\ UNCHANGED <<backend, config, begun, rows, next, instanceVars, settled>>

VaultGet(r) ==
  LET q == req[r]
  IN  /\ q.pc = "get"
      /\ \/ \E a \in q.todo :
              Goto(r, [q EXCEPT !.todo = @ \ {a}, !.listed[a] = rows[a]])
         \/ /\ q.todo = {}
            /\ Goto(r, [q EXCEPT !.pc = q.for])
      /\ UNCHANGED <<backend, config, begun, rows, next, instanceVars, settled>>

\* Reload under its lock, and the end of the request.
Apply(r) ==
  LET q == req[r]
  IN  /\ q.pc = "apply"
      /\ providers' = Rebuilt(providers, q.listed)
      /\ defaultID' = DefaultOf(q.listed)
      /\ settled' = q.alone
      /\ Goto(r, Idle)
      /\ UNCHANGED <<backend, config, begun, rows, next, state, wired>>

\* handleDeleteApp.
DeleteStart(r, a) ==
  /\ a < next
  /\ Begin(r, [Idle EXCEPT !.pc = "delete", !.app = a])
  /\ UNCHANGED <<backend, config, rows, next, instanceVars>>

SqlDelete(r) ==
  LET q == req[r]
  IN  /\ backend = "sql"
      /\ q.pc = "delete"
      /\ rows[q.app] # None
      /\ rows' = [rows EXCEPT ![q.app] = None]
      /\ Goto(r, ToReload(q))
      /\ UNCHANGED <<backend, config, begun, next, instanceVars, settled>>

VaultDeleteCheck(r) ==
  LET q == req[r]
  IN  /\ backend = "vault"
      /\ q.pc = "delete"
      /\ rows[q.app] # None
      /\ Goto(r, [q EXCEPT !.pc = "remove"])
      /\ UNCHANGED <<backend, config, begun, rows, next, instanceVars, settled>>

VaultDelete(r) ==
  LET q == req[r]
  IN  /\ q.pc = "remove"
      /\ rows' = [rows EXCEPT ![q.app] = None]
      /\ Goto(r, ToReload(q))
      /\ UNCHANGED <<backend, config, begun, next, instanceVars, settled>>

\* A store call fails or finds no record, and the request ends with an error; or
\* ListApps fails in Reload, which is only logged.
GiveUp(r) ==
  /\ req[r] # Idle
  /\ req[r].pc # "apply"
  /\ Goto(r, Idle)
  /\ UNCHANGED <<backend, config, begun, rows, next, instanceVars, settled>>

-----------------------------------------------------------------------------
Serve(r) ==
  \/ \E key \in Key, def \in BOOLEAN : Create(r, key, def)
  \/ \E a \in App, key \in Key \cup {None}, def \in {"true", "false", "omitted"} :
       UpdateRead(r, a, key, def)
  \/ \E a \in App : DeleteStart(r, a)
  \/ SqlUpdate(r) \/ SqlPromote(r) \/ SqlList(r) \/ SqlDelete(r)
  \/ VaultUpdateCheck(r) \/ VaultUpdateWrite(r)
  \/ VaultPromoteRead(r) \/ VaultPromoteSet(r) \/ VaultClear(r)
  \/ VaultList(r) \/ VaultGet(r)
  \/ VaultDeleteCheck(r) \/ VaultDelete(r)
  \/ Apply(r)
  \/ GiveUp(r)

Next ==
  \/ Seed
  \/ LoadAll
  \/ Crash
  \/ \E r \in Admin : Serve(r)

Spec == Init /\ [][Next]_vars

-----------------------------------------------------------------------------
(* Properties.                                                             *)

Default(t) == {a \in Present(t) : t[a].def}

\* The SQL stores never hold two default apps, whatever requests overlap, fail
\* half-way or write back a record they read before another one was promoted.
SqlSingleDefault ==
  backend = "sql" => \A a, b \in Default(rows) : a = b

\* GetDefault never ends in "default app provider not found": also when the
\* private key of the default app is replaced by one that cannot be loaded, and
\* whichever listing a Reload applies.
DefaultIsLoaded ==
  defaultID # None => providers[defaultID] # None

\* After a start-up, or a request that met no other one and whose Reload was not
\* cut short, the registry is what the table says, whatever earlier requests
\* left behind: every app with a usable key has a provider built from that key,
\* no other app has one, and the default is an app that the table marks.
QuietReloadIsCurrent ==
  settled =>
    /\ \A a \in App : providers[a] # None <=> rows[a] # None /\ rows[a].key \notin BadKey
    /\ \A a \in App : providers[a] # None => providers[a] = rows[a].key
    /\ defaultID = None <=> ~\E a \in App : providers[a] # None /\ rows[a].def
    /\ defaultID # None => rows[defaultID].def

Alone == \A r \in Admin : req[r] # Idle => req[r].alone

\* Requests that do not overlap never lose the default app, neither when they
\* fail nor when the instance crashes between two of their writes, in Vault too:
\* only a request that clears the flag or deletes a record can.
DefaultIsNotLost ==
  [][Alone /\ Default(rows) # {} /\ Default(rows') = {}
       => \E r \in Admin : \/ req[r].pc \in {"update", "write"} /\ req[r].def = "false"
                           \/ req[r].pc \in {"delete", "remove"}]_vars

\* A promotion that met no other request and ran to its end leaves its app as
\* the only default app in the table, also when an earlier one had stopped
\* between its two writes in Vault.
PromotionWins ==
  [][\A r \in Admin :
       req[r].pc = "apply" /\ req[r].alone /\ req[r].def = "true" /\ settled'
         => Default(rows) = {req[r].app}]_vars

\* "Atomically enforce at most one default app after the field update succeeds.
\* SetDefaultApp clears all other defaults and sets this one": the update of an
\* administrator who is alone is not refused because there is another default.
PromotionIsNotRefused ==
  \A r \in Admin : req[r].pc = "refused" => ~req[r].alone

=============================================================================
