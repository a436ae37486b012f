------------------------------- MODULE Login -------------------------------
(***************************************************************************)
(* Signing in through GitHub (internal/auth/auth.go), the OAuth broker for *)
(* other services (internal/auth/broker.go), the sessions that come of it, *)
(* and the roles of users under configuration reloads                      *)
(* (internal/server/server.go, reloadConfig).  The store is a SQL one,     *)
(* with one statement a step; requests, reloads and cleanup interleave at  *)
(* these steps, each of which may fail.                                    *)
(*                                                                         *)
(* GitHub is modelled from its use: it refuses a code, or exchanges it and *)
(* says for which user it was.                                             *)
(***************************************************************************)
EXTENDS Integers, Sequences, SequencesExt, FiniteSets

CONSTANTS
  User,         \* GitHub users
  State,        \* bound: OAuth states that can be generated
  Session,      \* bound: session tokens that can be generated
  Handler,      \* requests that are handled at a time
  Config,       \* the configurations the file can hold: [admins, redirects]
  Uri,          \* redirect URIs that services send to the broker
  DevMode,      \* dev_mode
  StateTTL,     \* stateTTL and brokerStateTTL, in clock units
  SessionTTL,   \* SessionDuration, in clock units
  MaxClock,     \* bound: clock ticks
  MaxGen,       \* bound: sessions that stem from one login by approvals, one from the other
  None          \* an absent row

ASSUME LoginAssumption ==
  /\ \A c \in Config : c.admins \subseteq User
  /\ DevMode \in BOOLEAN
  /\ {StateTTL, SessionTTL, MaxClock, MaxGen} \subseteq Nat

VARIABLES
  clock,
  conf,         \* the configuration in memory
  syncing,      \* whether reloadConfig is between ReloadFrom and SyncAdminRoles
  states,       \* oauth_states: when the row of each expires, or None
  roles,        \* users: the role of each, or None
  tokens,       \* the users with a row in github_tokens
  sessions,     \* sessions
  flow,         \* progress of each callback request
  issued,       \* the other columns of each state, also when its row is gone
  passed,       \* history: how often a callback got past each state
  granted,      \* history: the broker tokens sent out
  lastAdmin,    \* history: when each user was last an admin of the configuration
  raced         \* history: users whose role SyncAdminRoles or a login has yet to put right

vars == <<clock, conf, syncing, states, roles, tokens, sessions, flow, issued,
          passed, granted, lastAdmin, raced>>

history == <<lastAdmin, raced>>

Idle == [pc |-> "idle"]
Role(u, admins) == IF u \in admins THEN "admin" ELSE "user"

-----------------------------------------------------------------------------
(* Redirect targets.  A host is the sequence of its labels, a path one of   *)
(* pieces of text.                                                          *)

\* matchesRedirectPattern: *.host stands for the hosts below it, with the path as a
\* prefix if there is one; other patterns are whole URIs.
Matches(uri, pattern) ==
  IF pattern.wild
  THEN /\ IsStrictSuffix(pattern.host, uri.host)
       /\ pattern.path # << >> => IsPrefix(pattern.path, uri.path)
  ELSE uri.scheme = pattern.scheme /\ uri.host = pattern.host /\ uri.path = pattern.path

ValidateRedirectURI(uri) ==
  /\ uri.scheme = "https" \/ (DevMode /\ uri.host = <<"localhost">>)
  /\ \E p \in conf.redirects : Matches(uri, p)

-----------------------------------------------------------------------------

\* The path a login returns to is left out.
StateRow == [kind : {"login"}, back : {None}] \cup [kind : {"broker"}, back : Uri]
SessionRow == [user : User, role : {"user", "admin"}, exp : Nat, gen : 0..MaxGen]

\* What a callback has found out: its state (the row it consumed is issued[state]),
\* then the user and the role, which only a login goes on with.
Exchanging == [pc : {"exchange"}, kind : {"login", "broker", "setup"}, state : State \cup {None},
               user : {None}, role : {None}]
SigningIn == [pc : {"upsert", "token", "session"}, kind : {"login", "setup"},
              state : State \cup {None}, user : User, role : {"user", "admin"}]
Flow == Exchanging \cup SigningIn

ASSUME NoneAssumption == None \notin Nat \cup StateRow \cup SessionRow \cup {"user", "admin"}

TypeOK ==
  /\ clock \in 0..MaxClock
  /\ conf \in Config
  /\ syncing \in BOOLEAN
  /\ states \in [State -> Nat \cup {None}]
  /\ roles \in [User -> {None, "user", "admin"}]
  /\ tokens \subseteq User
  /\ sessions \in [Session -> SessionRow \cup {None}]
  /\ flow \in [Handler -> Flow \cup {Idle}]
  /\ issued \in [State -> StateRow \cup {None}]
  /\ passed \in [State -> Nat]
  /\ lastAdmin \in [User -> Nat \cup {None}]
  /\ raced \subseteq User

Init ==
  /\ clock = 0
  /\ conf \in Config
  /\ syncing = FALSE
  /\ states = [s \in State |-> None]
  /\ roles = [u \in User |-> None]
  /\ tokens = {}
  /\ sessions = [s \in Session |-> None]
  /\ flow = [h \in Handler |-> Idle]
  /\ issued = [s \in State |-> None]
  /\ passed = [s \in State |-> 0]
  /\ granted = {}
  /\ lastAdmin = [u \in User |-> IF u \in conf.admins THEN 0 ELSE None]
  /\ raced = {}

-----------------------------------------------------------------------------
(* Beginning a flow.                                                       *)

CreateOAuthState(s, row) ==
  /\ issued[s] = None
  /\ states' = [states EXCEPT ![s] = clock + StateTTL]
  /\ issued' = [issued EXCEPT ![s] = row]
  /\ UNCHANGED <<clock, conf, syncing, roles, tokens, sessions, flow, passed,
                 granted, history>>

HandleGitHubLogin(s) ==
  CreateOAuthState(s, [kind |-> "login", back |-> None])

HandleBrokerAuthorize(s) ==
  \E uri \in Uri :
    /\ ValidateRedirectURI(uri)
    /\ CreateOAuthState(s, [kind |-> "broker", back |-> uri])

-----------------------------------------------------------------------------
(* The callbacks.                                                          *)

Begin(h, kind, state) ==
  flow' = [flow EXCEPT ![h] =
    [pc |-> "exchange", kind |-> kind, state |-> state,
     user |-> None, role |-> None]]

\* Mutant of Found: a state of the other callback does as well.
FoundAnyKind(s, kind) == states[s] # None
\* DELETE ... WHERE state = s AND kind = kind
Found(s, kind) == states[s] # None /\ issued[s].kind = kind

\* Mutant of ConsumeOAuthState: the row is left for the cleanup.
ConsumeWithoutDelete(h, s, kind) ==
  /\ Found(s, kind)
  /\ IF clock <= states[s]
     THEN Begin(h, kind, s) /\ passed' = [passed EXCEPT ![s] = @ + 1]
     ELSE UNCHANGED <<flow, passed>>
  /\ UNCHANGED states

\* The row is gone whether or not it had expired.
ConsumeOAuthState(h, s, kind) ==
  /\ Found(s, kind)
  /\ states' = [states EXCEPT ![s] = None]
  /\ IF clock <= states[s]
     THEN Begin(h, kind, s) /\ passed' = [passed EXCEPT ![s] = @ + 1]
     ELSE UNCHANGED <<flow, passed>>

\* handleGitHubCallback and handleBrokerCallback up to the exchange; with
\* setup_action a login needs no state.
Callback(h) ==
  /\ flow[h] = Idle
  /\ \/ \E s \in State, kind \in {"login", "broker"} : ConsumeOAuthState(h, s, kind)
     \/ Begin(h, "setup", None) /\ UNCHANGED <<states, passed>>
  /\ UNCHANGED <<clock, conf, syncing, roles, tokens, sessions, issued, granted, history>>

\* exchangeCode and getGitHubUser; then a login asks IsAdmin, and the broker signs a
\* token for the service and is done.
Identify(h) ==
  LET f == flow[h] IN
  /\ f.pc = "exchange"
  /\ \/ /\ f.kind = "broker"
        /\ granted' = granted \cup {[state |-> f.state, audience |-> issued[f.state].back]}
        /\ flow' = [flow EXCEPT ![h] = Idle]
     \/ /\ f.kind # "broker"
        /\ \E u \in User :
             flow' = [flow EXCEPT ![h] = [f EXCEPT !.pc = "upsert", !.user = u,
                                                  !.role = Role(u, conf.admins)]]
        /\ UNCHANGED granted
     \/ flow' = [flow EXCEPT ![h] = Idle] /\ UNCHANGED granted
  /\ UNCHANGED <<clock, conf, syncing, states, roles, tokens, sessions, issued, passed,
                 history>>

\* A reload between IsAdmin and this statement leaves the role of before.
UpsertUser(h) ==
  LET f == flow[h] IN
  /\ f.pc = "upsert"
  /\ roles' = [roles EXCEPT ![f.user] = f.role]
  /\ raced' = IF f.role = Role(f.user, conf.admins) THEN raced \ {f.user} ELSE raced \cup {f.user}
  /\ flow' = [flow EXCEPT ![h].pc = "token"]
  /\ UNCHANGED <<clock, conf, syncing, states, tokens, sessions, issued, passed,
                 granted, lastAdmin>>

\* Mutant of UpsertGitHubToken: its failure is ignored.
UpsertGitHubTokenOrNot(h) ==
  /\ flow[h].pc = "token"
  /\ \/ tokens' = tokens \cup {flow[h].user}
     \/ UNCHANGED tokens
  /\ flow' = [flow EXCEPT ![h].pc = "session"]
  /\ UNCHANGED <<clock, conf, syncing, states, roles, sessions, issued, passed,
                 granted, history>>

UpsertGitHubToken(h) ==
  /\ flow[h].pc = "token"
  /\ tokens' = tokens \cup {flow[h].user}
  /\ flow' = [flow EXCEPT ![h].pc = "session"]
  /\ UNCHANGED <<clock, conf, syncing, states, roles, sessions, issued, passed,
                 granted, history>>

NewSession(s, user, role, gen) ==
  /\ sessions[s] = None
  /\ sessions' = [sessions EXCEPT ![s] =
       [user |-> user, role |-> role, exp |-> clock + SessionTTL, gen |-> gen]]

\* createSession, and the answer.
CreateSession(h) ==
  /\ flow[h].pc = "session"
  /\ \E s \in Session : NewSession(s, flow[h].user, flow[h].role, 0)
  /\ flow' = [flow EXCEPT ![h] = Idle]
  /\ UNCHANGED <<clock, conf, syncing, states, roles, tokens, issued, passed,
                 granted, history>>

\* A statement or a call to GitHub fails: the answer is 500, and what was done stays.
Fail(h) ==
  /\ flow[h] # Idle
  /\ flow' = [flow EXCEPT ![h] = Idle]
  /\ UNCHANGED <<clock, conf, syncing, states, roles, tokens, sessions, issued,
                 passed, granted, history>>

-----------------------------------------------------------------------------
(* Sessions.                                                               *)

\* Mutant of LookupSession: rows that the cleanup has yet to remove still count.
LookupExpired(s) == sessions[s]
\* GetSessionByTokenHash finds no row that has expired.
LookupSession(s) ==
  IF sessions[s] # None /\ clock <= sessions[s].exp THEN sessions[s] ELSE None

\* RequireAdmin lets the request through.
IsAdminSession(s) == LookupSession(s) # None /\ LookupSession(s).role = "admin"

\* handleDeviceDecision: a new session for the CLI, with the role of the session
\* that approves.
ApproveDevice(s) ==
  /\ LookupSession(s) # None /\ LookupSession(s).gen < MaxGen
  /\ \E t \in Session :
       NewSession(t, LookupSession(s).user, LookupSession(s).role, LookupSession(s).gen + 1)
  /\ UNCHANGED <<clock, conf, syncing, states, roles, tokens, flow, issued, passed,
                 granted, history>>

HandleLogout(s) ==
  /\ sessions[s] # None
  /\ sessions' = [sessions EXCEPT ![s] = None]
  /\ UNCHANGED <<clock, conf, syncing, states, roles, tokens, flow, issued, passed,
                 granted, history>>

\* DeleteExpiredSessions and DeleteExpiredOAuthStates; device authorizations have a
\* module of their own.
RunCleanup ==
  /\ sessions' = [s \in Session |-> LookupSession(s)]
  /\ states' = [s \in State |-> IF states[s] # None /\ clock <= states[s] THEN states[s] ELSE None]
  /\ sessions' # sessions \/ states' # states
  /\ UNCHANGED <<clock, conf, syncing, roles, tokens, flow, issued, passed, granted,
                 history>>

-----------------------------------------------------------------------------
(* Configuration.                                                          *)

Seen(now) == [u \in User |-> IF u \in conf'.admins THEN now ELSE lastAdmin[u]]

\* ReloadFrom: the configuration is replaced under its lock.
ReloadFrom ==
  /\ ~syncing
  /\ conf' \in Config
  /\ syncing' = TRUE
  /\ lastAdmin' = Seen(clock)
  /\ UNCHANGED <<clock, states, roles, tokens, sessions, flow, issued, passed,
                 granted, raced>>

\* Mutant of Synced: nobody is demoted.
SyncedUpwards(admins) ==
  [u \in User |-> IF roles[u] # None /\ u \in admins THEN "admin" ELSE roles[u]]
\* SyncAdminRoles: demote all, promote those of the list, in a transaction.
Synced(admins) == [u \in User |-> IF roles[u] = None THEN None ELSE Role(u, admins)]

\* A failure is logged, and the roles stay as they are.
SyncAdminRoles ==
  /\ syncing
  /\ syncing' = FALSE
  /\ \/ roles' = Synced(conf.admins) /\ raced' = {}
     \/ /\ UNCHANGED roles
        /\ raced' = {u \in User : roles[u] \notin {None, Role(u, conf.admins)}}
  /\ UNCHANGED <<clock, conf, states, tokens, sessions, flow, issued, passed, granted,
                 lastAdmin>>

\* A crash or stop, and the next start, which reads the file and syncs the roles.
Restart ==
  /\ conf' \in Config
  /\ syncing' = TRUE
  /\ flow' = [h \in Handler |-> Idle]
  /\ lastAdmin' = Seen(clock)
  /\ UNCHANGED <<clock, states, roles, tokens, sessions, issued, passed, granted,
                 raced>>

\* Bound: a callback is answered, and a reload ends, within the clock unit.
Tick ==
  /\ clock < MaxClock /\ ~syncing /\ \A h \in Handler : flow[h] = Idle
  /\ clock' = clock + 1
  /\ lastAdmin' = [u \in User |-> IF u \in conf.admins THEN clock + 1 ELSE lastAdmin[u]]
  /\ UNCHANGED <<conf, syncing, states, roles, tokens, sessions, flow, issued, passed,
                 granted, raced>>

Next ==
  \/ \E s \in State : HandleGitHubLogin(s) \/ HandleBrokerAuthorize(s)
  \/ \E h \in Handler : \/ Callback(h) \/ Identify(h) \/ UpsertUser(h)
                        \/ UpsertGitHubToken(h) \/ CreateSession(h) \/ Fail(h)
  \/ \E s \in Session : ApproveDevice(s) \/ HandleLogout(s)
  \/ RunCleanup \/ ReloadFrom \/ SyncAdminRoles \/ Restart \/ Tick

Spec == Init /\ [][Next]_vars

-----------------------------------------------------------------------------
(* Properties.                                                             *)

\* "A state token can never be replayed by a duplicate callback": however callbacks
\* overlap and whatever fails after it, one at most gets past each state.
StateUsedOnce == \A s \in State : passed[s] <= 1

\* A URI that some configuration admits: an exact one, or a host below that of a
\* wildcard, never the bare domain; over plain http only localhost, in dev mode.
Admitted(uri) ==
  /\ uri.scheme = "https" \/ (DevMode /\ uri.host = <<"localhost">>)
  /\ \E c \in Config : \E p \in c.redirects :
       Matches(uri, p) /\ (p.wild => p.host # uri.host)

\* The two callbacks do not take each other's states: an identity goes only to the
\* service that asked in this flow, at a URI that was admitted; a login never
\* continues what a service began.
FlowsStayApart ==
  /\ \A g \in granted :
       /\ issued[g.state].kind = "broker"
       /\ issued[g.state].back = g.audience
       /\ Admitted(g.audience)
  /\ \A h \in Handler : flow[h] # Idle /\ flow[h].kind = "login" => issued[flow[h].state].kind = "login"

\* Whatever fails on the way, who has a session has a user row and GitHub
\* credentials, without which their tokens could not be used.
SessionsAreBacked ==
  \A s \in Session : sessions[s] # None => roles[sessions[s].user] # None /\ sessions[s].user \in tokens

\* After a reload the roles are those of the configuration: only a login that read the
\* list before the reload and wrote its role after it, or a failed sync, leaves
\* another one, until that user's next login or the next sync.
RolesFollowConfig ==
  ~syncing => \A u \in User \ raced : roles[u] \in {None, Role(u, conf.admins)}

\* Sessions keep the role of their login: a user who is no admin any more passes
\* RequireAdmin for as long as a session lasts, and once more as long for each device
\* approved with a session that had it.
AdminAccessIsBounded ==
  \A s \in Session :
    IsAdminSession(s) =>
      LET u == sessions[s].user IN
      lastAdmin[u] # None /\ clock <= lastAdmin[u] + SessionTTL * (1 + sessions[s].gen)

=============================================================================
