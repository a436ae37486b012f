----------------------------- MODULE LoginProofs -----------------------------
(***************************************************************************)
(* Theorems about Login, for every number of users, states, sessions and   *)
(* callbacks, every set of configurations and all durations.               *)
(***************************************************************************)
EXTENDS Login, TLAPS

LEMMA Numbers ==
  StateTTL \in Nat /\ SessionTTL \in Nat /\ MaxClock \in Nat /\ MaxGen \in Nat
  BY LoginAssumption

-----------------------------------------------------------------------------
(* Type correctness.                                                       *)

LEMMA SignedIn ==
  ASSUME TypeOK, NEW h \in Handler, flow[h].pc \in {"upsert", "token", "session"}
  PROVE  flow[h] \in SigningIn
  BY DEF TypeOK, Flow, Exchanging, Idle

LEMMA NotSignedIn ==
  ASSUME TypeOK, NEW h \in Handler, flow[h].pc = "exchange"
  PROVE  flow[h] \in Exchanging
  BY DEF TypeOK, Flow, SigningIn, Idle

LEMMA InitTypeOK == Init => TypeOK
  <1> SUFFICES ASSUME Init PROVE TypeOK
    OBVIOUS
  <1>0. syncing \in BOOLEAN /\ conf \in Config
    BY DEF Init
  <1>1. clock \in 0..MaxClock
    BY Numbers DEF Init
  <1>2. lastAdmin \in [User -> Nat \cup {None}] /\ passed \in [State -> Nat]
    BY DEF Init
  <1>3. flow \in [Handler -> Flow \cup {Idle}]
    BY DEF Init
  <1>4. QED
    BY <1>0, <1>1, <1>2, <1>3 DEF Init, TypeOK

\* A callback goes on, or ends.
LEMMA FlowTypes ==
  ASSUME TypeOK, NEW h \in Handler, NEW f \in Flow \cup {Idle}, flow' = [flow EXCEPT ![h] = f]
  PROVE  flow' \in [Handler -> Flow \cup {Idle}]
  BY DEF TypeOK

LEMMA CallbackTypeOK ==
  ASSUME TypeOK, NEW h \in Handler, Callback(h)
  PROVE  TypeOK'
  <1>1. ASSUME NEW kind \in {"login", "broker", "setup"}, NEW s \in State \cup {None}, Begin(h, kind, s)
        PROVE  flow' \in [Handler -> Flow \cup {Idle}]
    <2>1. [pc |-> "exchange", kind |-> kind, state |-> s, user |-> None, role |-> None] \in Flow
      BY DEF Flow, Exchanging
    <2>2. QED
      BY <1>1, <2>1, FlowTypes DEF Begin
  <1>2. flow' \in [Handler -> Flow \cup {Idle}]
    <2>1. CASE UNCHANGED flow
      BY <2>1 DEF TypeOK
    <2>2. QED
      BY <1>1, <2>1 DEF Callback, ConsumeOAuthState
  <1>3. states' \in [State -> Nat \cup {None}] /\ passed' \in [State -> Nat]
    BY DEF Callback, ConsumeOAuthState, TypeOK, history
  <1>4. QED
    BY <1>2, <1>3 DEF Callback, TypeOK, history

LEMMA FlowTypeOK ==
  ASSUME TypeOK, NEW h \in Handler,
         Identify(h) \/ UpsertUser(h) \/ UpsertGitHubToken(h) \/ CreateSession(h) \/ Fail(h)
  PROVE  TypeOK'
  <1>1. CASE Identify(h)
    <2>1. CASE flow' = [flow EXCEPT ![h] = Idle]
      BY <1>1, <2>1, FlowTypes DEF Identify, TypeOK, history
    <2>2. ASSUME flow[h].kind # "broker", NEW u \in User,
                 flow' = [flow EXCEPT ![h] = [flow[h] EXCEPT !.pc = "upsert", !.user = u,
                                                             !.role = Role(u, conf.admins)]]
          PROVE  TypeOK'
      <3>1. flow[h] \in Exchanging
        BY <1>1, NotSignedIn DEF Identify
      <3>2. [flow[h] EXCEPT !.pc = "upsert", !.user = u, !.role = Role(u, conf.admins)] \in SigningIn
        <4>1. flow[h].kind \in {"login", "setup"} /\ flow[h].state \in State \cup {None}
          BY <2>2, <3>1 DEF Exchanging
        <4>2. Role(u, conf.admins) \in {"user", "admin"}
          BY DEF Role
        <4>3. QED
          BY <3>1, <4>1, <4>2 DEF Exchanging, SigningIn
      <3>3. flow' \in [Handler -> Flow \cup {Idle}]
        BY <2>2, <3>2, FlowTypes DEF Flow
      <3>4. QED
        BY <1>1, <3>3 DEF Identify, TypeOK, history
    <2>3. QED
      BY <1>1, <2>1, <2>2 DEF Identify
  <1>2. ASSUME flow[h] \in SigningIn, NEW pc \in {"token", "session"}, flow' = [flow EXCEPT ![h].pc = pc]
        PROVE  flow' \in [Handler -> Flow \cup {Idle}]
    <2>1. [flow[h] EXCEPT !.pc = pc] \in SigningIn
      BY <1>2 DEF SigningIn
    <2>2. flow' = [flow EXCEPT ![h] = [flow[h] EXCEPT !.pc = pc]]
      BY <1>2
    <2>3. QED
      BY <2>1, <2>2, FlowTypes DEF Flow
  <1>3. CASE UpsertUser(h)
    <2>1. flow[h] \in SigningIn
      BY <1>3, SignedIn DEF UpsertUser
    <2>2. flow[h].user \in User /\ flow[h].role \in {"user", "admin"}
      BY <2>1 DEF SigningIn
    <2>3. flow' \in [Handler -> Flow \cup {Idle}]
      BY <1>2, <1>3, <2>1 DEF UpsertUser
    <2>4. QED
      BY <1>3, <2>2, <2>3 DEF UpsertUser, TypeOK, history
  <1>4. CASE UpsertGitHubToken(h)
    <2>1. flow[h] \in SigningIn
      BY <1>4, SignedIn DEF UpsertGitHubToken
    <2>2. flow[h].user \in User
      BY <2>1 DEF SigningIn
    <2>3. flow' \in [Handler -> Flow \cup {Idle}]
      BY <1>2, <1>4, <2>1 DEF UpsertGitHubToken
    <2>4. QED
      BY <1>4, <2>2, <2>3 DEF UpsertGitHubToken, TypeOK, history
  <1>5. CASE CreateSession(h)
    <2>1. flow[h] \in SigningIn
      BY <1>5, SignedIn DEF CreateSession
    <2>2. flow[h].user \in User /\ flow[h].role \in {"user", "admin"}
      BY <2>1 DEF SigningIn
    <2>3. clock + SessionTTL \in Nat /\ 0 \in 0..MaxGen
      BY Numbers DEF TypeOK
    <2>4. [user |-> flow[h].user, role |-> flow[h].role, exp |-> clock + SessionTTL, gen |-> 0] \in SessionRow
      BY <2>2, <2>3 DEF SessionRow
    <2>5. sessions' \in [Session -> SessionRow \cup {None}]
      BY <1>5, <2>4 DEF CreateSession, NewSession, TypeOK, history
    <2>6. QED
      BY <1>5, <2>5, FlowTypes DEF CreateSession, TypeOK, history
  <1>6. CASE Fail(h)
    BY <1>6, FlowTypes DEF Fail, TypeOK, history
  <1>7. QED
    BY <1>1, <1>3, <1>4, <1>5, <1>6

LEMMA SessionTypeOK ==
  ASSUME TypeOK, NEW s \in Session, ApproveDevice(s) \/ HandleLogout(s)
  PROVE  TypeOK'
  <1>1. CASE ApproveDevice(s)
    <2>1. sessions[s] \in SessionRow /\ LookupSession(s) = sessions[s] /\ sessions[s].gen < MaxGen
      BY <1>1 DEF ApproveDevice, LookupSession, TypeOK, history
    <2>2. /\ sessions[s].user \in User /\ sessions[s].role \in {"user", "admin"}
          /\ sessions[s].gen + 1 \in 0..MaxGen /\ clock + SessionTTL \in Nat
      BY <2>1, Numbers DEF SessionRow, TypeOK, history
    <2>3. [user |-> sessions[s].user, role |-> sessions[s].role, exp |-> clock + SessionTTL,
           gen |-> sessions[s].gen + 1] \in SessionRow
      BY <2>2 DEF SessionRow
    <2>4. sessions' \in [Session -> SessionRow \cup {None}]
      BY <1>1, <2>1, <2>3 DEF ApproveDevice, NewSession, TypeOK, history
    <2>5. QED
      BY <1>1, <2>4 DEF ApproveDevice, TypeOK, history
  <1>2. CASE HandleLogout(s)
    BY <1>2 DEF HandleLogout, TypeOK, history
  <1>3. QED
    BY <1>1, <1>2

LEMMA NextTypeOK == TypeOK /\ [Next]_vars => TypeOK'
  <1> SUFFICES ASSUME TypeOK, [Next]_vars
               PROVE  TypeOK'
    OBVIOUS
  <1>1. ASSUME NEW s \in State, HandleGitHubLogin(s) \/ HandleBrokerAuthorize(s)
        PROVE  TypeOK'
    <2>1. PICK r \in StateRow : CreateOAuthState(s, r)
      BY <1>1 DEF HandleGitHubLogin, HandleBrokerAuthorize, StateRow
    <2>2. clock + StateTTL \in Nat
      BY Numbers DEF TypeOK
    <2>3. QED
      BY <2>1, <2>2 DEF CreateOAuthState, history, TypeOK
  <1>2. ASSUME NEW h \in Handler, Callback(h) \/ Identify(h) \/ UpsertUser(h) \/ UpsertGitHubToken(h)
                                    \/ CreateSession(h) \/ Fail(h)
        PROVE  TypeOK'
    BY <1>2, CallbackTypeOK, FlowTypeOK
  <1>3. CASE RunCleanup
    BY <1>3 DEF RunCleanup, LookupSession, history, TypeOK
  <1>4. ASSUME clock' = clock, lastAdmin' = Seen(clock)
        PROVE  lastAdmin' \in [User -> Nat \cup {None}]
    BY <1>4, Numbers DEF Seen, TypeOK, history
  <1>5. CASE ReloadFrom
    BY <1>4, <1>5 DEF ReloadFrom, TypeOK, history
  <1>6. CASE SyncAdminRoles
    BY <1>6 DEF SyncAdminRoles, Synced, Role, TypeOK, history
  <1>7. CASE Restart
    BY <1>4, <1>7 DEF Restart, TypeOK, history
  <1>8. CASE Tick
    BY <1>8, Numbers DEF Tick, TypeOK, history
  <1>9. CASE UNCHANGED vars
    BY <1>9 DEF vars, history, TypeOK
  <1>10. QED
    BY <1>1, <1>2, <1>3, <1>5, <1>6, <1>7, <1>8, <1>9, SessionTypeOK DEF Next

\* Every variable keeps its type.
THEOREM TypeCorrect == Spec => []TypeOK
  BY InitTypeOK, NextTypeOK, PTL DEF Spec

-----------------------------------------------------------------------------
(* States.                                                                 *)

\* A state that is still in the table has not been used, and neither has one that
\* was not issued.
UnusedStates ==
  \A s \in State : /\ passed[s] <= 1
                   /\ states[s] # None => passed[s] = 0 /\ issued[s] # None
                   /\ issued[s] = None => passed[s] = 0

LEMMA InitUnused == Init => UnusedStates
  BY DEF Init, UnusedStates

LEMMA NextUnused ==
  ASSUME TypeOK, UnusedStates, [Next]_vars
  PROVE  UnusedStates'
  <1>1. CASE UNCHANGED <<states, issued, passed>>
    BY <1>1 DEF UnusedStates
  <1>2. ASSUME NEW s \in State, HandleGitHubLogin(s) \/ HandleBrokerAuthorize(s)
        PROVE  UnusedStates'
    <2>1. PICK r \in StateRow : CreateOAuthState(s, r)
      BY <1>2 DEF HandleGitHubLogin, HandleBrokerAuthorize, StateRow
    <2>2. r # None
      BY NoneAssumption
    <2>3. passed' = passed /\ issued'[s] = r /\ passed[s] = 0
      BY <2>1 DEF CreateOAuthState, UnusedStates, TypeOK
    <2>4. \A t \in State \ {s} : states'[t] = states[t] /\ issued'[t] = issued[t]
      BY <2>1 DEF CreateOAuthState, TypeOK
    <2>5. QED
      BY <2>2, <2>3, <2>4 DEF UnusedStates
  <1>3. ASSUME NEW h \in Handler, NEW s \in State, NEW kind, ConsumeOAuthState(h, s, kind),
               UNCHANGED issued
        PROVE  UnusedStates'
    <2>1. passed[s] = 0 /\ issued[s] # None /\ states'[s] = None
      BY <1>3 DEF ConsumeOAuthState, Found, UnusedStates, TypeOK
    <2>2. passed'[s] \in {0, 1} /\ \A t \in State \ {s} : passed'[t] = passed[t] /\ states'[t] = states[t]
      BY <1>3, <2>1 DEF ConsumeOAuthState, TypeOK
    <2>3. QED
      BY <1>3, <2>1, <2>2 DEF UnusedStates
  <1>4. ASSUME NEW h \in Handler, Callback(h)
        PROVE  UnusedStates'
    BY <1>1, <1>3, <1>4 DEF Callback
  <1>5. CASE RunCleanup
    <2>1. \A s \in State : states'[s] \in {None, states[s]}
      BY <1>5 DEF RunCleanup
    <2>2. QED
      BY <1>5, <2>1 DEF RunCleanup, UnusedStates
  <1>6. ASSUME NEW h \in Handler,
               Identify(h) \/ UpsertUser(h) \/ UpsertGitHubToken(h) \/ CreateSession(h) \/ Fail(h)
        PROVE  UNCHANGED <<states, issued, passed>>
    BY <1>6 DEF Identify, UpsertUser, UpsertGitHubToken, CreateSession, Fail
  <1>7. CASE \/ \E s \in Session : ApproveDevice(s) \/ HandleLogout(s)
             \/ ReloadFrom \/ SyncAdminRoles \/ Restart \/ Tick \/ UNCHANGED vars
    BY <1>1, <1>7 DEF ApproveDevice, HandleLogout, ReloadFrom, SyncAdminRoles, Restart, Tick, vars
  <1>8. QED
    BY <1>1, <1>2, <1>4, <1>5, <1>6, <1>7 DEF Next

\* However callbacks overlap and fail, one at most gets past each OAuth state.
THEOREM OneCallbackPerState == Spec => []StateUsedOnce
  <1>1. UnusedStates => StateUsedOnce
    BY DEF UnusedStates, StateUsedOnce
  <1>2. QED
    BY <1>1, TypeCorrect, InitUnused, NextUnused, PTL DEF Spec

-----------------------------------------------------------------------------
(* Flows.                                                                  *)

\* What the states that were issued, the callbacks that got past one, and the
\* identities that were sent out have to do with each other.
IssuedIsAdmitted ==
  \A s \in State : issued[s] # None /\ issued[s].kind = "broker" => Admitted(issued[s].back)

CallbackHasItsState ==
  \A h \in Handler :
    flow[h] # Idle /\ flow[h].kind # "setup" =>
      /\ flow[h].state \in State
      /\ issued[flow[h].state] # None
      /\ issued[flow[h].state].kind = flow[h].kind

GrantWasAskedFor ==
  \A g \in granted :
    /\ g.state \in State
    /\ issued[g.state] # None
    /\ issued[g.state].kind = "broker"
    /\ issued[g.state].back = g.audience

FlowsInv == IssuedIsAdmitted /\ CallbackHasItsState /\ GrantWasAskedFor

LEMMA InitFlows == Init => FlowsInv
  BY DEF Init, FlowsInv, IssuedIsAdmitted, CallbackHasItsState, GrantWasAskedFor

LEMMA FlowsSuffice ==
  ASSUME FlowsInv
  PROVE  FlowsStayApart
  BY DEF FlowsInv, IssuedIsAdmitted, CallbackHasItsState, GrantWasAskedFor, FlowsStayApart

\* A URI that the broker accepts is one that a configuration admits; a wildcard is
\* strict about the suffix.
LEMMA ValidIsAdmitted ==
  ASSUME TypeOK, NEW uri, ValidateRedirectURI(uri)
  PROVE  Admitted(uri)
  BY DEF TypeOK, ValidateRedirectURI, Admitted, Matches, IsStrictSuffix

\* What was issued stays, whatever is issued next.
LEMMA IssuedStays ==
  ASSUME TypeOK, FlowsInv, NEW s \in State, NEW row \in StateRow, CreateOAuthState(s, row),
         row.kind = "broker" => Admitted(row.back)
  PROVE  FlowsInv'
  <1>1. /\ issued[s] = None /\ issued'[s] = row /\ UNCHANGED <<flow, granted>>
        /\ \A t \in State \ {s} : issued'[t] = issued[t]
    BY DEF CreateOAuthState, TypeOK
  <1>2. IssuedIsAdmitted'
    BY <1>1 DEF FlowsInv, IssuedIsAdmitted, Admitted
  <1>3. CallbackHasItsState'
    BY <1>1 DEF FlowsInv, CallbackHasItsState
  <1>4. GrantWasAskedFor'
    BY <1>1 DEF FlowsInv, GrantWasAskedFor
  <1>5. QED
    BY <1>2, <1>3, <1>4 DEF FlowsInv

\* A callback that begins has its state, if it needs one.
LEMMA BeginFlows ==
  ASSUME TypeOK, FlowsInv, NEW h \in Handler, NEW kind, NEW s, Begin(h, kind, s),
         UNCHANGED <<issued, granted>>,
         kind # "setup" => s \in State /\ issued[s] # None /\ issued[s].kind = kind
  PROVE  FlowsInv'
  <1>1. /\ flow'[h].kind = kind /\ flow'[h].state = s
        /\ \A q \in Handler \ {h} : flow'[q] = flow[q]
    BY DEF Begin, TypeOK
  <1>2. CallbackHasItsState'
    BY <1>1 DEF FlowsInv, CallbackHasItsState
  <1>3. QED
    BY <1>2 DEF FlowsInv, IssuedIsAdmitted, GrantWasAskedFor, Admitted

\* A callback that goes on keeps its kind and its state, or ends.
LEMMA GoOnFlows ==
  ASSUME TypeOK, FlowsInv, NEW h \in Handler, UNCHANGED <<issued, granted>>,
         \A q \in Handler \ {h} : flow'[q] = flow[q],
         \/ flow'[h] = Idle
         \/ flow[h] # Idle /\ flow'[h].kind = flow[h].kind /\ flow'[h].state = flow[h].state
  PROVE  FlowsInv'
  <1>1. CallbackHasItsState'
    BY DEF FlowsInv, CallbackHasItsState
  <1>2. QED
    BY <1>1 DEF FlowsInv, IssuedIsAdmitted, GrantWasAskedFor, Admitted

LEMMA NextFlowsInv ==
  ASSUME TypeOK, UnusedStates, FlowsInv, [Next]_vars
  PROVE  FlowsInv'
  <1>1. ASSUME UNCHANGED <<flow, issued, granted>>
        PROVE  FlowsInv'
    BY <1>1 DEF FlowsInv, IssuedIsAdmitted, CallbackHasItsState, GrantWasAskedFor, Admitted
  <1>2. ASSUME NEW s \in State, HandleGitHubLogin(s)
        PROVE  FlowsInv'
    <2>1. [kind |-> "login", back |-> None] \in StateRow
      BY DEF StateRow
    <2>2. QED
      BY <1>2, <2>1, IssuedStays DEF HandleGitHubLogin
  <1>3. ASSUME NEW s \in State, HandleBrokerAuthorize(s)
        PROVE  FlowsInv'
    <2>1. PICK uri \in Uri : /\ ValidateRedirectURI(uri)
                             /\ CreateOAuthState(s, [kind |-> "broker", back |-> uri])
      BY <1>3 DEF HandleBrokerAuthorize
    <2>2. [kind |-> "broker", back |-> uri] \in StateRow /\ Admitted(uri)
      BY <2>1, ValidIsAdmitted DEF StateRow
    <2>3. QED
      BY <2>1, <2>2, IssuedStays
  <1>4. ASSUME NEW h \in Handler, Callback(h)
        PROVE  FlowsInv'
    <2>1. UNCHANGED <<issued, granted>>
      BY <1>4 DEF Callback
    <2>2. ASSUME NEW s \in State, NEW kind \in {"login", "broker"}, ConsumeOAuthState(h, s, kind)
          PROVE  FlowsInv'
      <3>1. issued[s] # None /\ issued[s].kind = kind
        BY <2>2 DEF ConsumeOAuthState, Found, UnusedStates
      <3>2. CASE Begin(h, kind, s)
        BY <2>1, <3>1, <3>2, BeginFlows
      <3>3. CASE UNCHANGED flow
        BY <1>1, <2>1, <3>3
      <3>4. QED
        BY <2>2, <3>2, <3>3 DEF ConsumeOAuthState
    <2>3. CASE Begin(h, "setup", None)
      BY <2>1, <2>3, BeginFlows
    <2>4. QED
      BY <1>4, <2>2, <2>3 DEF Callback
  <1>5. ASSUME NEW h \in Handler, Identify(h)
        PROVE  FlowsInv'
    <2>1. flow[h] \in Exchanging /\ flow[h] # Idle /\ UNCHANGED issued
      BY <1>5, NotSignedIn DEF Identify, Idle, Exchanging
    <2>2. CASE flow' = [flow EXCEPT ![h] = Idle] /\ UNCHANGED granted
      BY <2>1, <2>2, GoOnFlows DEF TypeOK
    <2>3. ASSUME flow[h].kind = "broker", flow' = [flow EXCEPT ![h] = Idle],
                 granted' = granted \cup {[state |-> flow[h].state,
                                           audience |-> issued[flow[h].state].back]}
          PROVE  FlowsInv'
      <3>1. /\ flow[h].state \in State /\ issued[flow[h].state] # None
            /\ issued[flow[h].state].kind = "broker"
        BY <2>1, <2>3 DEF FlowsInv, CallbackHasItsState
      <3>2. GrantWasAskedFor'
        BY <2>1, <2>3, <3>1 DEF FlowsInv, GrantWasAskedFor
      <3>3. CallbackHasItsState'
        BY <2>1, <2>3 DEF FlowsInv, CallbackHasItsState, TypeOK
      <3>4. QED
        BY <2>1, <3>2, <3>3 DEF FlowsInv, IssuedIsAdmitted, Admitted
    <2>4. ASSUME NEW u \in User, UNCHANGED granted,
                 flow' = [flow EXCEPT ![h] = [flow[h] EXCEPT !.pc = "upsert", !.user = u,
                                                             !.role = Role(u, conf.admins)]]
          PROVE  FlowsInv'
      <3>1. flow'[h].kind = flow[h].kind /\ flow'[h].state = flow[h].state
        BY <2>1, <2>4 DEF TypeOK, Exchanging
      <3>2. \A q \in Handler \ {h} : flow'[q] = flow[q]
        BY <2>4 DEF TypeOK
      <3>3. QED
        BY <2>1, <2>4, <3>1, <3>2, GoOnFlows
    <2>5. QED
      BY <1>5, <2>2, <2>3, <2>4 DEF Identify
  <1>6. ASSUME NEW h \in Handler, UpsertUser(h) \/ UpsertGitHubToken(h)
        PROVE  FlowsInv'
    <2>1. /\ flow[h] \in SigningIn /\ flow[h] # Idle /\ UNCHANGED <<issued, granted>>
      BY <1>6, SignedIn DEF UpsertUser, UpsertGitHubToken, Idle, SigningIn
    <2>2. PICK pc : flow' = [flow EXCEPT ![h].pc = pc]
      BY <1>6 DEF UpsertUser, UpsertGitHubToken
    <2>3. flow'[h].kind = flow[h].kind /\ flow'[h].state = flow[h].state
      BY <2>1, <2>2 DEF TypeOK, SigningIn
    <2>4. \A q \in Handler \ {h} : flow'[q] = flow[q]
      BY <2>2 DEF TypeOK
    <2>5. QED
      BY <2>1, <2>3, <2>4, GoOnFlows
  <1>7. ASSUME NEW h \in Handler, CreateSession(h) \/ Fail(h)
        PROVE  FlowsInv'
    BY <1>7, GoOnFlows DEF CreateSession, Fail, TypeOK
  <1>8. CASE Restart
    BY <1>8 DEF Restart, FlowsInv, IssuedIsAdmitted, CallbackHasItsState, GrantWasAskedFor,
                Admitted
  <1>9. CASE \/ \E s \in Session : ApproveDevice(s) \/ HandleLogout(s)
             \/ RunCleanup \/ ReloadFrom \/ SyncAdminRoles \/ Tick \/ UNCHANGED vars
    BY <1>1, <1>9 DEF ApproveDevice, HandleLogout, RunCleanup, ReloadFrom, SyncAdminRoles, Tick,
                      vars
  <1>10. QED
    BY <1>2, <1>3, <1>4, <1>5, <1>6, <1>7, <1>8, <1>9 DEF Next

\* Logins and the broker keep apart: an identity goes only to the service that asked
\* for it in this flow, at a URI that a configuration admits, and a login never
\* continues what a service began.
THEOREM FlowsKeepApart == Spec => []FlowsStayApart
  <1>1. Spec => []UnusedStates
    BY TypeCorrect, InitUnused, NextUnused, PTL DEF Spec
  <1>2. Spec => []FlowsInv
    BY <1>1, TypeCorrect, InitFlows, NextFlowsInv, PTL DEF Spec
  <1>3. QED
    BY <1>2, FlowsSuffice, PTL

-----------------------------------------------------------------------------
(* Users.                                                                  *)

\* What a login has written so far.
LoginsAreBacked ==
  \A h \in Handler :
    /\ flow[h].pc \in {"token", "session"} => roles[flow[h].user] # None
    /\ flow[h].pc = "session" => flow[h].user \in tokens

BackedInv == SessionsAreBacked /\ LoginsAreBacked

LEMMA InitBacked == Init => BackedInv
  BY DEF Init, BackedInv, SessionsAreBacked, LoginsAreBacked, Idle

\* No step takes the row or the credentials of a user away.
LEMMA UsersStay ==
  ASSUME TypeOK, [Next]_vars, NEW u \in User
  PROVE  (roles[u] # None => roles'[u] # None) /\ (u \in tokens => u \in tokens')
  <1>1. CASE UNCHANGED <<roles, tokens>>
    BY <1>1
  <1>2. ASSUME NEW h \in Handler, UpsertUser(h)
        PROVE  (roles[u] # None => roles'[u] # None) /\ (u \in tokens => u \in tokens')
    <2>1. flow[h].role # None
      BY <1>2, SignedIn, NoneAssumption DEF UpsertUser, SigningIn
    <2>2. QED
      BY <1>2, <2>1 DEF UpsertUser, TypeOK
  <1>3. ASSUME NEW h \in Handler, UpsertGitHubToken(h)
        PROVE  (roles[u] # None => roles'[u] # None) /\ (u \in tokens => u \in tokens')
    BY <1>3 DEF UpsertGitHubToken, history
  <1>4. CASE SyncAdminRoles
    BY <1>4, NoneAssumption DEF SyncAdminRoles, Synced, Role
  <1>5. ASSUME NEW h \in Handler, Callback(h) \/ Identify(h) \/ CreateSession(h) \/ Fail(h)
        PROVE  UNCHANGED <<roles, tokens>>
    BY <1>5 DEF Callback, Identify, CreateSession, Fail
  <1>6. ASSUME NEW s \in State, HandleGitHubLogin(s) \/ HandleBrokerAuthorize(s)
        PROVE  UNCHANGED <<roles, tokens>>
    BY <1>6 DEF HandleGitHubLogin, HandleBrokerAuthorize, CreateOAuthState
  <1>7. CASE \/ \E s \in Session : ApproveDevice(s) \/ HandleLogout(s)
             \/ RunCleanup \/ ReloadFrom \/ Restart \/ Tick \/ UNCHANGED vars
    BY <1>1, <1>7 DEF ApproveDevice, HandleLogout, RunCleanup, ReloadFrom, Restart, Tick, vars
  <1>8. QED
    BY <1>1, <1>2, <1>3, <1>4, <1>5, <1>6, <1>7 DEF Next

\* A step of a callback moves its own flow, to where a login has written what it says.
LEMMA NextLoginsBacked ==
  ASSUME TypeOK, LoginsAreBacked, [Next]_vars
  PROVE  LoginsAreBacked'
  <1>1. ASSUME NEW h \in Handler,
               \/ flow'[h] = flow[h]
               \/ flow'[h].pc \notin {"token", "session"}
               \/ /\ flow[h] \in SigningIn /\ flow'[h].user = flow[h].user
                  /\ flow'[h].pc = "token" /\ roles'[flow[h].user] # None
               \/ /\ flow[h] \in SigningIn /\ flow'[h].user = flow[h].user
                  /\ flow'[h].pc = "session" /\ flow[h].pc = "token" /\ flow[h].user \in tokens'
        PROVE  /\ flow'[h].pc \in {"token", "session"} => roles'[flow'[h].user] # None
               /\ flow'[h].pc = "session" => flow'[h].user \in tokens'
    <2>1. flow[h].pc \in {"token", "session"} => flow[h].user \in User
      BY SignedIn DEF SigningIn
    <2>2. flow[h].pc \in {"token", "session"} => roles'[flow[h].user] # None
      BY <2>1, UsersStay DEF LoginsAreBacked
    <2>3. flow[h].pc = "session" => flow[h].user \in tokens'
      BY <2>1, UsersStay DEF LoginsAreBacked
    <2>4. QED
      BY <1>1, <2>2, <2>3
  <1>2. ASSUME NEW h \in Handler, \A k \in Handler \ {h} : flow'[k] = flow[k],
               \/ flow'[h] = flow[h]
               \/ flow'[h].pc \notin {"token", "session"}
               \/ /\ flow[h] \in SigningIn /\ flow'[h].user = flow[h].user
                  /\ flow'[h].pc = "token" /\ roles'[flow[h].user] # None
               \/ /\ flow[h] \in SigningIn /\ flow'[h].user = flow[h].user
                  /\ flow'[h].pc = "session" /\ flow[h].pc = "token" /\ flow[h].user \in tokens'
        PROVE  LoginsAreBacked'
    BY <1>1, <1>2 DEF LoginsAreBacked
  <1>3. ASSUME \A h \in Handler : flow'[h] = flow[h] \/ flow'[h] = Idle
        PROVE  LoginsAreBacked'
    BY <1>1, <1>3 DEF LoginsAreBacked, Idle
  <1>4. ASSUME NEW h \in Handler, Callback(h)
        PROVE  LoginsAreBacked'
    <2>1. ASSUME NEW kind, NEW s, Begin(h, kind, s)
          PROVE  flow'[h].pc = "exchange" /\ \A k \in Handler \ {h} : flow'[k] = flow[k]
      BY <2>1 DEF Begin, TypeOK
    <2>2. flow' = flow \/ \E kind, s : Begin(h, kind, s)
      BY <1>4 DEF Callback, ConsumeOAuthState
    <2>3. QED
      BY <1>2, <2>1, <2>2
  <1>5. ASSUME NEW h \in Handler, Identify(h)
        PROVE  LoginsAreBacked'
    <2>1. CASE flow' = [flow EXCEPT ![h] = Idle]
      BY <1>3, <2>1 DEF TypeOK
    <2>2. ASSUME NEW u \in User, flow[h] \in Exchanging,
                 flow' = [flow EXCEPT ![h] = [flow[h] EXCEPT !.pc = "upsert", !.user = u,
                                                             !.role = Role(u, conf.admins)]]
          PROVE  LoginsAreBacked'
      <3>1. flow'[h].pc = "upsert" /\ \A k \in Handler \ {h} : flow'[k] = flow[k]
        BY <2>2 DEF TypeOK, Exchanging
      <3>2. QED
        BY <1>2, <3>1
    <2>3. flow[h] \in Exchanging
      BY <1>5, NotSignedIn DEF Identify
    <2>4. QED
      BY <1>5, <2>1, <2>2, <2>3 DEF Identify
  <1>6. ASSUME NEW h \in Handler, UpsertUser(h)
        PROVE  LoginsAreBacked'
    <2>1. flow[h] \in SigningIn
      BY <1>6, SignedIn DEF UpsertUser
    <2>2. flow[h].user \in User /\ flow[h].role # None
      BY <2>1, NoneAssumption DEF SigningIn
    <2>3. roles'[flow[h].user] # None
      BY <1>6, <2>2 DEF UpsertUser, TypeOK
    <2>4. /\ flow'[h].pc = "token" /\ flow'[h].user = flow[h].user
          /\ \A k \in Handler \ {h} : flow'[k] = flow[k]
      BY <1>6, <2>1 DEF UpsertUser, TypeOK, SigningIn
    <2>5. QED
      BY <1>2, <2>1, <2>3, <2>4
  <1>7. ASSUME NEW h \in Handler, UpsertGitHubToken(h)
        PROVE  LoginsAreBacked'
    <2>1. flow[h] \in SigningIn
      BY <1>7, SignedIn DEF UpsertGitHubToken
    <2>2. /\ flow'[h].pc = "session" /\ flow'[h].user = flow[h].user
          /\ \A k \in Handler \ {h} : flow'[k] = flow[k]
      BY <1>7, <2>1 DEF UpsertGitHubToken, TypeOK, SigningIn
    <2>3. flow[h].pc = "token" /\ flow[h].user \in tokens'
      BY <1>7 DEF UpsertGitHubToken
    <2>4. QED
      BY <1>2, <2>1, <2>2, <2>3
  <1>8. ASSUME NEW h \in Handler, CreateSession(h) \/ Fail(h)
        PROVE  LoginsAreBacked'
    BY <1>3, <1>8 DEF CreateSession, Fail, TypeOK
  <1>9. CASE Restart
    BY <1>3, <1>9 DEF Restart
  <1>10. ASSUME NEW s \in State, HandleGitHubLogin(s) \/ HandleBrokerAuthorize(s)
         PROVE  LoginsAreBacked'
    BY <1>3, <1>10 DEF HandleGitHubLogin, HandleBrokerAuthorize, CreateOAuthState
  <1>11. CASE \/ \E s \in Session : ApproveDevice(s) \/ HandleLogout(s)
              \/ RunCleanup \/ ReloadFrom \/ SyncAdminRoles \/ Tick \/ UNCHANGED vars
    BY <1>3, <1>11 DEF ApproveDevice, HandleLogout, RunCleanup, ReloadFrom, SyncAdminRoles, Tick, vars
  <1>12. QED
    BY <1>4, <1>5, <1>6, <1>7, <1>8, <1>9, <1>10, <1>11 DEF Next

\* A session is one that was there, the one of a login, or one that a device was
\* given with another one.
LEMMA SessionSteps ==
  ASSUME TypeOK, [Next]_vars, NEW s \in Session, sessions'[s] # None
  PROVE  \/ sessions'[s] = sessions[s]
         \/ \E h \in Handler :
              /\ flow[h].pc = "session" /\ UNCHANGED <<clock, roles, tokens, lastAdmin>>
              /\ sessions'[s] = [user |-> flow[h].user, role |-> flow[h].role,
                                 exp |-> clock + SessionTTL, gen |-> 0]
         \/ \E t \in Session :
              /\ sessions[t] # None /\ clock <= sessions[t].exp
              /\ UNCHANGED <<clock, roles, tokens, lastAdmin>>
              /\ sessions'[s] = [user |-> sessions[t].user, role |-> sessions[t].role,
                                 exp |-> clock + SessionTTL, gen |-> sessions[t].gen + 1]
  <1>1. ASSUME NEW h \in Handler, CreateSession(h)
        PROVE  \/ sessions'[s] = sessions[s]
               \/ /\ flow[h].pc = "session" /\ UNCHANGED <<clock, roles, tokens, lastAdmin>>
                  /\ sessions'[s] = [user |-> flow[h].user, role |-> flow[h].role,
                                     exp |-> clock + SessionTTL, gen |-> 0]
    BY <1>1 DEF CreateSession, NewSession, history, TypeOK
  <1>2. ASSUME NEW t \in Session, ApproveDevice(t)
        PROVE  \/ sessions'[s] = sessions[s]
               \/ /\ sessions[t] # None /\ clock <= sessions[t].exp
                  /\ UNCHANGED <<clock, roles, tokens, lastAdmin>>
                  /\ sessions'[s] = [user |-> sessions[t].user, role |-> sessions[t].role,
                                     exp |-> clock + SessionTTL, gen |-> sessions[t].gen + 1]
    <2>1. sessions[t] # None /\ clock <= sessions[t].exp /\ LookupSession(t) = sessions[t]
      BY <1>2 DEF ApproveDevice, LookupSession
    <2>2. QED
      BY <1>2, <2>1 DEF ApproveDevice, NewSession, history, TypeOK
  <1>3. ASSUME NEW t \in Session, HandleLogout(t)
        PROVE  sessions'[s] = sessions[s]
    BY <1>3 DEF HandleLogout, TypeOK
  <1>4. CASE RunCleanup
    BY <1>4 DEF RunCleanup, LookupSession
  <1>5. ASSUME NEW h \in Handler,
               Callback(h) \/ Identify(h) \/ UpsertUser(h) \/ UpsertGitHubToken(h) \/ Fail(h)
        PROVE  UNCHANGED sessions
    BY <1>5 DEF Callback, Identify, UpsertUser, UpsertGitHubToken, Fail
  <1>6. ASSUME NEW t \in State, HandleGitHubLogin(t) \/ HandleBrokerAuthorize(t)
        PROVE  UNCHANGED sessions
    BY <1>6 DEF HandleGitHubLogin, HandleBrokerAuthorize, CreateOAuthState
  <1>7. CASE ReloadFrom \/ SyncAdminRoles \/ Restart \/ Tick \/ UNCHANGED vars
    BY <1>7 DEF ReloadFrom, SyncAdminRoles, Restart, Tick, vars
  <1>8. QED
    BY <1>1, <1>2, <1>3, <1>4, <1>5, <1>6, <1>7 DEF Next

LEMMA NextBacked ==
  ASSUME TypeOK, BackedInv, [Next]_vars
  PROVE  BackedInv'
  <1>1. ASSUME NEW s \in Session, sessions'[s] # None
        PROVE  roles'[sessions'[s].user] # None /\ sessions'[s].user \in tokens'
    <2>1. CASE sessions'[s] = sessions[s]
      <3>1. sessions[s].user \in User
        BY <1>1, <2>1 DEF TypeOK, SessionRow
      <3>2. roles[sessions[s].user] # None /\ sessions[s].user \in tokens
        BY <1>1, <2>1 DEF BackedInv, SessionsAreBacked
      <3>3. QED
        BY <2>1, <3>1, <3>2, UsersStay
    <2>2. ASSUME NEW h \in Handler, flow[h].pc = "session", UNCHANGED <<clock, roles, tokens, lastAdmin>>,
                 sessions'[s] = [user |-> flow[h].user, role |-> flow[h].role,
                                 exp |-> clock + SessionTTL, gen |-> 0]
          PROVE  roles'[sessions'[s].user] # None /\ sessions'[s].user \in tokens'
      BY <2>2 DEF BackedInv, LoginsAreBacked
    <2>3. ASSUME NEW t \in Session, sessions[t] # None, UNCHANGED <<clock, roles, tokens, lastAdmin>>,
                 sessions'[s] = [user |-> sessions[t].user, role |-> sessions[t].role,
                                 exp |-> clock + SessionTTL, gen |-> sessions[t].gen + 1]
          PROVE  roles'[sessions'[s].user] # None /\ sessions'[s].user \in tokens'
      BY <2>3 DEF BackedInv, SessionsAreBacked
    <2>4. QED
      BY <1>1, <2>1, <2>2, <2>3, SessionSteps
  <1>2. QED
    BY <1>1, NextLoginsBacked DEF BackedInv, SessionsAreBacked

\* Whoever has a session has a user row and GitHub credentials, whatever fails on
\* the way there.
THEOREM BackedSessions == Spec => []SessionsAreBacked
  <1>1. BackedInv => SessionsAreBacked
    BY DEF BackedInv
  <1>2. QED
    BY <1>1, TypeCorrect, InitBacked, NextBacked, PTL DEF Spec

-----------------------------------------------------------------------------
(* Roles.                                                                  *)

LEMMA NextRoles ==
  ASSUME TypeOK, RolesFollowConfig, [Next]_vars
  PROVE  RolesFollowConfig'
  <1>1. ASSUME UNCHANGED <<conf, syncing, roles, raced>>
        PROVE  RolesFollowConfig'
    BY <1>1 DEF RolesFollowConfig, Role
  <1>2. ASSUME NEW h \in Handler, UpsertUser(h)
        PROVE  RolesFollowConfig'
    <2>1. conf' = conf /\ syncing' = syncing
      BY <1>2 DEF UpsertUser
    <2>2. \A u \in User : u # flow[h].user => roles'[u] = roles[u] /\ (u \in raced' <=> u \in raced)
      BY <1>2 DEF UpsertUser, TypeOK
    <2>3. flow[h].user \in User
      BY <1>2, SignedIn DEF UpsertUser, SigningIn
    <2>4. flow[h].user \notin raced' => roles'[flow[h].user] = Role(flow[h].user, conf.admins)
      BY <1>2, <2>3 DEF UpsertUser, TypeOK
    <2>5. QED
      BY <2>1, <2>2, <2>4 DEF RolesFollowConfig, Role
  <1>3. CASE SyncAdminRoles
    <2>1. conf' = conf
      BY <1>3 DEF SyncAdminRoles
    <2>2. \A u \in User \ raced' : roles'[u] \in {None, Role(u, conf.admins)}
      BY <1>3 DEF SyncAdminRoles, Synced
    <2>3. QED
      BY <2>1, <2>2 DEF RolesFollowConfig, Role
  <1>4. CASE ReloadFrom \/ Restart
    BY <1>4 DEF ReloadFrom, Restart, RolesFollowConfig
  <1>5. ASSUME NEW h \in Handler,
               Callback(h) \/ Identify(h) \/ UpsertGitHubToken(h) \/ CreateSession(h) \/ Fail(h)
        PROVE  UNCHANGED <<conf, syncing, roles, raced>>
    BY <1>5 DEF Callback, Identify, UpsertGitHubToken, CreateSession, Fail, history
  <1>6. ASSUME NEW s \in State, HandleGitHubLogin(s) \/ HandleBrokerAuthorize(s)
        PROVE  UNCHANGED <<conf, syncing, roles, raced>>
    BY <1>6 DEF HandleGitHubLogin, HandleBrokerAuthorize, CreateOAuthState, history
  <1>7. CASE \/ \E s \in Session : ApproveDevice(s) \/ HandleLogout(s)
             \/ RunCleanup \/ Tick \/ UNCHANGED vars
    BY <1>1, <1>7 DEF ApproveDevice, HandleLogout, RunCleanup, Tick, vars, history
  <1>8. QED
    BY <1>1, <1>2, <1>3, <1>4, <1>5, <1>6, <1>7 DEF Next

\* Whenever no reload is under way, the roles in the users table are those of the
\* configuration, but for the users a race or a failure is known to have left out.
THEOREM RolesAreSynced == Spec => []RolesFollowConfig
  <1>1. Init => RolesFollowConfig
    BY DEF Init, RolesFollowConfig
  <1>2. QED
    BY <1>1, TypeCorrect, NextRoles, PTL DEF Spec

-----------------------------------------------------------------------------
(* Admin sessions.                                                         *)

\* What a session allows its user, counted from when the configuration last did.
Covered(r) ==
  r.role = "admin" => /\ lastAdmin[r.user] # None
                      /\ r.exp <= lastAdmin[r.user] + SessionTTL * (1 + r.gen)

\* Admins are admins now, other users were at times that are over; a login that goes on
\* with an admin has found it out in this clock unit.
AdminInv ==
  /\ \A u \in conf.admins : lastAdmin[u] = clock
  /\ \A u \in User : lastAdmin[u] # None => lastAdmin[u] <= clock
  /\ \A h \in Handler : flow[h].pc \in {"upsert", "token", "session"} /\ flow[h].role = "admin"
                          => lastAdmin[flow[h].user] = clock
  /\ \A s \in Session : sessions[s] # None => Covered(sessions[s])

LEMMA InitAdmin == Init => AdminInv
  <1> SUFFICES ASSUME Init PROVE AdminInv
    OBVIOUS
  <1>1. conf.admins \subseteq User
    BY LoginAssumption DEF Init
  <1>2. \A u \in conf.admins : lastAdmin[u] = clock
    BY <1>1 DEF Init
  <1>3. \A u \in User : lastAdmin[u] # None => lastAdmin[u] <= clock
    BY DEF Init
  <1>4. QED
    BY <1>2, <1>3 DEF Init, AdminInv, Idle

\* Steps that change the time or the configuration.
LEMMA TimeSteps ==
  ASSUME TypeOK, [Next]_vars
  PROVE  \/ UNCHANGED <<clock, conf, lastAdmin>>
         \/ clock' = clock /\ conf' \in Config /\ lastAdmin' = Seen(clock) /\ sessions' = sessions
         \/ /\ Tick /\ clock' = clock + 1 /\ conf' = conf
            /\ lastAdmin' = [u \in User |-> IF u \in conf.admins THEN clock + 1 ELSE lastAdmin[u]]
  <1>1. ASSUME NEW h \in Handler, Callback(h) \/ Identify(h) \/ UpsertUser(h) \/ UpsertGitHubToken(h)
                                    \/ CreateSession(h) \/ Fail(h)
        PROVE  UNCHANGED <<clock, conf, lastAdmin>>
    BY <1>1 DEF Callback, Identify, UpsertUser, UpsertGitHubToken, CreateSession, Fail, history
  <1>2. ASSUME NEW t \in State, HandleGitHubLogin(t) \/ HandleBrokerAuthorize(t)
        PROVE  UNCHANGED <<clock, conf, lastAdmin>>
    BY <1>2 DEF HandleGitHubLogin, HandleBrokerAuthorize, CreateOAuthState, history
  <1>3. CASE \/ \E s \in Session : ApproveDevice(s) \/ HandleLogout(s)
             \/ RunCleanup \/ SyncAdminRoles \/ UNCHANGED vars
    BY <1>3 DEF ApproveDevice, HandleLogout, RunCleanup, SyncAdminRoles, vars, history
  <1>4. CASE ReloadFrom \/ Restart
    BY <1>4 DEF ReloadFrom, Restart
  <1>5. CASE Tick
    BY <1>5 DEF Tick
  <1>6. QED
    BY <1>1, <1>2, <1>3, <1>4, <1>5 DEF Next

\* The times at which users were last admins.
LEMMA NextTimes ==
  ASSUME TypeOK, AdminInv, [Next]_vars
  PROVE  /\ \A u \in conf'.admins : lastAdmin'[u] = clock'
         /\ \A u \in User : /\ lastAdmin'[u] # None => lastAdmin'[u] <= clock'
                            /\ lastAdmin[u] # None => /\ lastAdmin'[u] # None
                                                      /\ lastAdmin[u] <= lastAdmin'[u]
                            /\ lastAdmin[u] = clock /\ ~Tick => lastAdmin'[u] = clock'
  <1> DEFINE Times ==
        /\ \A u \in conf'.admins : lastAdmin'[u] = clock'
        /\ \A u \in User : /\ lastAdmin'[u] # None => lastAdmin'[u] <= clock'
                           /\ lastAdmin[u] # None => /\ lastAdmin'[u] # None
                                                     /\ lastAdmin[u] <= lastAdmin'[u]
                           /\ lastAdmin[u] = clock /\ ~Tick => lastAdmin'[u] = clock'
  <1>1. clock \in Nat /\ conf \in Config /\ lastAdmin \in [User -> Nat \cup {None}]
    BY Numbers DEF TypeOK
  <1>2. \A c \in Config : c.admins \subseteq User
    BY LoginAssumption
  <1>3. /\ \A u \in conf.admins : lastAdmin[u] = clock
        /\ \A u \in User : lastAdmin[u] # None => lastAdmin[u] <= clock
    BY DEF AdminInv
  <1>4. \A n \in Nat : n # None
    BY NoneAssumption
  <1>5. CASE UNCHANGED <<clock, conf, lastAdmin>>
    BY <1>1, <1>3, <1>5
  <1>6. CASE clock' = clock /\ conf' \in Config /\ lastAdmin' = Seen(clock)
    <2>1. \A u \in User : lastAdmin'[u] = IF u \in conf'.admins THEN clock ELSE lastAdmin[u]
      BY <1>6 DEF Seen
    <2>2. conf'.admins \subseteq User
      BY <1>2, <1>6
    <2>3. QED
      BY <1>1, <1>3, <1>4, <1>6, <2>1, <2>2
  <1>7. CASE /\ Tick /\ clock' = clock + 1 /\ conf' = conf
             /\ lastAdmin' = [u \in User |-> IF u \in conf.admins THEN clock + 1 ELSE lastAdmin[u]]
    <2>1. \A u \in User : lastAdmin'[u] = IF u \in conf.admins THEN clock + 1 ELSE lastAdmin[u]
      BY <1>7
    <2>2. clock' = clock + 1 /\ clock + 1 \in Nat /\ conf' = conf /\ conf.admins \subseteq User
      BY <1>1, <1>2, <1>7
    <2>3. \A u \in conf.admins : lastAdmin'[u] = clock'
      BY <2>1, <2>2
    <2>4. ASSUME NEW u \in User
          PROVE  /\ lastAdmin'[u] # None => lastAdmin'[u] <= clock'
                 /\ lastAdmin[u] # None => lastAdmin'[u] # None /\ lastAdmin[u] <= lastAdmin'[u]
      BY <1>1, <1>3, <1>4, <2>1, <2>2
    <2>5. QED
      BY <1>7, <2>2, <2>3, <2>4
  <1>8. QED
    BY <1>5, <1>6, <1>7, TimeSteps

LEMMA CoveredKept ==
  ASSUME TypeOK, AdminInv, [Next]_vars, NEW r \in SessionRow, Covered(r)
  PROVE  Covered(r)'
  <1>1. CASE r.role # "admin"
    BY <1>1 DEF Covered
  <1>2. CASE r.role = "admin"
    <2>1. r.user \in User /\ r.exp \in Nat /\ lastAdmin[r.user] # None
      BY <1>2 DEF SessionRow, Covered
    <2>2. lastAdmin'[r.user] # None /\ lastAdmin[r.user] <= lastAdmin'[r.user]
      BY <2>1, NextTimes
    <2>3. TypeOK'
      BY NextTypeOK
    <2>4. lastAdmin[r.user] \in Nat /\ lastAdmin'[r.user] \in Nat
      BY <2>1, <2>2, <2>3 DEF TypeOK
    <2>5. PICK span \in Int : span = SessionTTL * (1 + r.gen)
      BY Numbers DEF SessionRow
    <2>6. r.exp <= lastAdmin[r.user] + span
      BY <1>2, <2>5 DEF Covered
    <2>7. r.exp <= lastAdmin'[r.user] + span
      BY <2>1, <2>2, <2>4, <2>6
    <2>8. QED
      BY <2>2, <2>5, <2>7 DEF Covered
  <1>3. QED
    BY <1>1, <1>2

\* A session that is made covers its user.
LEMMA NextCovered ==
  ASSUME TypeOK, AdminInv, [Next]_vars, NEW s \in Session, sessions'[s] # None
  PROVE  \E r \in SessionRow : sessions'[s] = r /\ Covered(r)'
  <1>1. sessions'[s] \in SessionRow
    BY NextTypeOK DEF TypeOK
  <1>2. PICK r \in SessionRow : sessions'[s] = r
    BY <1>1
  <1>3. CASE sessions'[s] = sessions[s]
    <2>1. sessions[s] = r /\ Covered(sessions[s])
      BY <1>2, <1>3 DEF AdminInv
    <2>2. Covered(r)
      BY <2>1
    <2>3. QED
      BY <1>2, <2>2, CoveredKept
  <1>4. ASSUME NEW h \in Handler, flow[h].pc = "session", UNCHANGED <<clock, roles, tokens, lastAdmin>>,
               r = [user |-> flow[h].user, role |-> flow[h].role, exp |-> clock + SessionTTL, gen |-> 0],
               r.role = "admin"
        PROVE  Covered(r)'
    <2>1. lastAdmin[r.user] = clock /\ clock \in Nat
      BY <1>4, Numbers DEF AdminInv, TypeOK
    <2>2. r.exp <= lastAdmin[r.user] + SessionTTL * (1 + r.gen)
      <3>1. SessionTTL * (1 + 0) = SessionTTL
        BY Numbers
      <3>2. QED
        BY <1>4, <2>1, <3>1, Numbers
    <2>3. QED
      BY <1>4, <2>1, <2>2, NoneAssumption DEF Covered
  <1>5. ASSUME NEW t \in Session, sessions[t] # None, clock <= sessions[t].exp,
               UNCHANGED <<clock, roles, tokens, lastAdmin>>,
               r = [user |-> sessions[t].user, role |-> sessions[t].role,
                    exp |-> clock + SessionTTL, gen |-> sessions[t].gen + 1],
               r.role = "admin"
        PROVE  Covered(r)'
    <2>1. sessions[t] \in SessionRow /\ Covered(sessions[t])
      BY <1>5 DEF AdminInv, TypeOK
    <2>2. /\ sessions[t].user \in User /\ sessions[t].exp \in Nat /\ sessions[t].gen \in Nat
          /\ clock \in Nat /\ SessionTTL \in Nat
      BY <2>1, Numbers DEF SessionRow, TypeOK
    <2>3. /\ lastAdmin[r.user] # None
          /\ sessions[t].exp <= lastAdmin[r.user] + SessionTTL * (1 + sessions[t].gen)
      BY <1>5, <2>1 DEF Covered
    <2>4. lastAdmin[r.user] \in Nat
      BY <1>5, <2>2, <2>3 DEF TypeOK
    <2>5. SessionTTL * (1 + r.gen) = SessionTTL * (1 + sessions[t].gen) + SessionTTL
      <3>1. \A a, b \in Nat : a * (1 + (b + 1)) = a * (1 + b) + a
        OBVIOUS
      <3>2. QED
        BY <1>5, <2>2, <3>1
    <2>6. SessionTTL * (1 + sessions[t].gen) \in Int
      BY <2>2
    <2>7. r.exp <= lastAdmin[r.user] + SessionTTL * (1 + r.gen)
      BY <1>5, <2>2, <2>3, <2>4, <2>5, <2>6
    <2>8. QED
      BY <1>5, <2>3, <2>7 DEF Covered
  <1>6. CASE r.role # "admin"
    BY <1>2, <1>6 DEF Covered
  <1>7. QED
    BY <1>2, <1>3, <1>4, <1>5, <1>6, SessionSteps

\* A login that goes on.
LEMMA NextFlows ==
  ASSUME TypeOK, AdminInv, [Next]_vars, NEW h \in Handler,
         flow'[h].pc \in {"upsert", "token", "session"}, flow'[h].role = "admin"
  PROVE  lastAdmin'[flow'[h].user] = clock'
  <1>1. \/ flow[h].pc \in {"upsert", "token", "session"} /\ flow[h].role = "admin"
           /\ flow'[h].user = flow[h].user /\ ~Tick
        \/ flow'[h].user \in conf.admins /\ UNCHANGED <<clock, conf, lastAdmin>>
    <2>1. CASE flow'[h] = flow[h]
      BY <2>1 DEF Tick, Idle
    <2>2. ASSUME NEW k \in Handler, Identify(k), flow'[h] # flow[h]
          PROVE  flow'[h].user \in conf.admins /\ UNCHANGED <<clock, conf, lastAdmin>>
      <3>1. h = k
        BY <2>2 DEF Identify, TypeOK
      <3>2. flow[h] \in Exchanging
        BY <2>2, <3>1, NotSignedIn DEF Identify
      <3>3. flow' # [flow EXCEPT ![h] = Idle]
        BY <3>1 DEF TypeOK, Idle
      <3>4. PICK u \in User : flow' = [flow EXCEPT ![h] = [flow[h] EXCEPT !.pc = "upsert", !.user = u,
                                                                          !.role = Role(u, conf.admins)]]
        BY <2>2, <3>1, <3>3 DEF Identify
      <3>5. flow'[h].user = u /\ flow'[h].role = Role(u, conf.admins)
        BY <3>2, <3>4 DEF TypeOK, Exchanging
      <3>6. QED
        BY <2>2, <3>5 DEF Identify, Role, history
    <2>3. ASSUME NEW k \in Handler, UpsertUser(k) \/ UpsertGitHubToken(k), flow'[h] # flow[h]
          PROVE  flow[h].pc \in {"upsert", "token", "session"} /\ flow[h].role = "admin"
                 /\ flow'[h].user = flow[h].user /\ ~Tick
      <3>1. h = k
        BY <2>3 DEF UpsertUser, UpsertGitHubToken, TypeOK
      <3>2. flow[h] \in SigningIn /\ flow[h].pc \in {"upsert", "token"}
        BY <2>3, <3>1, SignedIn DEF UpsertUser, UpsertGitHubToken
      <3>3. flow'[h].user = flow[h].user /\ flow'[h].role = flow[h].role
        BY <2>3, <3>1, <3>2 DEF UpsertUser, UpsertGitHubToken, TypeOK, SigningIn
      <3>4. ~Tick
        BY <2>3 DEF Tick, UpsertUser, UpsertGitHubToken
      <3>5. QED
        BY <3>2, <3>3, <3>4
    <2>4. ASSUME NEW k \in Handler, Callback(k)
          PROVE  flow'[h] = flow[h]
      <3>1. ASSUME NEW kind, NEW s, Begin(k, kind, s)
            PROVE  flow'[k].pc = "exchange" /\ \A j \in Handler \ {k} : flow'[j] = flow[j]
        BY <3>1 DEF Begin, TypeOK
      <3>2. flow' = flow \/ \E kind, s : Begin(k, kind, s)
        BY <2>4 DEF Callback, ConsumeOAuthState
      <3>3. QED
        BY <3>1, <3>2
    <2>5. ASSUME NEW k \in Handler, CreateSession(k) \/ Fail(k)
          PROVE  flow'[h] = flow[h]
      BY <2>5 DEF CreateSession, Fail, TypeOK, Idle
    <2>6. CASE Restart
      BY <2>6 DEF Restart, Idle
    <2>7. ASSUME NEW s \in State, HandleGitHubLogin(s) \/ HandleBrokerAuthorize(s)
          PROVE  flow' = flow
      BY <2>7 DEF HandleGitHubLogin, HandleBrokerAuthorize, CreateOAuthState
    <2>8. CASE \/ \E s \in Session : ApproveDevice(s) \/ HandleLogout(s)
               \/ RunCleanup \/ ReloadFrom \/ SyncAdminRoles \/ Tick \/ UNCHANGED vars
      BY <2>1, <2>8 DEF ApproveDevice, HandleLogout, RunCleanup, ReloadFrom, SyncAdminRoles, Tick, vars
    <2>9. QED
      BY <2>1, <2>2, <2>3, <2>4, <2>5, <2>6, <2>7, <2>8 DEF Next
  <1>2. CASE /\ flow[h].pc \in {"upsert", "token", "session"} /\ flow[h].role = "admin"
             /\ flow'[h].user = flow[h].user /\ ~Tick
    <2>1. flow[h].user \in User
      BY <1>2, SignedIn DEF SigningIn
    <2>2. lastAdmin[flow[h].user] = clock
      BY <1>2 DEF AdminInv
    <2>3. QED
      BY <1>2, <2>1, <2>2, NextTimes
  <1>3. CASE flow'[h].user \in conf.admins /\ UNCHANGED <<clock, conf, lastAdmin>>
    BY <1>3 DEF AdminInv
  <1>4. QED
    BY <1>1, <1>2, <1>3

LEMMA NextAdmin ==
  ASSUME TypeOK, AdminInv, [Next]_vars
  PROVE  AdminInv'
  <1>1. ASSUME NEW s \in Session, sessions'[s] # None
        PROVE  Covered(sessions[s])'
    <2>1. PICK r \in SessionRow : sessions'[s] = r /\ Covered(r)'
      BY <1>1, NextCovered
    <2>2. QED
      BY <2>1 DEF Covered
  <1>2. QED
    BY <1>1, NextTimes, NextFlows DEF AdminInv

\* A demoted admin passes RequireAdmin no longer than a session lasts after the
\* configuration last named them, and once more as long for each approval in between.
THEOREM BoundedAdminAccess == Spec => []AdminAccessIsBounded
  <1>1. TypeOK /\ AdminInv => AdminAccessIsBounded
    <2> SUFFICES ASSUME TypeOK, AdminInv, NEW s \in Session, IsAdminSession(s)
                 PROVE  /\ lastAdmin[sessions[s].user] # None
                        /\ clock <= lastAdmin[sessions[s].user] + SessionTTL * (1 + sessions[s].gen)
      BY DEF AdminAccessIsBounded
    <2>1. sessions[s] # None /\ clock <= sessions[s].exp /\ sessions[s].role = "admin"
      BY DEF IsAdminSession, LookupSession
    <2>2. sessions[s] \in SessionRow /\ Covered(sessions[s])
      BY <2>1 DEF AdminInv, TypeOK
    <2>3. sessions[s].user \in User /\ sessions[s].exp \in Nat /\ sessions[s].gen \in Nat /\ clock \in Nat
      BY <2>2, Numbers DEF SessionRow, TypeOK
    <2>4. /\ lastAdmin[sessions[s].user] # None
          /\ sessions[s].exp <= lastAdmin[sessions[s].user] + SessionTTL * (1 + sessions[s].gen)
      BY <2>1, <2>2 DEF Covered
    <2>5. lastAdmin[sessions[s].user] \in Nat /\ SessionTTL * (1 + sessions[s].gen) \in Int
      BY <2>3, <2>4, Numbers DEF TypeOK
    <2>6. QED
      BY <2>1, <2>3, <2>4, <2>5
  <1>2. QED
    BY <1>1, TypeCorrect, InitAdmin, NextAdmin, PTL DEF Spec
=============================================================================
