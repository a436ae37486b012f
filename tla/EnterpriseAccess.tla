--------------------------- MODULE EnterpriseAccess ---------------------------
(***************************************************************************)
(* The enterprise access restriction: which requests go to GitHub without  *)
(* the restriction header, and which with a managed identity               *)
(* (internal/proxy/enterprise.go).  It depends on who the caller is        *)
(* (internal/proxy/username.go) and on the teams the caller is in.  Both   *)
(* are asked of GitHub by one goroutine at a time for everybody who waits, *)
(* and both are cached.                                                    *)
(*                                                                         *)
(* All requests carry the credential of one user.  "user" is the question  *)
(* who that is; every other question is whether the user is in a team.     *)
(***************************************************************************)
EXTENDS Integers, Sequences, Functions

CONSTANTS
  Request,       \* goroutines serving requests
  Background,    \* goroutines started by ResolveFromGitHubToken
  Exceptions,    \* github.enterprise_exceptions: a sequence of [names, teams,
                 \* badTeams (are there malformed entries too), identity]; a name
                 \* is the sequence of its parts, "owner" or "owner/repo"
  Team,          \* the teams
  Target,        \* what requests address, and whether they carry a credential:
                 \* [api, path, anonymous]
  UserTTL,       \* usernameCacheTTL
  TeamTTL,       \* teamMembershipCacheTTL
  MaxFlight,     \* bound: time from GitHub's answer until it is stored
  MaxClock,      \* bound: time
  MaxFaults      \* bound: changes at GitHub, failed lookups and clients that go away

ASSUME TimeAssumption == UserTTL \in Nat /\ TeamTTL \in Nat /\ MaxFlight \in Nat
                         /\ MaxClock \in Nat /\ MaxFaults \in Nat

ASSUME ProcessAssumption == Request \cap Background = {}

ASSUME PolicyAssumption ==
  /\ "user" \notin Team
  /\ Exceptions \in Seq([names : SUBSET Seq(STRING), teams : Seq(Team), badTeams : BOOLEAN,
                         identity : BOOLEAN])
  /\ Target \subseteq [api : BOOLEAN, path : Seq(STRING) \ {<<>>}, anonymous : BOOLEAN]

Question == {"user"} \cup Team
Process  == Request \cup Background
TTL(k)   == IF k = "user" THEN UserTTL ELSE TeamTTL

VARIABLES
  clock,
  truth,       \* what GitHub would answer
  cache,       \* [yes, at] or Absent
  flight,      \* inflight and flights: Absent or [open, yes] of the current flight
  pc, key,     \* of each process, and the question it is asking
  verdict,     \* the answer it has, or is waiting for ("none")
  asked,       \* when GitHub gave the answer the process is going to store
  req,         \* [target, login, gone, teams]: the teams still to be asked
  outcome,     \* "none", "kept", "omitted" or "substituted"
  started,     \* history: when the request began
  lastYes,     \* history: when GitHub would last have answered yes
  lastNo,      \* history: when it would last have answered no, or a lookup failed
  faults         \* bounded by MaxFaults

vars == <<clock, truth, cache, flight, pc, key, verdict, asked, req, outcome,
          started, lastYes, lastNo, faults>>

github == <<clock, truth, lastYes, lastNo, faults>>
shared == <<cache, flight>>

Absent == [at |-> -1]

\* Too long ago to matter.
Never == -MaxClock - UserTTL - TeamTTL - MaxFlight

NoRequest == [target |-> Absent, login |-> FALSE, gone |-> FALSE, teams |-> <<>>]

TypeOK ==
  /\ clock \in 0..MaxClock
  /\ truth \in [Question -> BOOLEAN]
  /\ cache \in [Question -> [yes : BOOLEAN, at : Nat] \cup {Absent}]
  /\ flight \in [Question -> [open : BOOLEAN, yes : BOOLEAN] \cup {Absent}]
  /\ pc \in [Process -> {"idle", "match", "lookup", "join", "wait",
                         "ask", "store", "delete", "answered", "done"}]
  /\ key \in [Process -> Question]
  /\ verdict \in [Process -> {"none", "yes", "no"}]
  /\ asked \in [Process -> Nat]
  /\ req \in [Request -> [target : Target \cup {Absent}, login : BOOLEAN, gone : BOOLEAN,
                          teams : Seq(Team)]]
  /\ outcome \in [Request -> {"none", "kept", "omitted", "substituted"}]
  /\ started \in [Request -> Nat]
  /\ lastYes \in [Question -> Int] /\ lastNo \in [Question -> Int]
  /\ faults \in 0..MaxFaults

Init ==
  /\ clock = 0
  /\ truth \in {t \in [Question -> BOOLEAN] : t["user"]}
  /\ cache = [k \in Question |-> Absent]
  /\ flight = [k \in Question |-> Absent]
  /\ pc = [p \in Process |-> "idle"]
  /\ key = [p \in Process |-> "user"]
  /\ verdict = [p \in Process |-> "none"]
  /\ asked = [p \in Process |-> 0]
  /\ req = [r \in Request |-> NoRequest]
  /\ outcome = [r \in Request |-> "none"]
  /\ started = [r \in Request |-> 0]
  /\ lastYes = [k \in Question |-> IF truth[k] THEN 0 ELSE Never]
  /\ lastNo = [k \in Question |-> IF truth[k] THEN Never ELSE 0]
  /\ faults = 0

-----------------------------------------------------------------------------
(* The environment.                                                        *)

\* What a goroutine has learned it shares at once: time does not outrun it.
Tick ==
  /\ clock < MaxClock
  /\ \A p \in Process : pc[p] \in {"store", "delete"} => clock < asked[p] + MaxFlight
  /\ clock' = clock + 1
  /\ lastYes' = [k \in Question |-> IF truth[k] THEN clock' ELSE lastYes[k]]
  /\ lastNo' = [k \in Question |-> IF truth[k] THEN lastNo[k] ELSE clock']
  /\ UNCHANGED <<truth, faults, shared, pc, key, verdict, asked, req, outcome, started>>

Fault == faults < MaxFaults /\ faults' = faults + 1

\* The user joins or leaves a team, or the credential is revoked.
Change(k) ==
  /\ Fault
  /\ k = "user" => truth[k]
  /\ truth' = [truth EXCEPT ![k] = ~@]
  /\ lastYes' = [lastYes EXCEPT ![k] = clock]
  /\ lastNo' = [lastNo EXCEPT ![k] = clock]
  /\ UNCHANGED <<clock, shared, pc, key, verdict, asked, req, outcome, started>>

-----------------------------------------------------------------------------
(* isMember and ResolveFromGitHubTokenSync: the same protocol.             *)

Fresh(k) == cache[k] # Absent /\ clock < cache[k].at + TTL(k)

At(p, here) == pc[p] = here
GoTo(p, there) == pc' = [pc EXCEPT ![p] = there]

Lookup(p) ==
  /\ At(p, "lookup")
  /\ IF Fresh(key[p])
     THEN verdict' = [verdict EXCEPT ![p] = IF cache[key[p]].yes THEN "yes" ELSE "no"] /\ GoTo(p, "answered")
     ELSE UNCHANGED verdict /\ GoTo(p, "join")
  /\ UNCHANGED <<github, shared, key, asked, req, outcome, started>>

\* Mutant of Join: whoever comes after the close waits for another one.
JoinMissesClose(p) ==
  LET k == key[p] IN
  /\ At(p, "join")
  /\ IF flight[k] = Absent
     THEN flight' = [flight EXCEPT ![k] = [open |-> TRUE, yes |-> FALSE]] /\ GoTo(p, "ask")
     ELSE UNCHANGED flight /\ GoTo(p, "wait")
  /\ UNCHANGED <<github, cache, key, verdict, asked, req, outcome, started>>

\* LoadOrStore: lead a flight of one's own, or wait for the one that is there.
Join(p) ==
  LET k == key[p] IN
  /\ At(p, "join")
  /\ IF flight[k] = Absent
     THEN flight' = [flight EXCEPT ![k] = [open |-> TRUE, yes |-> FALSE]] /\ GoTo(p, "ask") /\ UNCHANGED verdict
     ELSE /\ UNCHANGED flight
          /\ GoTo(p, "wait")
          /\ verdict' = [verdict EXCEPT ![p] =
               IF flight[k].open THEN "none" ELSE IF flight[k].yes THEN "yes" ELSE "no"]
  /\ UNCHANGED <<github, cache, key, asked, req, outcome, started>>

\* The roundtrip, which a process whose client is gone does not survive.  Any
\* failure counts as a no.
Ask(p) ==
  LET k == key[p]
      gone == IF p \in Request THEN req[p].gone ELSE FALSE
  IN
  /\ At(p, "ask")
  /\ \/ /\ ~gone
        /\ verdict' = [verdict EXCEPT ![p] = IF truth[k] THEN "yes" ELSE "no"]
        /\ UNCHANGED <<lastNo, faults>>
     \/ /\ IF gone THEN UNCHANGED faults ELSE Fault
        /\ verdict' = [verdict EXCEPT ![p] = "no"]
        /\ lastNo' = [lastNo EXCEPT ![k] = clock]
  /\ asked' = [asked EXCEPT ![p] = clock]
  /\ GoTo(p, "store")
  /\ UNCHANGED <<clock, truth, lastYes, shared, key, req, outcome, started>>

\* The waiters of the flight see its verdict once done is closed.
Delivered(p) ==
  [q \in Process |-> IF pc[q] = "wait" /\ key[q] = key[p] /\ verdict[q] = "none" THEN verdict[p] ELSE verdict[q]]

\* Mutant of Store: done is closed before the verdict is in the flight.
StoreClosesFirst(p) ==
  LET k == key[p] yes == verdict[p] = "yes" IN
  /\ At(p, "store")
  /\ cache' = IF k = "user" /\ ~yes THEN cache ELSE [cache EXCEPT ![k] = [yes |-> yes, at |-> clock]]
  /\ flight' = [flight EXCEPT ![k] = [open |-> FALSE, yes |-> yes]]
  /\ verdict' = [q \in Process |-> IF pc[q] = "wait" /\ key[q] = k /\ verdict[q] = "none" THEN "no" ELSE verdict[q]]
  /\ GoTo(p, "delete")
  /\ UNCHANGED <<github, key, asked, req, outcome, started>>

\* cache.Add (a user that could not be resolved is not cached), then close(done).
Store(p) ==
  LET k == key[p] yes == verdict[p] = "yes" IN
  /\ At(p, "store")
  /\ cache' = IF k = "user" /\ ~yes THEN cache ELSE [cache EXCEPT ![k] = [yes |-> yes, at |-> clock]]
  /\ flight' = [flight EXCEPT ![k] = [open |-> FALSE, yes |-> yes]]
  /\ verdict' = Delivered(p)
  /\ GoTo(p, "delete")
  /\ UNCHANGED <<github, key, asked, req, outcome, started>>

Delete(p) ==
  /\ At(p, "delete")
  /\ flight' = [flight EXCEPT ![key[p]] = Absent]
  /\ GoTo(p, IF p \in Background THEN "idle" ELSE "answered")
  /\ asked' = [asked EXCEPT ![p] = 0]
  /\ UNCHANGED <<github, cache, key, verdict, req, outcome, started>>

Wake(p) ==
  /\ At(p, "wait") /\ verdict[p] # "none"
  /\ GoTo(p, "answered")
  /\ UNCHANGED <<github, shared, key, verdict, asked, req, outcome, started>>

\* The client goes away: a waiter gives up with a no, a lookup under way fails.
Cancel(p) ==
  /\ pc[p] \in {"wait", "ask"} /\ ~req[p].gone
  /\ Fault
  /\ req' = [req EXCEPT ![p].gone = TRUE]
  /\ IF pc[p] = "wait" THEN GoTo(p, "answered") /\ verdict' = [verdict EXCEPT ![p] = "no"]
     ELSE UNCHANGED <<pc, verdict>>
  /\ UNCHANGED <<clock, truth, lastYes, lastNo, shared, key, asked, outcome, started>>

-----------------------------------------------------------------------------
(* The policy.                                                             *)

\* NewEnterprisePolicy: an exception without a well-formed name is dropped, and so
\* is one whose teams are all malformed.
Names(e)  == {n \in e.names : Len(n) \in {1, 2}}
Usable(e) == Names(e) # {} /\ ~(e.badTeams /\ e.teams = <<>>)
Compiled  == {i \in DOMAIN Exceptions : Usable(Exceptions[i])}

\* The owner a path addresses, with the repository if there is one.
APITarget(path) ==
  CASE path[1] = "repos" /\ Len(path) >= 3           -> SubSeq(path, 2, 3)
    [] path[1] \in {"users", "orgs"} /\ Len(path) >= 2 -> SubSeq(path, 2, 2)
    [] OTHER                                          -> <<>>
WebTarget(path) == IF Len(path) < 2 THEN path ELSE SubSeq(path, 1, 2)

Addressed(t) == IF t.api THEN APITarget(t.path) ELSE WebTarget(t.path)

Naming(n) == {i \in Compiled : n \in Names(Exceptions[i])}

\* The exceptions for the repository; only without any, those for its owner.
Matching(t) ==
  LET a == Addressed(t) IN
  CASE a = <<>>                      -> {}
    [] a # <<>> /\ Naming(a) # {}    -> Naming(a)
    [] a # <<>> /\ Naming(a) = {}    -> Naming(<<a[1]>>)

\* "the first configured exception wins"
Exception(t) == Exceptions[CHOOSE i \in Matching(t) : \A j \in Matching(t) : i <= j]

\* The request arrives; its user is looked up in the background if need be.
Start(r) ==
  /\ At(r, "idle")
  /\ \E t \in Target :
       LET login == ~t.anonymous /\ Fresh("user") IN
       /\ req' = [req EXCEPT ![r] = [target |-> t, gone |-> FALSE, teams |-> <<>>, login |-> login]]
       /\ IF ~t.anonymous /\ ~login /\ flight["user"] = Absent /\ \E b \in Background : pc[b] = "idle"
          THEN \E b \in Background :
                 /\ pc[b] = "idle"
                 /\ pc' = [pc EXCEPT ![r] = "match", ![b] = "ask"]
                 /\ key' = [key EXCEPT ![b] = "user"]
                 /\ flight' = [flight EXCEPT !["user"] = [open |-> TRUE, yes |-> FALSE]]
          ELSE GoTo(r, "match") /\ UNCHANGED <<key, flight>>
  /\ started' = [started EXCEPT ![r] = clock]
  /\ UNCHANGED <<github, cache, verdict, asked, outcome>>

AskAbout(r, k) ==
  /\ GoTo(r, "lookup")
  /\ key' = [key EXCEPT ![r] = k]
  /\ verdict' = [verdict EXCEPT ![r] = "none"]
  /\ UNCHANGED outcome

Decide(r, o) ==
  /\ outcome' = [outcome EXCEPT ![r] = o]
  /\ GoTo(r, "done")
  /\ UNCHANGED <<key, verdict>>

\* The caller passes the gate.  InstallationTokenForOwner may fail, or hand out
\* an empty token.
Lift(r, e, login) ==
  IF e.identity THEN Decide(r, "kept") \/ (login /\ Decide(r, "substituted"))
  ELSE Decide(r, "omitted")

\* Mutant of Gate: an unknown caller is only stopped by a team that says no.
GateOpen(r, e, login) ==
  IF e.teams = <<>> \/ ~login THEN Lift(r, e, login) ELSE AskAbout(r, Head(e.teams))

\* The team gate of evaluate, for a login that may be unknown.
Gate(r, e, login) ==
  CASE e.teams = <<>>             -> Lift(r, e, login)
    [] e.teams # <<>> /\ login   -> AskAbout(r, Head(e.teams))
    [] e.teams # <<>> /\ ~login  -> Decide(r, "kept")

\* evaluate: match, and who the caller is when the exception asks for that.
Match(r) ==
  /\ At(r, "match")
  /\ IF Matching(req[r].target) = {} THEN Decide(r, "kept") /\ UNCHANGED req
     ELSE LET e == Exception(req[r].target) IN
          /\ req' = [req EXCEPT ![r].teams = e.teams]
          /\ IF (e.teams # <<>> \/ e.identity) /\ ~req[r].login /\ ~req[r].target.anonymous
             THEN AskAbout(r, "user")
             ELSE Gate(r, e, req[r].login)
  /\ UNCHANGED <<github, shared, asked, started>>

\* The caller is known now, or the caller is in a team, or the next one is tried.
Answered(r) ==
  LET e    == Exception(req[r].target)
      yes  == verdict[r] = "yes"
      rest == Tail(req[r].teams)
  IN
  /\ At(r, "answered")
  /\ IF key[r] = "user" THEN req' = [req EXCEPT ![r].login = yes] /\ Gate(r, e, yes)
     ELSE /\ req' = [req EXCEPT ![r].teams = rest]
          /\ CASE yes                  -> Lift(r, e, TRUE)
               [] ~yes /\ rest = <<>>  -> Decide(r, "kept")
               [] ~yes /\ rest # <<>>  -> AskAbout(r, Head(rest))
  /\ UNCHANGED <<github, shared, asked, started>>

-----------------------------------------------------------------------------

Progress(p) ==
  \/ Lookup(p) \/ Join(p) \/ Ask(p) \/ Store(p) \/ Delete(p) \/ Wake(p)
  \/ (p \in Request /\ (Match(p) \/ Answered(p)))

Next ==
  \/ Tick
  \/ \E k \in Question : Change(k)
  \/ \E p \in Process : Progress(p)
  \/ \E r \in Request : Start(r) \/ Cancel(r)

Spec == Init /\ [][Next]_vars

-----------------------------------------------------------------------------
(* Properties.                                                             *)

\* The caller was known, or in the team, recently enough before the request.
RecentYes(r, k) == lastYes[k] >= started[r] - TTL(k) - MaxFlight
RecentNo(r, k)  == lastNo[k] >= started[r] - TTL(k) - MaxFlight

\* The exceptions of the configuration that are about the target and not about
\* its owner, if there are any.
Configured(n) == {i \in DOMAIN Exceptions : n \in Exceptions[i].names}
Gated(i)      == Exceptions[i].badTeams => Exceptions[i].teams # <<>>

About(t) ==
  LET a == Addressed(t) IN
  IF \E i \in Configured(a) : Gated(i) THEN Configured(a) ELSE Configured(<<a[1]>>)

\* The restriction is only lifted for a caller GitHub would have recognised, and
\* have called a member of one of the teams the exception configures, within the
\* life of a cache entry: a malformed gate, a broad rule in front of a narrow one,
\* a shared lookup or a stale verdict never lifts it.
LiftedForMembers ==
  \A r \in Request :
    outcome[r] \in {"omitted", "substituted"} =>
      \E i \in About(req[r].target) :
        LET e == Exceptions[i] IN
        /\ \A j \in About(req[r].target) : j < i => Exceptions[j].badTeams
        /\ e.badTeams => e.teams # <<>>
        /\ e.teams # <<>> => /\ \E k \in Range(e.teams) : RecentYes(r, k)
                             /\ RecentYes(r, "user")
        /\ e.identity = (outcome[r] = "substituted")
        /\ e.identity => RecentYes(r, "user")

\* A team-gated request of a known caller is only kept restricted when a lookup
\* for every one of the teams said no, failed or was cancelled recently, or the
\* client is gone: a shared or cached no is never older than a cached yes may be.
KeptForNonMembers ==
  \A r \in Request :
    /\ outcome[r] = "kept" /\ req[r].login /\ ~req[r].gone
    /\ Matching(req[r].target) # {}
    /\ ~Exception(req[r].target).identity
    => \A k \in Range(Exception(req[r].target).teams) : RecentNo(r, k)

\* Nobody waits for an answer that nobody is getting: who waits has not missed
\* the close of the flight, and the flight it waits for is led by a goroutine that
\* waits for nobody.
WaitersHaveALeader ==
  \A p \in Process :
    pc[p] = "wait" /\ verdict[p] = "none" =>
      \E q \in Process : key[q] = key[p] /\ pc[q] \in {"ask", "store"}
=============================================================================
