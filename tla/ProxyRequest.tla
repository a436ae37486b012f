----------------------------- MODULE ProxyRequest -----------------------------
(***************************************************************************)
(* What happens to a request that reaches the proxy: the REST and GraphQL  *)
(* handler (internal/proxy/proxy.go), the scoped passthrough in front of   *)
(* github.com (passthrough.go) behind the release policy (releases.go) and *)
(* the codeload handler (codeload.go), while the client token is changed   *)
(* in the store and the configuration is reloaded (config.ReloadFrom).     *)
(*                                                                         *)
(* A request is [kind |-> "rest", method, path], [kind |-> "graphql",      *)
(* method, body, doc], [kind |-> "git", method, repo, suffix, service],    *)
(* [kind |-> "web"] (any other path of github.com), [kind |-> "release",   *)
(* repo] or [kind |-> "archive", repo]; cred says what its Authorization   *)
(* header carries.  needs and touches say what it does at GitHub: the      *)
(* permissions and the repositories.  No action reads them.                *)
(***************************************************************************)
EXTENDS GraphQLScope, FiniteSets

CONSTANTS
  Handler,     \* goroutines serving requests
  Scenario,    \* names of the situations to consider, and for each of them:
  Load,        \*   the requests each handler may get
  Rows,        \*   the versions of the client token
  Confs,       \*   the configurations
  IsAgent,     \*   whether it is an agent token
  MaxUpdates   \*   bound: changes of the token and of the configuration

\* The codeload handler looks at no credential.
ASSUME ProxyAssumption ==
  /\ MaxUpdates \in [Scenario -> Nat]
  /\ \A s \in Scenario, h \in Handler : \A q \in Load[s][h] :
       /\ q.kind \in {"rest", "graphql", "git", "web", "release", "archive"}
       /\ q.kind = "archive" => q.cred = "none"

VARIABLES
  scenario,    \* what may happen in this behaviour
  row,         \* the token's row: [live, corrupt, repos, scopes]
  conf,        \* Config: [mode, to, allow, anonymous, raw, archiveTo, archiveAllow]
  reloading,   \* the configuration ReloadFrom is writing while it holds c.mu
  updates,     \* history: changes so far, for the bound
  base,        \* redirectBase of the release handler, computed when it is built
  cachedIn,    \* codeload: the redirect_to last looked at, and what it came to
  cachedTo,
  stage,       \* of each handler
  request,     \* the request it serves
  seen,        \* the row Resolve returned, or the last configuration value read
  sent,        \* the restriction of the credential that is sent upstream
  answer,      \* what became of the request
  rowsSeen,    \* history: rows and configurations in force during the request
  confsSeen

proxyVars == <<scenario, row, conf, reloading, updates, base, cachedIn, cachedTo,
               stage, request, seen, sent, answer, rowsSeen, confsSeen>>

environment == <<scenario, row, conf, reloading, updates, base>>
codeload    == <<cachedIn, cachedTo>>
history     == <<rowsSeen, confsSeen>>

Nothing == [live |-> FALSE]

Restriction(r) == [repos |-> r.repos, scopes |-> r.scopes]

\* The value of redirect_to can be used as a base.
Absolute(target) == target \notin {"", "relative"}

\* NewReleasesHandlerWithClient looks at redirect_to once.
BaseOf(c) == IF c.mode = "redirect" /\ Absolute(c.to) THEN c.to ELSE ""

Answers == {"none", "forwarded", "unauthorized", "blocked", "denied", "invalid",
            "failed", "redirected", "not found"}

ProxyTypeOK ==
  /\ scenario \in Scenario
  /\ row \in Rows[scenario]
  /\ conf \in Confs[scenario]
  /\ reloading \in Confs[scenario] \cup {Nothing}
  /\ updates \in 0..MaxUpdates[scenario]
  /\ stage \in [Handler -> {"idle", "release", "allow", "border", "resolve", "check", "mint",
                            "resolve again", "forward", "base", "lock", "archive", "done"}]
  /\ \A h \in Handler :
       /\ stage[h] # "idle" => request[h] \in Load[scenario][h]
       /\ answer[h].as \in Answers
       /\ (answer[h].as # "none") <=> (stage[h] = "done")
       /\ rowsSeen[h] \subseteq Rows[scenario]
       /\ confsSeen[h] \subseteq Confs[scenario]

ProxyInit ==
  /\ scenario \in Scenario
  /\ row \in Rows[scenario]
  /\ conf \in Confs[scenario]
  /\ reloading = Nothing
  /\ updates = 0
  /\ base = BaseOf(conf)
  /\ cachedIn = "" /\ cachedTo = ""
  /\ stage = [h \in Handler |-> "idle"]
  /\ request = [h \in Handler |-> Nothing]
  /\ seen = [h \in Handler |-> Nothing]
  /\ sent = [h \in Handler |-> Nothing]
  /\ answer = [h \in Handler |-> [as |-> "none"]]
  /\ rowsSeen = [h \in Handler |-> {}]
  /\ confsSeen = [h \in Handler |-> {}]

-----------------------------------------------------------------------------
(* The environment.                                                        *)

Busy(h) == stage[h] \notin {"idle", "done"}

\* A scope update or a revocation, made visible by InvalidateByID.
ChangeToken ==
  /\ updates < MaxUpdates[scenario] /\ row.live
  /\ \E r \in Rows[scenario] \ {row} : row' = r
  /\ updates' = updates + 1
  /\ rowsSeen' = [h \in Handler |-> IF Busy(h) THEN rowsSeen[h] \cup {row'} ELSE rowsSeen[h]]
  /\ UNCHANGED <<scenario, conf, reloading, base, codeload, stage, request, seen, sent, answer, confsSeen>>

\* ReloadFrom holds c.mu while it assigns the sections one by one.
BeginReload ==
  /\ updates < MaxUpdates[scenario] /\ reloading = Nothing
  /\ \E c \in Confs[scenario] \ {conf} : reloading' = c
  /\ updates' = updates + 1
  /\ confsSeen' = [h \in Handler |-> IF Busy(h) THEN confsSeen[h] \cup {reloading'} ELSE confsSeen[h]]
  /\ UNCHANGED <<scenario, row, conf, base, codeload, stage, request, seen, sent, answer, rowsSeen>>

EndReload ==
  /\ reloading # Nothing
  /\ conf' = reloading
  /\ reloading' = Nothing
  /\ UNCHANGED <<scenario, row, updates, base, codeload, stage, request, seen, sent, answer, history>>

\* A method of Config takes the read lock; other code reads the fields as they are.
Unlocked == reloading = Nothing
FieldValues(f) == {conf[f]} \cup (IF reloading = Nothing THEN {} ELSE {reloading[f]})

\* A string that is being assigned may also be read with the length of one value
\* and the bytes of the other, which is no known mode.
Modes == FieldValues("mode") \cup (IF Cardinality(FieldValues("mode")) > 1 THEN {"torn"} ELSE {})

-----------------------------------------------------------------------------
(* Steps of a handler.                                                     *)

Step(h, here) == stage[h] = here /\ UNCHANGED <<environment, request, history>>

MoveTo(h, there) == stage' = [stage EXCEPT ![h] = there] /\ UNCHANGED answer

AnswerTo(h, a) ==
  /\ stage' = [stage EXCEPT ![h] = "done"]
  /\ answer' = [answer EXCEPT ![h] = [as |-> a]]

Arrive(h) ==
  /\ stage[h] = "idle"
  /\ \E q \in Load[scenario][h] :
       /\ request' = [request EXCEPT ![h] = q]
       /\ stage' = [stage EXCEPT ![h] = CASE q.kind \in {"rest", "graphql"} -> "border"
                                           [] q.kind \in {"git", "web", "release"} -> "release"
                                           [] q.kind = "archive" -> "base"]
  /\ rowsSeen' = [rowsSeen EXCEPT ![h] = {row}]
  /\ confsSeen' = [confsSeen EXCEPT ![h] = {conf} \cup ({reloading} \ {Nothing})]
  /\ UNCHANGED <<environment, codeload, seen, sent, answer>>

\* The handler has returned; the goroutine is free for the next request.
Finish(h) ==
  /\ stage[h] = "done"
  /\ stage' = [stage EXCEPT ![h] = "idle"]
  /\ request' = [request EXCEPT ![h] = Nothing]
  /\ seen' = [seen EXCEPT ![h] = Nothing]
  /\ sent' = [sent EXCEPT ![h] = Nothing]
  /\ answer' = [answer EXCEPT ![h] = [as |-> "none"]]
  /\ rowsSeen' = [rowsSeen EXCEPT ![h] = {}]
  /\ confsSeen' = [confsSeen EXCEPT ![h] = {}]
  /\ UNCHANGED <<environment, codeload>>

\* The handler returned by NewReleasesHandlerWithClient: cfg.Releases.Mode.
ReadMode(h) ==
  /\ Step(h, "release")
  /\ IF request[h].kind # "release" THEN MoveTo(h, "border") /\ UNCHANGED seen
     ELSE \E m \in Modes :
            /\ seen' = [seen EXCEPT ![h] = m]
            /\ MoveTo(h, IF m = "" THEN "border" ELSE "allow")
  /\ UNCHANGED <<codeload, sent>>

\* IsReleaseAllowed, then the mode that was read before.
ApplyReleasePolicy(h) ==
  /\ Step(h, "allow") /\ Unlocked
  /\ CASE request[h].repo \in conf.allow \/ seen[h] = "torn" -> MoveTo(h, "border")
       [] request[h].repo \notin conf.allow /\ seen[h] = "block" -> AnswerTo(h, "blocked")
       [] OTHER ->
            IF base = "" THEN AnswerTo(h, "failed")
            ELSE \/ AnswerTo(h, "not found")     \* headCheckAndServe404
                 \/ /\ stage' = [stage EXCEPT ![h] = "done"]
                    /\ answer' = [answer EXCEPT ![h] = [as |-> "redirected", to |-> base]]
  /\ UNCHANGED <<codeload, seen, sent>>

\* Anonymous git (a field) and the type of a raw GitHub token (IsTokenBlocked).
Border(h) ==
  /\ Step(h, "border")
  /\ CASE request[h].cred = "client" -> MoveTo(h, "resolve")
       [] request[h].cred = "anonymous git" ->
            \E blocked \in FieldValues("anonymous") :
              IF blocked THEN AnswerTo(h, "unauthorized") ELSE MoveTo(h, "forward")
       [] request[h].cred = "raw" ->
            Unlocked /\ IF conf.raw THEN AnswerTo(h, "blocked") ELSE MoveTo(h, "forward")
       [] OTHER -> MoveTo(h, "forward")
  /\ UNCHANGED <<codeload, seen, sent>>

OpenScoped(r) == r.repos = {} /\ DOMAIN r.scopes = {}

Scope(q) ==
  IF q.kind = "rest" THEN EndpointScope(q.method, q.path)
  ELSE IF q.kind = "git" THEN GitSmartHTTPScope(q.method, q.suffix, q.service) ELSE None

\* A request of github.com that is no smart HTTP service is not looked at.
Unscoped(q) == q.kind \in {"web", "release"} \/ (q.kind = "git" /\ Scope(q) = None)

\* tokenService.Resolve and parseScopeInfo.
Resolve(h) ==
  /\ Step(h, "resolve")
  /\ IF Unscoped(request[h]) THEN MoveTo(h, "resolve again") /\ UNCHANGED seen
     ELSE /\ seen' = [seen EXCEPT ![h] = row]
          /\ CASE ~row.live -> AnswerTo(h, "unauthorized")
               [] row.live /\ row.corrupt -> AnswerTo(h, "failed")
               [] OTHER -> MoveTo(h, "check")
  /\ UNCHANGED <<codeload, sent>>

\* handleGraphQL up to the enforcement: 405, an unreadable or oversized body and
\* a document that cannot be analysed.
GraphQLInvalid(q, r) ==
  \/ q.method # "POST"
  \/ ~OpenScoped(r) /\ (q.body # "query" \/ ~Analysable(q.doc))

RepoOf(q) == IF q.kind = "rest" THEN ExtractRepoFromPath(q.path) ELSE q.repo

\* Repository first, then permission; both checks are left out for what the token
\* does not restrict, and an endpoint without a rule is forwarded.
Permitted(q, r) ==
  IF q.kind = "graphql" THEN GraphQLAllowed(q.doc, r.repos, r.scopes)
  ELSE /\ RepoOf(q) # "" /\ r.repos # {} => RepoOf(q) \in r.repos
       /\ Scope(q).perm \notin {"", "metadata"} /\ DOMAIN r.scopes # {} =>
            HasPermission(r.scopes, Scope(q).perm, Scope(q).level)

Check(h) ==
  /\ Step(h, "check")
  /\ CASE request[h].kind = "graphql" /\ GraphQLInvalid(request[h], seen[h]) -> AnswerTo(h, "invalid")
       [] request[h].kind = "graphql" /\ ~GraphQLInvalid(request[h], seen[h]) ->
            IF OpenScoped(seen[h]) \/ Permitted(request[h], seen[h]) THEN MoveTo(h, "mint")
            ELSE AnswerTo(h, "denied")
       [] OTHER ->
            IF OpenScoped(seen[h]) \/ Permitted(request[h], seen[h])
            THEN MoveTo(h, IF request[h].kind = "git" THEN "resolve again" ELSE "mint")
            ELSE AnswerTo(h, "denied")
  /\ UNCHANGED <<codeload, seen, sent>>

\* ResolveToGitHubToken resolves the client token once more, whatever was checked.
ResolveAgain(h) ==
  /\ Step(h, "resolve again")
  /\ IF ~row.live \/ (row.corrupt /\ IsAgent[scenario])
     THEN AnswerTo(h, "unauthorized") /\ UNCHANGED sent
     ELSE \/ /\ sent' = [sent EXCEPT ![h] = IF IsAgent[scenario] THEN Restriction(row) ELSE Nothing]
             /\ MoveTo(h, "forward")
          \/ UNCHANGED sent /\ AnswerTo(h, "unauthorized")   \* no credential
  /\ UNCHANGED <<codeload, seen>>

\* Mutant of Mint: the installation token is asked for without the restriction.
MintUnrestricted(h) ==
  /\ Step(h, "mint")
  /\ \/ /\ sent' = [sent EXCEPT ![h] =
             IF IsAgent[scenario] THEN [repos |-> {}, scopes |-> NoScopes] ELSE Nothing]
        /\ MoveTo(h, "forward")
     \/ UNCHANGED sent /\ AnswerTo(h, "failed")
  /\ UNCHANGED <<codeload, seen>>

\* getGitHubToken: an agent token is exchanged for an installation token with the
\* restriction that was checked.
Mint(h) ==
  /\ Step(h, "mint")
  /\ \/ /\ sent' = [sent EXCEPT ![h] = IF IsAgent[scenario] THEN Restriction(seen[h]) ELSE Nothing]
        /\ MoveTo(h, "forward")
     \/ UNCHANGED sent /\ AnswerTo(h, "failed")
  /\ UNCHANGED <<codeload, seen>>

\* forwardRequest, forwardPassthrough or the reverse proxy.
Forward(h) ==
  /\ Step(h, "forward")
  /\ AnswerTo(h, "forwarded")
  /\ UNCHANGED <<codeload, seen, sent>>

-----------------------------------------------------------------------------
(* NewCodeloadHandler.                                                     *)

\* CodeloadRedirectTo, then the read-locked look at the cached base.
ReadArchiveBase(h) ==
  /\ Step(h, "base") /\ Unlocked
  /\ IF conf.archiveTo = cachedIn
     THEN /\ seen' = [seen EXCEPT ![h] = cachedTo]
          /\ MoveTo(h, "archive")
     ELSE /\ seen' = [seen EXCEPT ![h] = conf.archiveTo]
          /\ MoveTo(h, "lock")
  /\ UNCHANGED <<codeload, sent>>

\* Mutant of ResolveArchiveBase: what is cached by now is taken as it is.
ResolveArchiveBaseAny(h) ==
  /\ Step(h, "lock")
  /\ IF cachedIn # ""
     THEN UNCHANGED codeload /\ seen' = [seen EXCEPT ![h] = cachedTo]
     ELSE /\ cachedIn' = seen[h]
          /\ cachedTo' = IF Absolute(seen[h]) THEN seen[h] ELSE ""
          /\ seen' = [seen EXCEPT ![h] = cachedTo']
  /\ MoveTo(h, "archive")
  /\ UNCHANGED sent

\* Under the write lock the value read before is compared once more.
ResolveArchiveBase(h) ==
  /\ Step(h, "lock")
  /\ IF seen[h] = cachedIn
     THEN UNCHANGED codeload /\ seen' = [seen EXCEPT ![h] = cachedTo]
     ELSE /\ cachedIn' = seen[h]
          /\ cachedTo' = IF Absolute(seen[h]) THEN seen[h] ELSE ""
          /\ seen' = [seen EXCEPT ![h] = cachedTo']
  /\ MoveTo(h, "archive")
  /\ UNCHANGED sent

AnswerArchive(h) ==
  /\ Step(h, "archive")
  /\ IF seen[h] = "" THEN AnswerTo(h, "forwarded")
     ELSE /\ Unlocked
          /\ IF request[h].repo \in conf.archiveAllow THEN AnswerTo(h, "forwarded")
             ELSE /\ stage' = [stage EXCEPT ![h] = "done"]
                  /\ answer' = [answer EXCEPT ![h] = [as |-> "redirected", to |-> seen[h]]]
  /\ UNCHANGED <<codeload, seen, sent>>

Serve(h) ==
  \/ Arrive(h) \/ Finish(h) \/ ReadMode(h) \/ ApplyReleasePolicy(h) \/ Border(h) \/ Resolve(h)
  \/ Check(h) \/ ResolveAgain(h) \/ Mint(h) \/ Forward(h)
  \/ ReadArchiveBase(h) \/ ResolveArchiveBase(h) \/ AnswerArchive(h)

ProxyNext == ChangeToken \/ BeginReload \/ EndReload \/ \E h \in Handler : Serve(h)

ProxySpec == ProxyInit /\ [][ProxyNext]_proxyVars

-----------------------------------------------------------------------------
(* Properties.                                                             *)

\* What the request does at GitHub is within the repositories, the permissions of r.
InRepos(r, q)  == r.repos # {} => q.touches \subseteq r.repos
InScopes(r, q) == DOMAIN r.scopes # {} => \A n \in q.needs : HasPermission(r.scopes, n[1], n[2])

Grants(r, q) == r.live /\ InRepos(r, q) /\ InScopes(r, q)

\* What the handlers can tell from a request: that it is about a repository, and
\* which permission it needs.  They forward the others as they are ("Unrecognized
\* endpoints are forwarded", proxy.go:304): for an endpoint without a rule nothing
\* is claimed of permissions, for a web page only that the token is live.
AboutRepo(q) == q.kind = "graphql" \/ (~Unscoped(q) /\ RepoOf(q) # "")
HasRule(q)   == q.kind = "graphql" \/ Scope(q) # None

GrantsKnown(r, q) ==
  /\ r.live
  /\ AboutRepo(q) => InRepos(r, q)
  /\ HasRule(q) => InScopes(r, q)

\* What the analysis says of one request and one row, for all that may meet: a
\* request that is let through does nothing that the row does not grant, as far as the
\* handlers can tell; one that is denied does.
Passes(q, r) ==
  \/ Unscoped(q)
  \/ /\ q.kind = "graphql" => ~GraphQLInvalid(q, r)
     /\ OpenScoped(r) \/ Permitted(q, r)

PassedIsGranted ==
  \A s \in Scenario, h \in Handler : \A q \in Load[s][h], r \in Rows[s] :
    q.cred = "client" /\ r.live /\ Passes(q, r) => GrantsKnown(r, q)

DeniedIsNotGranted ==
  \A s \in Scenario, h \in Handler : \A q \in Load[s][h], r \in Rows[s] :
    q.kind # "graphql" /\ r.live /\ ~Passes(q, r) => ~Grants(r, q)

ForwardedFor(h) == answer[h].as = "forwarded" /\ request[h].cred = "client"

\* A request that reaches GitHub in the name of a client token touches no repository,
\* when its path or its query is about one, and needs no permission, when a rule asks
\* for one, that the token did not grant at some moment while the request was served:
\* whichever of REST, GraphQL and git it uses, whichever of the rules its path meets
\* first, however its query is cut into fragments, and although git requests resolve
\* the token twice.
ForwardedWasGranted ==
  \A h \in Handler : ForwardedFor(h) => \E r \in rowsSeen[h] : GrantsKnown(r, request[h])

\* A REST or git request is only denied for its scope when the token did not grant
\* it at some moment while the request was served: no rule is hidden behind one
\* that asks for another permission.
DeniedWasNotGranted ==
  \A h \in Handler :
    answer[h].as = "denied" /\ request[h].kind # "graphql" =>
      \E r \in rowsSeen[h] : ~Grants(r, request[h])

\* The installation token that goes upstream for an agent token carries exactly
\* the restriction of a row that was live while the request was served; none is
\* ever asked for without the restriction.
MintedIsCurrent ==
  \A h \in Handler :
    ForwardedFor(h) /\ IsAgent[scenario] =>
      \E r \in rowsSeen[h] : r.live /\ sent[h] = Restriction(r)

BorderIsCurrent ==
  \A h \in Handler :
    answer[h].as = "forwarded" /\ request[h].cred \in {"raw", "anonymous git"} =>
      \E c \in confsSeen[h] : IF request[h].cred = "raw" THEN ~c.raw ELSE ~c.anonymous

ArchiveTargetIsCurrent ==
  \A h \in Handler :
    answer[h].as = "redirected" /\ request[h].kind = "archive" =>
      /\ \E c \in confsSeen[h] : c.archiveTo = answer[h].to
      /\ \E c \in confsSeen[h] : request[h].repo \notin c.archiveAllow

\* A reload counts for the next request.  One without a client token is only
\* forwarded when the border policy of some configuration in force while it was
\* served lets it pass; and the base an archive request is redirected to is one
\* that was configured then, for a repository that was not exempt: the base that
\* another goroutine caches for a newer or older configuration is never taken.
PolicyIsCurrent == BorderIsCurrent /\ ArchiveTargetIsCurrent

=============================================================================
