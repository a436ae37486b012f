--------------------------- MODULE MCProxyRequest ---------------------------
(* Requests, tokens and configurations of ProxyRequest for TLC, with what   *)
(* each request does at GitHub, written down independently of the rules.    *)
EXTENDS ProxyRequest, TLC

CONSTANTS h1, h2

Rest(method, path, needs) ==
  [kind |-> "rest", cred |-> "client", method |-> method,
   path |-> <<"repos", "a/r">> \o path, needs |-> needs, touches |-> {"a/r"}]

Need(perm, level) == {<<perm, level>>}

RestRequests == {
  Rest("GET", <<>>, {}),
  Rest("PATCH", <<>>, Need("administration", "write")),
  Rest("GET", <<"contents", "x">>, Need("contents", "read")),
  Rest("PUT", <<"contents", "x">>, Need("contents", "write")),
  Rest("POST", <<"git", "refs">>, Need("contents", "write")),
  Rest("GET", <<"branches", "x">>, Need("contents", "read")),
  Rest("GET", <<"branches", "x", "protection">>, Need("administration", "read")),
  Rest("PUT", <<"branches", "x", "protection">>, Need("administration", "write")),
  Rest("PUT", <<"pulls", "7", "merge">>, Need("pull_requests", "write")),
  Rest("POST", <<"issues">>, Need("issues", "write")),
  Rest("GET", <<"issues", "7">>, Need("issues", "read")),
  Rest("PUT", <<"actions", "secrets", "x">>, Need("secrets", "write")),
  Rest("GET", <<"actions", "secrets">>, Need("secrets", "read")),
  Rest("PUT", <<"actions", "workflows", "x", "disable">>, Need("workflows", "write")),
  Rest("DELETE", <<"actions", "runs", "7">>, Need("actions", "write")),
  [kind |-> "rest", cred |-> "client", method |-> "DELETE",
   path |-> <<"orgs", "x", "members", "x">>, needs |-> Need("members", "write"), touches |-> {}],
  \* Endpoints without a rule.
  Rest("DELETE", <<"git", "refs", "x">>, Need("contents", "write")),
  Rest("DELETE", <<"releases", "7">>, Need("contents", "write")),
  Rest("PUT", <<"issues", "7", "lock">>, Need("issues", "write")),
  [kind |-> "rest", cred |-> "client", method |-> "GET", path |-> <<"user", "repos">>,
   needs |-> {}, touches |-> {"a/r", "b/s"}] }

GitRequests ==
  {[kind |-> "git", cred |-> "client", method |-> m, repo |-> r, suffix |-> s, service |-> v,
    needs |-> CASE "git-receive-pack" = v \/ (m = "POST" /\ s = "git-receive-pack") -> Need("contents", "write")
                [] OTHER -> Need("contents", "read"),
    touches |-> {r}] :
     <<m, s, v>> \in {<<"POST", "git-receive-pack", "">>, <<"POST", "git-upload-pack", "">>,
                      <<"GET", "info/refs", "git-receive-pack">>, <<"GET", "info/refs", "git-upload-pack">>},
     r \in {"a/r", "b/s"}}

-----------------------------------------------------------------------------
(* GraphQL documents and what GitHub runs of them.                         *)

Login  == Field("login", "", <<>>)
Issues == Field("issues", "", <<Login>>)
Commit == Field("createCommitOnBranch", "", <<Login>>)
Thing  == Field("thing", "", <<Login>>)
RepoA(sub) == Field("repository", "a/r", sub)

Parts == {Login, Issues, Commit, Thing, Spread("F"), Inline(<<Spread("F")>>),
          RepoA(<<Issues>>), RepoA(<<Spread("F")>>), RepoA(<<Thing>>),
          RepoA(<<Inline(<<Field("nodes", "", <<Spread("F")>>)>>)>>),
          Field("repository", "b/s", <<Login>>), Field("repository", "variable", <<Login>>),
          Field("viewer", "", <<Spread("F")>>),
          Field("createIssue", "", <<Spread("F")>>), Field("node", "", <<Issues>>),
          Field("search", "", <<Login>>), Spread("G")}

FragmentBodies == {<<Login>>, <<Issues>>, <<Commit>>, <<RepoA(<<Issues>>), Spread("F")>>}

Documents ==
  {[operationName |-> "", ops |-> <<[name |-> "", type |-> t, sel |-> <<p, q>>]>>,
    fragments |-> [f \in {"F"} |-> b]] :
      t \in {"query", "mutation"}, p \in Parts, q \in Parts, b \in FragmentBodies}
  \cup
  {[operationName |-> n,
    ops |-> <<[name |-> "P", type |-> "query", sel |-> <<Login>>],
              [name |-> "Q", type |-> t, sel |-> <<Commit>>]>>,
    fragments |-> <<>>] : n \in {"", "P", "Q", "R"}, t \in {"mutation", "subscription"}}

\* Every field that is run, with the fields around it: all fragments are written
\* out.  Nothing is left of a fragment inside itself, which GraphQL forbids.
RECURSIVE Chains(_, _, _)
Chains(sel, frags, fuel) ==
  IF fuel = 0 THEN {}
  ELSE UNION {
    LET s == sel[i]
    IN CASE s.kind = "field" -> {<<s>>} \cup {<<s>> \o c : c \in Chains(s.sub, frags, fuel)}
         [] s.kind = "inline" -> Chains(s.sub, frags, fuel)
         [] OTHER -> IF s.name \in DOMAIN frags THEN Chains(frags[s.name], frags, fuel - 1) ELSE {}
    : i \in DOMAIN sel}

ChainNeeds(c, type) ==
  LET f == c[Len(c)].name
  IN  CASE Len(c) = 1 /\ type = "mutation" ->
             (CASE f = "createIssue" -> Need("issues", "write")
                [] f = "createCommitOnBranch" -> Need("contents", "write")
                [] OTHER -> Need("unmapped", "write"))
        [] f = "issues" -> Need("issues", "read")
        [] f = "thing" -> Need("unmapped", "read")
        [] OTHER -> {}

\* "elsewhere" is a repository that no token is restricted to.
ChainTouches(c, type) ==
  LET f == c[Len(c)]
  IN  CASE type = "mutation" \/ f.name = "search" -> {"elsewhere"}
        [] f.name = "node" /\ Len(c) = 1 -> {"elsewhere"}
        [] f.name = "repository" -> {IF f.args = "variable" THEN "elsewhere" ELSE f.args}
        [] OTHER -> {}

GraphQL(method, body, d) ==
  LET R == {o \in {d.ops[i] : i \in DOMAIN d.ops} : d.operationName \in {"", o.name}}
      C(o) == Chains(o.sel, d.fragments, 3)
  IN  [kind |-> "graphql", cred |-> "client", method |-> method, body |-> body, doc |-> d,
       needs |-> UNION {UNION {ChainNeeds(c, o.type) : c \in C(o)} : o \in R},
       touches |-> UNION {UNION {ChainTouches(c, o.type) : c \in C(o)} : o \in R}]

GraphQLRequests ==
  {GraphQL("POST", "query", d) : d \in Documents}
  \cup {GraphQL(m, b, d) : m \in {"GET", "POST"}, b \in {"unreadable", "too large"},
                           d \in {CHOOSE d \in Documents : TRUE}}

-----------------------------------------------------------------------------
(* Tokens.                                                                 *)

Row(repos, scopes) == [live |-> TRUE, corrupt |-> FALSE, repos |-> repos, scopes |-> scopes]
Open    == Row({}, <<>>)
Revoked == [Open EXCEPT !.live = FALSE]
Corrupt == [Open EXCEPT !.corrupt = TRUE]

ScopeMaps == {[p \in {"contents"} |-> "read"],
              [p \in {"contents", "issues"} |-> IF p = "issues" THEN "read" ELSE "write"],
              [p \in {"actions", "administration"} |-> "write"],
              [p \in {"secrets", "workflows", "pull_requests", "issues", "members"} |-> "write"]}

TokenRows == {Open, Revoked, Corrupt} \cup {Row({"a/r"}, <<>>), Row({"b/s"}, <<>>)}
          \cup {Row({}, s) : s \in ScopeMaps} \cup {Row({"a/r"}, s) : s \in ScopeMaps}

-----------------------------------------------------------------------------
(* Configurations and requests that are decided by them.                   *)

Conf(mode, to, allow, archiveTo, block) ==
  [mode |-> mode, to |-> to, allow |-> allow, anonymous |-> block, raw |-> block,
   archiveTo |-> archiveTo, archiveAllow |-> allow]

Plain == Conf("", "", {}, "", FALSE)
PolicyConfs == {Plain, Conf("block", "", {"b/s"}, "relative", TRUE),
          Conf("redirect", "m1", {}, "m1", FALSE), Conf("redirect", "m2", {"a/r"}, "m2", TRUE)}

Download(kind, cred) ==
  [kind |-> kind, cred |-> cred, repo |-> "a/r", needs |-> Need("contents", "read"), touches |-> {"a/r"}]
Downloads == {Download("release", "raw"), Download("archive", "none"), Download("web", "anonymous git"),
              Download("web", "raw")}

Only(S) == [h \in Handler |-> IF h = h1 THEN S ELSE {}]

\* Requests in the name of a token that may change; GraphQL requests, where the
\* token is looked at once; and downloads during reloads.
MCScenario == {"proxy token", "agent token", "graphql", "downloads"}

MCLoad ==
  [s \in MCScenario |->
     CASE s = "graphql" -> Only(GraphQLRequests)
       [] s = "downloads" -> [h \in Handler |-> Downloads]
       [] OTHER -> Only(RestRequests \cup GitRequests
                    \cup {Download("web", "client"), Download("release", "client")})]

MCRows  == [s \in MCScenario |-> IF s = "downloads" THEN {Open} ELSE TokenRows]
MCConfs == [s \in MCScenario |-> IF s = "downloads" THEN PolicyConfs ELSE {Plain}]
MCIsAgent == [s \in MCScenario |-> s = "agent token"]
MCMaxUpdates == [s \in MCScenario |-> IF s = "graphql" THEN 0 ELSE 2]
=============================================================================
