------------------------------ MODULE RestScope ------------------------------
(***************************************************************************)
(* The permission a REST or git smart HTTP request needs                   *)
(* (internal/proxy/scope.go) and what a scope map grants                   *)
(* (internal/database/models.go).                                          *)
(*                                                                         *)
(* A path is the sequence of its segments, with "owner/name" as one        *)
(* segment.  "7" stands for a number and "x" for any other free segment.   *)
(***************************************************************************)
EXTENDS Naturals, Sequences

\* A scope map is a function from some permissions to "read" or "write".
NoScopes == <<>>

\* "write" also grants "read".
HasPermission(scopes, perm, level) ==
  perm \in DOMAIN scopes /\ scopes[perm] \in {level, "write"}

-----------------------------------------------------------------------------
(* The endpoint rules.  Every element of a pattern is the set of segments  *)
(* it matches; a pattern with rest also matches every longer path.         *)

Num     == {"7"}
Name    == {"7", "x"}
Anyone  == {"a/r", "b/s"}
Methods == {"GET", "POST", "PUT", "PATCH", "DELETE"}

Rule(path, rest, methods, perm) ==
  [path |-> path, rest |-> rest, methods |-> methods, perm |-> perm]

\* Rules on exactly this path, and on this path and all below it.
On(path, methods, perm)   == Rule(<<{"repos"}, Anyone>> \o path, FALSE, methods, perm)
From(path, methods, perm) == Rule(<<{"repos"}, Anyone>> \o path, TRUE, methods, perm)
Org(path, rest, methods, perm) == Rule(<<{"orgs"}, Name>> \o path, rest, methods, perm)

ContentRules == <<
  From(<<{"contents"}>>, {"GET", "PUT", "DELETE"}, "contents"),
  From(<<{"git"}, {"refs", "trees", "blobs", "commits", "tags"}>>, {"GET", "POST", "PATCH"}, "contents"),
  From(<<{"branches"}, Name, {"protection"}>>, Methods, "administration"),
  From(<<{"branches"}>>, {"GET"}, "contents"),
  From(<<{"commits"}>>, {"GET"}, "contents"),
  From(<<{"compare"}, Name>>, {"GET"}, "contents") >>

IssueRules == <<
  On(<<{"pulls"}>>, {"GET", "POST"}, "pull_requests"),
  On(<<{"pulls"}, Num>>, {"GET", "PATCH"}, "pull_requests"),
  On(<<{"pulls"}, Num, {"merge"}>>, {"PUT"}, "pull_requests"),
  From(<<{"pulls"}, Num, {"files", "commits", "reviews", "comments", "requested_reviewers"}>>,
       {"GET"}, "pull_requests"),
  From(<<{"pulls"}, Num, {"reviews", "comments", "requested_reviewers"}>>,
       {"POST", "PUT", "DELETE"}, "pull_requests"),
  On(<<{"issues"}>>, {"GET", "POST"}, "issues"),
  On(<<{"issues"}, Num>>, {"GET", "PATCH"}, "issues"),
  From(<<{"issues"}, Num, {"comments"}>>, {"GET", "POST"}, "issues"),
  From(<<{"issues"}, Num, {"labels"}>>, {"GET", "POST", "PUT", "DELETE"}, "issues"),
  From(<<{"issues"}, Num, {"assignees"}>>, {"GET", "POST", "DELETE"}, "issues"),
  From(<<{"statuses"}, Name>>, {"GET", "POST"}, "statuses"),
  From(<<{"check-runs"}>>, {"GET", "POST"}, "checks"),
  From(<<{"check-suites"}>>, {"GET"}, "checks") >>

\* The catch-all for actions comes after the paths with a permission of their own.
ActionRules == <<
  From(<<{"actions"}, {"secrets"}>>, {"GET", "PUT", "DELETE"}, "secrets"),
  From(<<{"actions"}, {"workflows"}>>, {"GET"}, "workflows"),
  On(<<{"actions"}, {"workflows"}, Name, {"enable", "disable"}>>, Methods, "workflows"),
  On(<<{"actions"}, {"workflows"}, Name, {"dispatches"}>>, {"POST"}, "workflows"),
  From(<<{"actions"}>>, Methods, "actions"),
  From(<<{"deployments"}>>, {"GET"}, "deployments"),
  On(<<{"deployments"}>>, {"POST"}, "deployments"),
  On(<<{"deployments"}, Num, {"statuses"}>>, {"POST"}, "deployments"),
  From(<<{"environments"}>>, {"GET"}, "environments"),
  From(<<{"environments"}, Name>>, Methods \ {"GET"}, "environments"),
  From(<<{"pages"}>>, Methods, "pages") >>

SecurityRules == <<
  Org(<<{"packages"}>>, TRUE, {"GET", "DELETE"}, "packages"),
  Rule(<<{"users"}, Name, {"packages"}>>, TRUE, {"GET", "DELETE"}, "packages"),
  Rule(<<{"user"}, {"packages"}>>, TRUE, {"GET", "DELETE"}, "packages"),
  From(<<{"discussions"}>>, {"GET"}, "discussions"),
  On(<<{"discussions"}>>, {"POST"}, "discussions"),
  From(<<{"discussions"}, Num>>, {"PATCH", "DELETE"}, "discussions"),
  From(<<{"discussions"}, Num, {"comments"}>>, {"POST"}, "discussions"),
  From(<<{"hooks"}>>, Methods, "repository_hooks"),
  From(<<{"secret-scanning"}>>, {"GET"}, "secret_scanning_alerts"),
  On(<<{"secret-scanning"}, {"alerts"}, Num>>, {"PATCH"}, "secret_scanning_alerts"),
  From(<<{"code-scanning"}>>, {"GET"}, "security_events"),
  On(<<{"code-scanning"}, {"alerts"}, Num>>, {"PATCH"}, "security_events"),
  On(<<{"code-scanning"}, {"sarifs"}>>, {"POST"}, "security_events"),
  From(<<{"code-scanning"}, {"analyses"}>>, {"POST"}, "security_events"),
  On(<<{"code-scanning"}, {"analyses"}, Num>>, {"DELETE"}, "security_events"),
  From(<<{"security-advisories"}>>, {"GET"}, "security_events"),
  On(<<{"security-advisories"}>>, {"POST"}, "security_events"),
  On(<<{"security-advisories"}, Name>>, {"PATCH"}, "security_events"),
  Org(<<{"security-advisories"}>>, TRUE, {"GET"}, "security_events"),
  From(<<{"dependabot"}, {"alerts"}>>, {"GET"}, "vulnerability_alerts"),
  On(<<{"dependabot"}, {"alerts"}, Num>>, {"PATCH"}, "vulnerability_alerts"),
  Org(<<{"dependabot"}, {"alerts"}>>, TRUE, {"GET"}, "vulnerability_alerts"),
  On(<<{"vulnerability-alerts"}>>, {"GET", "PUT", "DELETE"}, "vulnerability_alerts") >>

AdminRules == <<
  Rule(<<{"projects"}>>, TRUE, Methods \ {"PUT"}, "projects"),
  From(<<{"projects"}>>, {"GET"}, "projects"),
  On(<<{"projects"}>>, {"POST"}, "projects"),
  Org(<<{"projects"}>>, TRUE, {"GET"}, "projects"),
  Org(<<{"projects"}>>, FALSE, {"POST"}, "projects"),
  From(<<{"releases"}>>, {"GET", "POST"}, "contents"),
  On(<<>>, {"PATCH", "DELETE"}, "administration"),
  On(<<{"transfer"}>>, {"POST"}, "administration"),
  From(<<{"collaborators"}>>, {"GET"}, "administration"),
  On(<<{"collaborators"}, Name>>, {"PUT", "DELETE"}, "administration"),
  From(<<{"invitations"}>>, {"GET"}, "administration"),
  On(<<{"invitations"}, Num>>, {"PATCH", "DELETE"}, "administration"),
  On(<<{"topics"}>>, {"PUT"}, "administration"),
  Org(<<{"members"}>>, TRUE, {"GET"}, "members"),
  Org(<<{"members"}, Name>>, FALSE, {"DELETE"}, "members"),
  Org(<<{"memberships"}, Name>>, FALSE, {"GET", "PUT", "DELETE"}, "members"),
  Org(<<{"invitations"}>>, TRUE, {"GET"}, "members"),
  Org(<<{"invitations"}>>, FALSE, {"POST"}, "members"),
  Org(<<{"invitations"}, Num>>, FALSE, {"DELETE"}, "members"),
  Org(<<{"public_members"}>>, TRUE, {"GET"}, "members"),
  Org(<<{"public_members"}, Name>>, FALSE, {"PUT", "DELETE"}, "members"),
  On(<<>>, {"GET"}, "metadata"),
  Rule(<<{"user"}>>, FALSE, Methods, "metadata") >>

\* Mutant of Rules: the groups in another order, catch-alls for a repository first.
RulesReordered ==
  <<ActionRules[5]>> \o ContentRules \o IssueRules \o ActionRules \o SecurityRules \o AdminRules

Rules == ContentRules \o IssueRules \o ActionRules \o SecurityRules \o AdminRules

Matches(rule, method, path) ==
  /\ method \in rule.methods
  /\ Len(path) = Len(rule.path) \/ (rule.rest /\ Len(path) > Len(rule.path))
  /\ \A i \in DOMAIN rule.path : path[i] \in rule.path[i]

None == [perm |-> "", level |-> ""]

\* Every rule for GET and the one for the user asks for "read", all others for "write".
Level(perm, method) == IF method = "GET" \/ perm = "metadata" THEN "read" ELSE "write"

\* The first rule that matches decides.
EndpointScope(method, path) ==
  LET M == {i \in DOMAIN Rules : Matches(Rules[i], method, path)}
  IN  IF M = {} THEN None
      ELSE LET perm == Rules[CHOOSE i \in M : \A j \in M : i <= j].perm
           IN  [perm |-> perm, level |-> Level(perm, method)]

\* "" when the path is not /repos/{owner}/{name}/...
ExtractRepoFromPath(path) ==
  IF Len(path) >= 2 /\ path[1] = "repos" THEN path[2] ELSE ""

-----------------------------------------------------------------------------
(* Git smart HTTP: what comes after "{owner}/{name}.git/", and the service *)
(* parameter of info/refs.                                                 *)

GitService(method, suffix, service) ==
  CASE suffix \in {"git-receive-pack", "git-upload-pack"} /\ method = "POST" -> suffix
    [] suffix = "info/refs" -> service
    [] OTHER -> ""

GitSmartHTTPScope(method, suffix, service) ==
  CASE GitService(method, suffix, service) = "git-receive-pack" -> [perm |-> "contents", level |-> "write"]
    [] GitService(method, suffix, service) = "git-upload-pack"  -> [perm |-> "contents", level |-> "read"]
    [] OTHER -> None
=============================================================================
