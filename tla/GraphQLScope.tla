----------------------------- MODULE GraphQLScope -----------------------------
(***************************************************************************)
(* The static analysis of a GraphQL request (internal/proxy/graphql.go).   *)
(*                                                                         *)
(* A document has a sequence of operations [name, type, sel] and fragments *)
(* (a function from names to selections).  A selection is a sequence of    *)
(* fields, inline fragments and fragment spreads.                          *)
(***************************************************************************)
EXTENDS Naturals, Sequences, RestScope

CONSTANT MaxDepth    \* maxAnalysisDepth, 100 in the code

ASSUME DepthAssumption == MaxDepth \in Nat

\* A field whose arguments are a literal owner and name, anything else, or absent.
Field(name, args, sub) == [kind |-> "field", name |-> name, args |-> args, sub |-> sub]
Inline(sub)  == [kind |-> "inline", name |-> "", args |-> "", sub |-> sub]
Spread(name) == [kind |-> "spread", name |-> name, args |-> "", sub |-> <<>>]

\* The entries of a table by the permission that they name.
ByField(table) ==
  [f \in UNION {table[p] : p \in DOMAIN table} |-> CHOOSE p \in DOMAIN table : f \in table[p]]

AlwaysAllowed ==
  {"__typename", "__schema", "__type", "id", "databaseId", "name", "nameWithOwner", "login",
   "slug", "url", "resourcePath", "avatarUrl", "description", "createdAt", "updatedAt",
   "pushedAt", "isPrivate", "isFork", "isArchived", "isDisabled", "isLocked", "isMirror",
   "isTemplate", "isInOrganization", "visibility", "diskUsage", "forkCount", "stargazerCount",
   "watchers", "languages", "primaryLanguage", "defaultBranchRef", "licenseInfo", "owner",
   "repositoryTopics", "topics", "homepageUrl", "sshUrl", "mirrorUrl", "hasIssuesEnabled",
   "hasProjectsEnabled", "hasWikiEnabled", "hasDiscussionsEnabled", "openGraphImageUrl",
   "usesCustomOpenGraphImage", "fundingLinks", "codeOfConduct", "nodes", "edges", "pageInfo",
   "totalCount", "hasNextPage", "hasPreviousPage", "endCursor", "startCursor", "cursor",
   "viewer", "repository", "repositoryOwner", "user", "organization", "rateLimit", "meta",
   "codeOfConducts", "licenses", "license", "marketplaceListing", "marketplaceCategories",
   "securityAdvisory", "securityAdvisories", "securityVulnerabilities", "email", "company",
   "location", "bio", "twitterUsername", "websiteUrl", "isViewer", "isSiteAdmin"}

\* Every entry asks for "read".
FieldScope == ByField(
  [issues                 |-> {"issue", "issues", "issueOrPullRequest",
                               "closedByPullRequestsReferences", "timelineItems", "reactions",
                               "reactionGroups"},
   pull_requests          |-> {"pullRequest", "pullRequests", "reviews", "reviewRequests",
                               "reviewThreads", "latestReviews", "latestOpinionatedReviews",
                               "mergeQueue", "mergeQueueEntry"},
   discussions            |-> {"discussion", "discussions", "discussionCategory",
                               "discussionCategories"},
   contents               |-> {"object", "ref", "refs", "release", "releases", "tag", "tags",
                               "file", "tree", "blob", "commit", "commitComments", "history"},
   administration         |-> {"branchProtectionRule", "branchProtectionRules", "rulesets",
                               "ruleset", "collaborators", "invitations"},
   deployments            |-> {"deployment", "deployments"},
   environments           |-> {"environment", "environments"},
   actions                |-> {"workflowRun", "workflowRuns", "actionsCacheUsage"},
   workflows              |-> {"workflowFile"},
   statuses               |-> {"status", "statuses"},
   checks                 |-> {"statusCheckRollup", "checkSuite", "checkSuites", "checkRun",
                               "checkRuns"},
   vulnerability_alerts   |-> {"vulnerabilityAlerts"},
   secret_scanning_alerts |-> {"securityScanningAlerts"},
   members                |-> {"membersWithRole", "pendingMembers", "memberStatuses"},
   projects               |-> {"project", "projects", "projectsV2", "projectV2"},
   repository_hooks       |-> {"hooks"}])

\* Flagged wherever they appear, and only at the root of an operation.
CrossRepoAnywhere ==
  {"search", "searchUsers", "repositories", "topRepositories", "watching", "starredRepositories",
   "contributedRepositories", "pinnedRepositories", "recentProjects"}
CrossRepoAtRoot == {"node", "nodes", "resource"}

\* Every entry asks for "write".
MutationScope == ByField(
  [issues         |-> {"createIssue", "updateIssue", "closeIssue", "reopenIssue", "deleteIssue",
                       "transferIssue", "lockLockable", "unlockLockable", "pinIssue",
                       "unpinIssue", "addAssigneesToAssignable", "removeAssigneesFromAssignable",
                       "addLabelsToLabelable", "removeLabelsFromLabelable",
                       "clearLabelsFromLabelable", "updateIssueComment", "deleteIssueComment",
                       "addComment", "addReaction", "removeReaction"},
   pull_requests  |-> {"createPullRequest", "updatePullRequest", "closePullRequest",
                       "reopenPullRequest", "mergePullRequest", "markPullRequestReadyForReview",
                       "convertPullRequestToDraft", "enablePullRequestAutoMerge",
                       "disablePullRequestAutoMerge", "requestReviews",
                       "removeRequestedReviewers", "addPullRequestReview",
                       "updatePullRequestReview", "submitPullRequestReview",
                       "deletePullRequestReview", "dismissPullRequestReview",
                       "addPullRequestReviewComment", "updatePullRequestReviewComment",
                       "deletePullRequestReviewComment", "addPullRequestReviewThread",
                       "resolveReviewThread", "unresolveReviewThread",
                       "addPullRequestReviewThreadReply"},
   contents       |-> {"createCommitOnBranch", "createRef", "updateRef", "deleteRef",
                       "createTag", "createRelease", "updateRelease", "deleteRelease"},
   administration |-> {"createRepository", "updateRepository", "createBranchProtectionRule",
                       "updateBranchProtectionRule", "deleteBranchProtectionRule"},
   discussions    |-> {"createDiscussion", "updateDiscussion", "deleteDiscussion",
                       "addDiscussionComment", "updateDiscussionComment",
                       "deleteDiscussionComment", "markDiscussionCommentAsAnswer",
                       "unmarkDiscussionCommentAsAnswer"},
   deployments    |-> {"createDeployment", "createDeploymentStatus"},
   projects       |-> {"addProjectCard", "updateProjectCard", "deleteProjectCard",
                       "createProjectV2", "updateProjectV2", "deleteProjectV2",
                       "addProjectV2ItemById", "deleteProjectV2Item",
                       "updateProjectV2ItemFieldValue"}])

-----------------------------------------------------------------------------
(* What one field adds to the analysis.                                    *)

FieldMarks(f, inMutation, atRoot) ==
  UNION {
    IF f.name # "repository" \/ f.args = "" THEN {}
    ELSE IF f.args = "variable" THEN {<<"unpinned">>} ELSE {<<"repo", f.args>>},
    IF f.name \in CrossRepoAnywhere \/ (atRoot /\ f.name \in CrossRepoAtRoot)
    THEN {<<"cross", f.name>>} ELSE {},
    CASE inMutation /\ atRoot ->
           IF f.name \in DOMAIN MutationScope THEN {<<"scope", MutationScope[f.name], "write">>}
           ELSE {<<"unknown", f.name>>}
      [] ~ (inMutation /\ atRoot) /\ f.name \in AlwaysAllowed -> {}
      [] ~ (inMutation /\ atRoot) /\ f.name \in DOMAIN FieldScope ->
           {<<"scope", FieldScope[f.name], "read">>}
      [] OTHER -> IF f.sub = <<>> /\ ~atRoot THEN {} ELSE {<<"unknown", f.name>>} }

-----------------------------------------------------------------------------
(* The walk, level by level.  A place is a selection with its context and  *)
(* the fragments it is inside of; one of these is skipped when it is       *)
(* spread again.                                                           *)

\* What the selections of a place add themselves.
PlaceMarks(place, frags) ==
  UNION {
    LET s == place.sel[i] IN
    CASE s.kind = "field" -> FieldMarks(s, place.inMutation, place.atRoot)
      [] s.kind = "spread" /\ s.name \notin place.stack \cup DOMAIN frags -> {<<"unknown", s.name>>}
      [] OTHER -> {}
    : i \in DOMAIN place.sel}

\* Mutant of Within: a fragment is walked as if it were not at the root.
WithinNested(place, name, frags) ==
  [sel |-> frags[name], stack |-> place.stack \cup {name}, inMutation |-> FALSE, atRoot |-> FALSE]

\* A fragment keeps the context it is spread in.
Within(place, name, frags) ==
  [place EXCEPT !.sel = frags[name], !.stack = @ \cup {name}]

\* The places one level deeper.
Below(place, frags) ==
  UNION {
    LET s == place.sel[i] IN
    CASE s.kind = "field" /\ s.sub # <<>> ->
           {[place EXCEPT !.sel = s.sub, !.inMutation = FALSE, !.atRoot = FALSE]}
      [] s.kind = "inline" -> {[place EXCEPT !.sel = s.sub]}
      [] s.kind = "spread" /\ s.name \in DOMAIN frags \ place.stack ->
           {Within(place, s.name, frags)}
      [] OTHER -> {}
    : i \in DOMAIN place.sel}

\* An operation is walked from its root down to MaxDepth.
Walk(op, frags) ==
  LET root == [sel |-> op.sel, stack |-> {}, inMutation |-> op.type = "mutation", atRoot |-> TRUE]
      level[n \in Nat] ==
        IF n <= 1 THEN {root} ELSE UNION {Below(place, frags) : place \in level[n - 1]}
  IN  UNION {PlaceMarks(place, frags) : place \in UNION {level[n] : n \in 1..MaxDepth}}
        \cup (IF level[MaxDepth + 1] = {} THEN {} ELSE {<<"deep">>})

\* The operation GitHub will run, if the request says which: selectOperation.
Selected(doc) ==
  IF doc.operationName = "" /\ Len(doc.ops) > 1 THEN {}
  ELSE {doc.ops[i] : i \in {j \in DOMAIN doc.ops : doc.operationName \in {"", doc.ops[j].name}}}

Analysis(doc) ==
  LET op == CHOOSE o \in Selected(doc) : TRUE
  IN  [type |-> op.type, marks |-> Walk(op, doc.fragments)]

\* No operation to analyse is an error, as is a walk that is too deep.
Analysable(doc) == Selected(doc) # {} /\ <<"deep">> \notin Analysis(doc).marks

-----------------------------------------------------------------------------
(* The decision for a token that is restricted to repos, to scopes or to   *)
(* both (an empty set or map is no restriction).                           *)

Named(a, what) == {m[2] : m \in {n \in a.marks : n[1] = what}}

\* Only the stricter entry of a permission is required; HasPermission makes no
\* difference between that and requiring both.
RequiredScopes(a) == {m \in a.marks : m[1] = "scope"}

RepositoriesAllow(a, repos) ==
  /\ Named(a, "cross") = {}
  /\ a.type # "mutation"
  /\ <<"unpinned">> \notin a.marks
  /\ Named(a, "repo") # {}
  /\ Named(a, "repo") \subseteq repos

ScopesAllow(a, scopes) ==
  /\ a.type = "mutation" => RequiredScopes(a) # {}
  /\ \A m \in RequiredScopes(a) : HasPermission(scopes, m[2], m[3])

GraphQLAllowed(doc, repos, scopes) ==
  LET a == Analysis(doc)
  IN  /\ a.type # "subscription"
      /\ Named(a, "unknown") = {}
      /\ repos # {} => RepositoriesAllow(a, repos)
      /\ DOMAIN scopes # {} => ScopesAllow(a, scopes)
=============================================================================
