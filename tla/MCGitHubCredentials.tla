------------------------ MODULE MCGitHubCredentials ------------------------
(* Instances of GitHubCredentials for TLC. *)
EXTENDS GitHubCredentials

CONSTANTS a1, g1

\* Two refreshes and a login; a refresh, a login and the resolver; the resolver
\* twice; the app twice.
MCTogether == {Api \cup Browser, {a1, g1} \cup Browser, {a1} \cup Git, Agent}
=============================================================================
