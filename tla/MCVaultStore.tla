---------------------------- MODULE MCVaultStore ----------------------------
(* VaultStore with one record of a kind, three logins of one user and two  *)
(* repositories of one name.                                               *)
EXTENDS VaultStore, TLC

CONSTANTS m, n

MCId(k) == CASE k = "user" -> {"x", "y", "z"} [] k = "repo" -> {m, n} [] OTHER -> {"x"}
Symmetry == Permutations(Caller) \cup Permutations({m, n})

=============================================================================
