--------------------------- MODULE MCTokenService ---------------------------
(* Instances of TokenService for TLC. *)
EXTENDS TokenService, FiniteSets, TLC

\* Requests and callers are interchangeable; so are the instances.
Symmetry ==
  Permutations(Resolver) \cup Permutations(Caller) \cup Permutations(Instance)

Running == {i \in Instance : boot[i].st # "down"}
Calls == {c \in Caller : call[c].pc # "idle"}

\* State constraint: while two instances run, one call at a time.
OneCallOnTwo == Cardinality(Running) = 2 => Cardinality(Calls) <= 1
=============================================================================
