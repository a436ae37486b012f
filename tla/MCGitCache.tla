----------------------------- MODULE MCGitCache -----------------------------
(* GitCache for TLC: one repository and two fetch commands, one of which    *)
(* comes after ls-refs in the same request, the other alone or before it.   *)
EXTENDS GitCache, TLC

CONSTANTS w1, w2
MCRequest == {<<LsRefs, w1>>, <<w2, LsRefs>>, <<w2>>}
Symmetry  == Permutations(Handler)

=============================================================================
