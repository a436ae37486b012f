------------------------- MODULE MCEnterpriseAccess -------------------------
(* Instances of EnterpriseAccess for TLC. *)
EXTENDS EnterpriseAccess, TLC

Rule(names, teams, badTeams, identity) ==
  [names |-> names, teams |-> teams, badTeams |-> badTeams, identity |-> identity]

\* A broad rule first, a rule that names nothing, and one whose gate is malformed.
MCExceptions == <<
  Rule({<<"a">>}, <<>>, FALSE, FALSE),
  Rule({<<"a", "r">>}, <<"t1", "t2">>, TRUE, TRUE),
  Rule({<<"a", "r", "x">>}, <<>>, FALSE, TRUE),
  Rule({<<"b">>}, <<>>, TRUE, FALSE),
  Rule({<<"c">>}, <<"t1">>, FALSE, FALSE) >>

To(api, path, anonymous) == [api |-> api, path |-> path, anonymous |-> anonymous]
MCTarget == {To(TRUE, <<"repos", "a", "r", "pulls">>, FALSE), To(FALSE, <<"a", "r">>, TRUE),
             To(FALSE, <<"a">>, TRUE), To(TRUE, <<"orgs", "b">>, TRUE), To(TRUE, <<"search">>, TRUE),
             To(FALSE, <<"c", "x", "tree">>, FALSE)}

Symmetry == Permutations(Request)
=============================================================================
