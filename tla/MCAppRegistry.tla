---------------------------- MODULE MCAppRegistry ----------------------------
(* Instances of AppRegistry for TLC. *)
EXTENDS AppRegistry, TLC

\* Administrators are interchangeable.
Symmetry == Permutations(Admin)
=============================================================================
