------------------------------ MODULE MCLogin ------------------------------
(* Login for TLC: one wildcard pattern, services below it, at it, and over *)
(* plain http; admins who come and go.                                     *)
EXTENDS Login, TLC

Pattern == [wild |-> TRUE, scheme |-> "https", host |-> <<"example", "com">>, path |-> <<"/auth">>]
Service(scheme, host) == [scheme |-> scheme, host |-> host, path |-> <<"/auth", "/callback">>]

MCUri == {Service("https", <<"app", "example", "com">>), Service("https", <<"example", "com">>),
          Service("http", <<"app", "example", "com">>)}
MCConfig == [admins : {{}, {CHOOSE u \in User : TRUE}}, redirects : {{Pattern}}]
Symmetry == Permutations(State) \cup Permutations(Session) \cup Permutations(Handler)

=============================================================================
