------------------------------ MODULE MCStartup ------------------------------
(* Instances of Startup for TLC. *)
EXTENDS Startup, TLC

CONSTANTS p1, p2

Ways(way1, way2) == p1 :> way1 @@ p2 :> way2

\* Of two choices that only swap the processes, one.  The configurations differ
\* in what follows the migrations only.
MCInit ==
  /\ Init
  /\ \/ /\ config = "full"
        /\ mode \in {Ways("migrate", "migrate"), Ways("migrate", "serve"),
                     Ways("migrate", "command"), Ways("serve", "serve"),
                     Ways("serve", "command")}
     \/ /\ config # "full"
        /\ mode = Ways("migrate", "serve")
        /\ proc[p1].files = Files

MCSpec == MCInit /\ [][Next]_vars /\ Fairness
=============================================================================
