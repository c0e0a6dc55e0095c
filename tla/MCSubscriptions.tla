------------------------- MODULE MCSubscriptions ----------------------------
(***************************************************************************)
(* A small instance of Subscriptions: two nodes in two files, and two      *)
(* sessions; one URI is that of a part of its node.                        *)
(***************************************************************************)
EXTENDS Subscriptions, TLC

MCNodeOf == ("a#part" :> "a") @@ ("b" :> "b")
MCPlaces == {("a" :> 2) @@ ("b" :> 1)}

MCServers ==
  {[db |-> FALSE, writes |-> FALSE], [db |-> FALSE, writes |-> TRUE],
   [db |-> TRUE, writes |-> FALSE]}
=============================================================================
