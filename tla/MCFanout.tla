------------------------------ MODULE MCFanout ------------------------------
(* Fanout for TLC: three peers and one message, where swap_remove reorders,  *)
(* and two peers and two messages with a peer of the wrong protocol; for     *)
(* Push0Fan at least one round and a half of the rotation.                   *)
EXTENDS Fanout

Explore(k, n, m, x, b, w) ==
    [kind |-> k, conns |-> n, msgs |-> m, cancels |-> x, bad |-> b, talk |-> w]

MCScenarios ==
    {Explore("Pub0", 3, 1, 1, 0, 0), Explore("Bus0", 3, 1, 0, 0, 1),
     Explore("BusStream", 3, 1, 0, 0, 0)}
        \cup {Explore(k, 2, 2, 1, 1, 2) : k \in {"Pub0", "Bus0", "BusStream"}}
        \cup {Explore("BusDial", 1, 2, 1, 0, 1), Explore("PushFan", 3, 5, 1, 1, 0)}
=============================================================================
