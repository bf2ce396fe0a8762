-------------------------------- MODULE MCSub0 --------------------------------
(* Sub0 for TLC: three attempts with delays that double up to a maximum that  *)
(* is no power of two, a maximum of no attempts at all, and no maximum.       *)
EXTENDS Sub0

Retry(max) == [min_backoff |-> 2, max_backoff |-> 7, max_attempts |-> max]

MCOptions == {Retry({3}), Retry({0}), Retry({})}
===============================================================================
