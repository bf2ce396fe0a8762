----------------------------- MODULE MCMessage ------------------------------
(* Message for TLC: byte strings that read as a TTL field, as an expired one *)
(* and as a frame length when they end up at the front of a body.            *)
EXTENDS Message

MCData == {<<0>>, <<7, 6>>}
=============================================================================
