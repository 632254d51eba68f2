--------------------------- MODULE MCWsKeepalive ---------------------------
(* An instance of WsKeepalive for TLC. *)
EXTENDS WsKeepalive

\* Nothing configured; everything; no PONG needed.
Configs ==
    { [ping |-> 0, pong |-> 0, wait |-> 0, disable |-> FALSE],
      [ping |-> 2, pong |-> 3, wait |-> 1, disable |-> FALSE],
      [ping |-> 0, pong |-> 3, wait |-> 0, disable |-> TRUE] }
=============================================================================
