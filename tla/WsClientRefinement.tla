------------------------- MODULE WsClientRefinement -------------------------
(***************************************************************************)
(* The client task and the application threads of WsClient implement the   *)
(* session an application is promised by WsSession.                        *)
(***************************************************************************)
EXTENDS WsClient

\* What the application concludes from the last event, unless it has itself
\* started a second session beside a first.
Phase ==
    IF "early" \in past THEN "broken"
    ELSE IF ev = "BEFORE_CONNECT" THEN "connecting"
    ELSE IF ev \in {"CONNECTED", "DATA"} THEN "up"
    ELSE IF ev = "CLOSED" THEN "closed"
    ELSE "down"

Begun == {t \in Tasks : pc[t] # "unborn"}

Session == INSTANCE WsSession WITH
    Sessions <- Tasks, phase <- Phase, conns <- conn, heard <- heard, begun <- Begun

\* The events of the client follow the protocol of WsSession.
ImplementsSession == Session!Spec
=============================================================================
