----------------------------- MODULE WsSession -----------------------------
(***************************************************************************)
(* What the application is promised by the events of a WebSocket client,   *)
(* whatever its threads do: within a session the client announces an       *)
(* attempt, then that the connection is up or not; messages come only on   *)
(* the connection that was announced last; a clean close follows a         *)
(* connection that was up, and nothing follows it but a new session.  An   *)
(* application that starts a session before the one of before has ended is *)
(* promised nothing any more.                                              *)
(***************************************************************************)
EXTENDS Naturals

CONSTANT Sessions    \* identities of the sessions, one per start()

VARIABLES
    phase,     \* "down", "connecting", "up", "closed" or "broken"
    conns,     \* connections announced so far
    heard,     \* the connection the last message came from
    begun      \* the sessions begun so far

vars == <<phase, conns, heard, begun>>

Init ==
    /\ phase = "down"
    /\ conns = 0
    /\ heard = 0
    /\ begun = {}

\* WEBSOCKET_EVENT_BEFORE_CONNECT
Connecting ==
    /\ phase = "down"
    /\ phase' = "connecting"
    /\ UNCHANGED <<conns, heard, begun>>

\* WEBSOCKET_EVENT_CONNECTED
Opened ==
    /\ phase = "connecting"
    /\ phase' = "up"
    /\ conns' = conns + 1
    /\ UNCHANGED <<heard, begun>>

\* WEBSOCKET_EVENT_DATA
Message ==
    /\ phase = "up"
    /\ heard' = conns
    /\ UNCHANGED <<phase, conns, begun>>

\* WEBSOCKET_EVENT_ERROR and WEBSOCKET_EVENT_DISCONNECTED
Lost ==
    /\ phase \in {"connecting", "up"}
    /\ phase' = "down"
    /\ UNCHANGED <<conns, heard, begun>>

\* WEBSOCKET_EVENT_CLOSED
Closed ==
    /\ phase = "up"
    /\ phase' = "closed"
    /\ UNCHANGED <<conns, heard, begun>>

\* start()
NewSession ==
    /\ phase # "broken"
    /\ \E s \in Sessions \ begun : begun' = begun \cup {s}
    /\ phase' = "down"
    /\ UNCHANGED <<conns, heard>>

\* start() of a client that still runs
StartedTooEarly ==
    /\ phase' = "broken"
    /\ \E s \in Sessions \ begun : begun' = begun \cup {s}
    /\ UNCHANGED <<conns, heard>>

\* ... after which anything may be announced.
Broken == phase = "broken" /\ phase' = "broken"

Next == StartedTooEarly \/ Broken \/ Connecting \/ Opened \/ Message \/ Lost \/ Closed \/ NewSession

Spec == Init /\ [][Next]_vars
=============================================================================
