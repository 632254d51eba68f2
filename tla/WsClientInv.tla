---------------------------- MODULE WsClientInv ----------------------------
(***************************************************************************)
(* The inductive invariant behind the safety properties of WsClient and    *)
(* the refinement of WsSession.  Each part is inductive given the parts    *)
(* before it; those about sessions hold as long as none is started too     *)
(* early.                                                                  *)
(***************************************************************************)
EXTENDS WsClientRefinement

\* The lock belongs to the thread that relies on it.
LockInv == \A th \in Threads : Locked(th) => lock = th

NoneLive == \A t \in Tasks : ~Live(t)

\* A connection is open only while some task has its closing ahead.
OpenInv == open => \E t \in Tasks : Live(t) /\ pc[t] # "stopped"

\* STOPPED_BIT means that no task lives, but for the moment start() leaves the
\* bit of the last session standing; so stop() and close() return after the
\* task's end, and start() creates the only live task.
LifeInv ==
    /\ \A t, u \in Tasks : Live(t) /\ Live(u) => t = u
    /\ "STOPPED" \in status_bits /\ pc[Ctl] # "start_clear" => NoneLive
    /\ pc[Ctl] = "stop_state" => NoneLive
    /\ ~started => NoneLive

Aborting == {"abort", "abort_state", "abort_event"}
Polled   == {"loop", "lock", "switch", "connect", "read", "delay"} \cup Aborting

\* The last poll's result is of use only for the open connection.
FreshInv ==
    /\ \A t \in Tasks : pc[t] = "read" => pollConn[t] = conn
    /\ \A t \in Tasks :
          pc[t] \in Polled /\ state = "CONNECTED" => read_select[t] = 0 \/ pollConn[t] = conn
    /\ \A t \in Tasks : pc[t] = "connect" => state # "CONNECTED"

\* No application thread is about to report an error.
NoSender == \A a \in Apps : pc[a] \notin {"send_raw"} \cup Aborting

\* Which state and which last event go together, and where the threads are.
EventInv ==
    /\ \A th \in Threads : pc[th] \in Aborting => Phase = "down"
    /\ \A t \in Tasks : pc[t] \in {"enter", "init"} => Phase = "down"
    /\ \A t \in Tasks : pc[t] = "connect" => ev = "BEFORE_CONNECT"
    /\ \A t \in Tasks : pc[t] = "read" => Phase = "up"
    /\ \A t \in Tasks : pc[t] \in {"poll", "read"} => state # "CLOSING"
    /\ \A t \in Tasks : pc[t] \in {"poll_closed", "closed_state", "closed_event"} =>
          ev = "DATA" /\ state \in {"CLOSING", "UNKNOW"} /\ NoSender
    /\ \A t \in Tasks : pc[t] = "closed_event" => state = "UNKNOW"
    /\ state = "CLOSING" => ev = "DATA" /\ NoSender
    /\ state = "CONNECTED" /\ (\A th \in Threads : pc[th] \notin {"abort", "abort_state"})
          => Phase = "up"
    /\ state \in {"INIT", "WAIT_TIMEOUT"} /\ (\A t \in Tasks : pc[t] # "connect")
          => Phase = "down"
    /\ ev = "CLOSED" =>
          /\ state = "UNKNOW"
          /\ NoSender
          /\ \A t \in Tasks :
                pc[t] \in {"unborn", "exit", "stopped", "exit_state", "exit_free", "deleted"}

\* Which call the controlling thread is in; no other closes the client.
CallInv ==
    /\ pc[Ctl] = "idle" => op[Ctl] = "none"
    /\ pc[Ctl] = "start_clear" => op[Ctl] = "start"
    /\ pc[Ctl] = "destroy_free" => op[Ctl] = "destroy"
    /\ \A a \in Apps : op[a] = "close" => a = Ctl

\* The client has had more than one session.
StartedTwice == \E t, u \in Tasks : pc[t] # "unborn" /\ pc[u] # "unborn" /\ t # u

\* destroy() and destroy_on_exit() exclude each other; and destroy() has waited
\* for the end of the task, or has not seen it run.
FreeInv ==
    /\ "early" \in past => StartedTwice
    /\ op[Ctl] = "destroy" => ~selected_for_destroying
    /\ pc[Ctl] = "destroy_free" =>
          "unstopped" \in past \/ "early" \in past \/ NoneLive
    /\ freed => NoneLive \/ "unstopped" \in past \/ StartedTwice

\* close() may have sent its frame on the open connection.
OwnCloseSent == op[Ctl] = "close" /\ pc[Ctl] \notin {"send_lock", "send_raw"}

\* How many CLOSE frames the open connection has seen: none of its own but in a
\* close() that is waiting; and no echo while the bit is clear, whose clearing by
\* start() comes before the connection or is remembered.
FrameInv ==
    /\ ownCloses <= 1
    /\ open /\ ~OwnCloseSent => ownCloses = 0
    /\ "forgotten" \notin past => echoes <= 1
    /\ open /\ echoes > 0 => "CLOSE_FRAME_SENT" \in status_bits \/ "forgotten" \in past
    /\ \A t \in Tasks : pc[t] \in {"enter", "init", "clear"} => ~open

Inv ==
    /\ TypeOK /\ LockInv /\ OpenInv /\ CallInv /\ FreeInv
    /\ "early" \notin past => LifeInv /\ FreshInv /\ EventInv /\ FrameInv
=============================================================================
