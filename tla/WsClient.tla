------------------------------ MODULE WsClient ------------------------------
(***************************************************************************)
(* The life of one esp_websocket_client handle: the client task            *)
(* (esp_websocket_client_task) and the application threads that call the   *)
(* API (start, stop, close, destroy, send).  They share the fields of      *)
(* struct esp_websocket_client, the FreeRTOS event group status_bits and   *)
(* the recursive mutex lock.  The granularity is one step per access to a  *)
(* shared field that another thread can observe, so that every window      *)
(* between a check and its use, between a poll and the read it announces,  *)
(* and between STOPPED_BIT and the end of the task is an interleaving.     *)
(*                                                                         *)
(* The transport (TCP/TLS/WebSocket) is the environment: a connect, a      *)
(* write, a read or a poll may succeed or fail at any time, and fails on a *)
(* transport that has been closed.  Times are abstracted: a timeout may    *)
(* expire or not.  Message contents are left out.                          *)
(***************************************************************************)
EXTENDS Integers

CONSTANTS
    Tasks,            \* incarnations of the client task, one per start()
    Apps,             \* application threads
    Ctl,              \* the application thread that starts, stops, closes, destroys
    NoThread,         \* "the lock is free"
    AutoReconnect,    \* config->auto_reconnect
    MaxConn,          \* bound: connections made; from there on a connect fails
    Calls,            \* the API calls the application makes; "restart" is a start()
                      \* of a client that it has started and not stopped since
    CloseMayTimeOut   \* close() is called with a timeout that can expire

\* Threads are told apart by their values; only Ctl controls the client.
ASSUME ThreadsAssumption ==
    /\ Tasks \cap Apps = {}
    /\ Ctl \in Apps
    /\ NoThread \notin Tasks \cup Apps

\* The switches of an instance.
ASSUME InstanceAssumption ==
    /\ AutoReconnect \in BOOLEAN
    /\ CloseMayTimeOut \in BOOLEAN
    /\ MaxConn \in Nat
    /\ Calls \subseteq {"start", "restart", "stop", "close", "send", "destroy", "destroy_on_exit"}

VARIABLES
    \* fields of struct esp_websocket_client
    state,                    \* websocket_client_state_t
    run,
    status_bits,              \* event group: STOPPED_BIT, CLOSE_FRAME_SENT_BIT
    selected_for_destroying,
    wait_for_pong_resp,
    lock,                     \* owner of the recursive mutex, or NoThread
    freed,                    \* destroy_and_free_resources() has run
    \* the transport
    open,                     \* client->transport holds an open connection
    conn,                     \* connections made so far; the open one is number conn
    ownCloses,                \* CLOSE frames that close() sent on connection conn
    echoes,                   \* CLOSE frames that the task sent on it
    \* threads
    pc,                       \* where each thread is
    op,                       \* the API call an application thread is in
    read_select,              \* the task's local: result of its last poll
    \* what the application knows
    started,                  \* start() returned, and no stop() or close() since
    ev,                       \* last event dispatched since the task was created
    \* history, for the properties
    pollConn,                 \* the connection each task polled last
    heard,                    \* the connection polled before the last DATA event
    past                      \* what has happened that a property allows for, see Past

flags   == <<run, status_bits, selected_for_destroying, freed>>
link    == <<open, conn, ownCloses, echoes>>
locals  == <<op, read_select, pollConn>>
session == <<started, ev, heard>>
vars    == <<state, wait_for_pong_resp, lock, pc, flags, link, locals, session, past>>

Threads == Tasks \cup Apps
States  == {"UNKNOW", "INIT", "CONNECTED", "WAIT_TIMEOUT", "CLOSING"}
Bits    == {"STOPPED", "CLOSE_FRAME_SENT"}
Events  == {"NONE", "ERROR", "CONNECTED", "DISCONNECTED", "DATA", "CLOSED", "BEFORE_CONNECT"}

\* What an application or start() did that some property cannot hold after:
\*   "early"      start() was let in while a task of before was in its loop
\*                (StartCreate);
\*   "missed"     start() cleared the STOPPED_BIT of the task it had created,
\*   "forgotten"  or its CLOSE_FRAME_SENT_BIT (StartClear);
\*   "unstopped"  destroy() found run clear and the task still there (DestroyCall).
Past == {"early", "missed", "forgotten", "unstopped"}

TaskLabels == {"unborn", "enter", "init", "clear", "loop", "lock", "switch", "connect",
               "read", "abort", "abort_state", "abort_event", "unlock", "post", "poll",
               "delay", "poll_closed", "closed_state", "closed_event", "exit", "stopped",
               "exit_state", "exit_free", "deleted"}
AppLabels  == {"idle", "start_clear", "stop_wait", "stop_state", "send_lock", "send_raw",
               "abort", "abort_state", "abort_event", "send_unlock", "close_bit",
               "close_wait", "destroy_free"}
Ops        == {"none", "start", "stop", "close", "send", "destroy"}

\* esp_websocket_client_init(): a zeroed client, no task, nothing connected.
Init ==
    /\ state = "UNKNOW"
    /\ run = FALSE
    /\ status_bits = {}
    /\ selected_for_destroying = FALSE
    /\ wait_for_pong_resp = FALSE
    /\ lock = NoThread
    /\ freed = FALSE
    /\ open = FALSE
    /\ conn = 0
    /\ ownCloses = 0
    /\ echoes = 0
    /\ pc = [th \in Threads |-> IF th \in Tasks THEN "unborn" ELSE "idle"]
    /\ op = [a \in Apps |-> "none"]
    /\ read_select = [t \in Tasks |-> 0]
    /\ started = FALSE
    /\ ev = "NONE"
    /\ pollConn = [t \in Tasks |-> 0]
    /\ heard = 0
    /\ past = {}

\* Thread th moves from label l to label m; a freed client runs nothing defined.
Goto(th, l, m) ==
    /\ pc[th] = l
    /\ ~freed
    /\ pc' = [pc EXCEPT ![th] = m]

\* esp_websocket_client_dispatch_event(): the handlers run at once, in the
\* thread that dispatches.
Dispatch(e) == ev' = e

\* esp_websocket_client_error(); there is memory for the message.
ReportError == Dispatch("ERROR")

-----------------------------------------------------------------------------
(* esp_websocket_client_abort_connection(), in whichever thread calls it:  *)
(* the task, with the lock (connect, ping, read) or without it (poll), or  *)
(* a sender, with the lock.                                                *)

\* Where abort_connection() returns to: a sender and a task that holds the
\* lock release it, a task that failed to poll goes back to its loop.
AfterAbort(th) ==
    IF th \in Apps THEN "send_unlock" ELSE IF lock = th THEN "unlock" ELSE "loop"

\* ESP_WS_CLIENT_STATE_CHECK fails: an already stopped client is left alone.
AbortRefused(th) ==
    /\ state = "UNKNOW"
    /\ Goto(th, "abort", AfterAbort(th))
    /\ UNCHANGED <<state, wait_for_pong_resp, lock, flags, link, locals, session, past>>

\* The check passes and the transport is closed.
AbortClose(th) ==
    /\ state # "UNKNOW"
    /\ Goto(th, "abort", "abort_state")
    /\ open' = FALSE
    /\ UNCHANGED <<state, wait_for_pong_resp, lock, flags, conn, ownCloses, echoes, locals, session, past>>

AbortState(th) ==
    /\ Goto(th, "abort_state", "abort_event")
    /\ state' = "WAIT_TIMEOUT"
    /\ UNCHANGED <<wait_for_pong_resp, lock, flags, link, locals, session, past>>

AbortEvent(th) ==
    /\ Goto(th, "abort_event", AfterAbort(th))
    /\ Dispatch("DISCONNECTED")
    /\ UNCHANGED <<state, wait_for_pong_resp, lock, flags, link, locals, started, heard, past>>

Abort(th) == AbortRefused(th) \/ AbortClose(th) \/ AbortState(th) \/ AbortEvent(th)

-----------------------------------------------------------------------------
(* esp_websocket_client_task(): the prologue and the loop's head.          *)

TaskEnter(t) ==
    /\ Goto(t, "enter", "init")
    /\ run' = TRUE
    /\ UNCHANGED <<state, wait_for_pong_resp, lock, status_bits, selected_for_destroying,
                   freed, link, locals, session, past>>

\* Slip: the state of the session before is kept.
TaskInitNoState(t) ==
    /\ Goto(t, "init", "clear")
    /\ UNCHANGED <<state, wait_for_pong_resp, lock, flags, link, locals, session, past>>

\* No transport for the scheme: a set_uri() since start() has named another.
\* The loop is not entered.
TaskNoTransport(t) ==
    /\ run
    /\ Goto(t, "init", "init")
    /\ run' = FALSE
    /\ UNCHANGED <<state, wait_for_pong_resp, lock, status_bits, selected_for_destroying,
                   freed, link, locals, session, past>>

\* The transport is the one that start() has made; the port is known.
TaskInit(t) ==
    /\ Goto(t, "init", "clear")
    /\ state' = "INIT"
    /\ UNCHANGED <<wait_for_pong_resp, lock, flags, link, locals, session, past>>

TaskClear(t) ==
    /\ Goto(t, "clear", "loop")
    /\ status_bits' = {}
    /\ read_select' = [read_select EXCEPT ![t] = 0]
    /\ UNCHANGED <<state, wait_for_pong_resp, lock, run, selected_for_destroying, freed,
                   link, op, pollConn, session, past>>

\* Slip: while (true).
TaskLoopForever(t) ==
    /\ Goto(t, "loop", "lock")
    /\ UNCHANGED <<state, wait_for_pong_resp, lock, flags, link, locals, session, past>>

\* while (client->run)
TaskLoop(t) ==
    /\ Goto(t, "loop", IF run THEN "lock" ELSE "exit")
    /\ UNCHANGED <<state, wait_for_pong_resp, lock, flags, link, locals, session, past>>

TaskLock(t) ==
    /\ lock = NoThread
    /\ Goto(t, "lock", "switch")
    /\ lock' = t
    /\ UNCHANGED <<state, wait_for_pong_resp, flags, link, locals, session, past>>

TaskUnlock(t) ==
    /\ Goto(t, "unlock", "post")
    /\ lock' = NoThread
    /\ UNCHANGED <<state, wait_for_pong_resp, flags, link, locals, session, past>>

-----------------------------------------------------------------------------
(* switch (client->state), under the lock.                                 *)

\* case INIT: announce the attempt, then connect.
BeforeConnect(t) ==
    /\ state = "INIT"
    /\ Goto(t, "switch", "connect")
    /\ Dispatch("BEFORE_CONNECT")
    /\ UNCHANGED <<state, wait_for_pong_resp, lock, flags, link, locals, started, heard, past>>

Connected(t) ==
    /\ conn < MaxConn
    /\ Goto(t, "connect", "unlock")
    /\ open' = TRUE
    /\ conn' = conn + 1
    /\ ownCloses' = 0
    /\ echoes' = 0
    /\ state' = "CONNECTED"
    /\ wait_for_pong_resp' = FALSE
    /\ Dispatch("CONNECTED")
    /\ UNCHANGED <<lock, flags, locals, started, heard, past>>

ConnectFailed(t) ==
    /\ Goto(t, "connect", "abort")
    /\ ReportError
    /\ UNCHANGED <<state, wait_for_pong_resp, lock, flags, link, locals, started, heard, past>>

\* case CONNECTED with the keep-alive quiet: nothing is due, or a CLOSE frame
\* is said to be out.  Read only if the last poll said there is something.
ServeQuiet(t) ==
    /\ state = "CONNECTED"
    /\ Goto(t, "switch", IF read_select[t] = 0 THEN "unlock" ELSE "read")
    /\ UNCHANGED <<state, wait_for_pong_resp, lock, flags, link, locals, session, past>>

\* The ping interval has elapsed: a PING goes out and its PONG is awaited.
ServePing(t) ==
    /\ state = "CONNECTED"
    /\ "CLOSE_FRAME_SENT" \notin status_bits
    /\ Goto(t, "switch", IF read_select[t] = 0 THEN "unlock" ELSE "read")
    /\ wait_for_pong_resp' = TRUE
    /\ UNCHANGED <<state, lock, flags, link, locals, session, past>>

\* No PONG within pingpong_timeout_sec of the PING.
ServePongTimeout(t) ==
    /\ state = "CONNECTED"
    /\ "CLOSE_FRAME_SENT" \notin status_bits
    /\ wait_for_pong_resp
    /\ Goto(t, "switch", "abort")
    /\ ReportError
    /\ UNCHANGED <<state, wait_for_pong_resp, lock, flags, link, locals, started, heard, past>>

\* case WAIT_TIMEOUT: end the task, or try again once the wait is over.
GiveUp(t) ==
    /\ state = "WAIT_TIMEOUT"
    /\ ~AutoReconnect
    /\ Goto(t, "switch", "unlock")
    /\ run' = FALSE
    /\ UNCHANGED <<state, wait_for_pong_resp, lock, status_bits, selected_for_destroying,
                   freed, link, locals, session, past>>

\* Slip: the new state is not stored.
ReconnectNever(t) ==
    /\ state = "WAIT_TIMEOUT"
    /\ AutoReconnect
    /\ Goto(t, "switch", "unlock")
    /\ UNCHANGED <<state, wait_for_pong_resp, lock, flags, link, locals, session, past>>

Reconnect(t) ==
    /\ state = "WAIT_TIMEOUT"
    /\ AutoReconnect
    /\ Goto(t, "switch", "unlock")
    /\ state' = "INIT"
    /\ UNCHANGED <<wait_for_pong_resp, lock, flags, link, locals, session, past>>

KeepWaiting(t) ==
    /\ state = "WAIT_TIMEOUT"
    /\ AutoReconnect
    /\ Goto(t, "switch", "unlock")
    /\ UNCHANGED <<state, wait_for_pong_resp, lock, flags, link, locals, session, past>>

\* Frames are counted as none, one or more.
More(n) == IF n = 0 THEN 1 ELSE 2

\* Slip: the echo is not recorded.
EchoCloseNoBit(t) ==
    /\ state = "CLOSING"
    /\ "CLOSE_FRAME_SENT" \notin status_bits
    /\ Goto(t, "switch", "unlock")
    /\ echoes' = IF open THEN More(echoes) ELSE echoes
    /\ UNCHANGED <<state, wait_for_pong_resp, lock, flags, open, conn, ownCloses, locals, session, past>>

\* case CLOSING: echo the server's CLOSE unless the client sent one; the
\* result of the write is not looked at.
EchoClose(t) ==
    /\ state = "CLOSING"
    /\ "CLOSE_FRAME_SENT" \notin status_bits
    /\ Goto(t, "switch", "unlock")
    /\ \/ open /\ echoes' = More(echoes)
       \/ UNCHANGED echoes
    /\ status_bits' = status_bits \cup {"CLOSE_FRAME_SENT"}
    /\ UNCHANGED <<state, wait_for_pong_resp, lock, run, selected_for_destroying, freed,
                   open, conn, ownCloses, locals, session, past>>

\* case CLOSING with the bit set, and default.
NothingToDo(t) ==
    /\ \/ state = "CLOSING" /\ "CLOSE_FRAME_SENT" \in status_bits
       \/ state = "UNKNOW"
    /\ Goto(t, "switch", "unlock")
    /\ UNCHANGED <<state, wait_for_pong_resp, lock, flags, link, locals, session, past>>

-----------------------------------------------------------------------------
(* esp_websocket_client_recv(), under the lock.                            *)

\* Slip: the caller takes the failure for a timeout and does not abort.
RecvFailedIgnored(t) ==
    /\ Goto(t, "read", "unlock")
    /\ ReportError
    /\ UNCHANGED <<state, wait_for_pong_resp, lock, flags, link, locals, started, heard, past>>

\* rlen < 0: the error is reported and the caller aborts the connection.
RecvFailed(t) ==
    /\ Goto(t, "read", "abort")
    /\ ReportError
    /\ UNCHANGED <<state, wait_for_pong_resp, lock, flags, link, locals, started, heard, past>>

\* Nothing arrived after all: rlen = 0 and no opcode.
RecvTimeout(t) ==
    /\ open
    /\ Goto(t, "read", "unlock")
    /\ UNCHANGED <<state, wait_for_pong_resp, lock, flags, link, locals, session, past>>

\* Part of a payload was read and dispatched; the loop reads on to its end.
RecvPart(t) ==
    /\ open
    /\ Goto(t, "read", "read")
    /\ Dispatch("DATA")
    /\ heard' = pollConn[t]
    /\ UNCHANGED <<state, wait_for_pong_resp, lock, flags, link, locals, started, past>>

\* The payload is complete and the frame needs no further action (a PING is
\* answered on the wire only).
RecvFrame(t) ==
    /\ open
    /\ Goto(t, "read", "unlock")
    /\ Dispatch("DATA")
    /\ heard' = pollConn[t]
    /\ UNCHANGED <<state, wait_for_pong_resp, lock, flags, link, locals, started, past>>

RecvPong(t) ==
    /\ open
    /\ Goto(t, "read", "unlock")
    /\ Dispatch("DATA")
    /\ heard' = pollConn[t]
    /\ wait_for_pong_resp' = FALSE
    /\ UNCHANGED <<state, lock, flags, link, locals, started, past>>

RecvClose(t) ==
    /\ open
    /\ Goto(t, "read", "unlock")
    /\ Dispatch("DATA")
    /\ heard' = pollConn[t]
    /\ state' = "CLOSING"
    /\ UNCHANGED <<wait_for_pong_resp, lock, flags, link, locals, started, past>>

-----------------------------------------------------------------------------
(* After the lock is released: wait according to the state.                *)

\* Slip: no new poll while the last one still says there is data.
TaskPostNoRepoll(t) ==
    /\ \/ state = "CONNECTED" /\ Goto(t, "post", IF read_select[t] = 0 THEN "poll" ELSE "loop")
       \/ state = "WAIT_TIMEOUT" /\ Goto(t, "post", "delay")
       \/ state = "CLOSING" /\ "CLOSE_FRAME_SENT" \in status_bits /\ Goto(t, "post", "poll_closed")
       \/ state = "CLOSING" /\ "CLOSE_FRAME_SENT" \notin status_bits /\ Goto(t, "post", "loop")
       \/ state \in {"UNKNOW", "INIT"} /\ Goto(t, "post", "loop")
    /\ UNCHANGED <<state, wait_for_pong_resp, lock, flags, link, locals, session, past>>

TaskPost(t) ==
    /\ \/ state = "CONNECTED" /\ Goto(t, "post", "poll")
       \/ state = "WAIT_TIMEOUT" /\ Goto(t, "post", "delay")
       \/ state = "CLOSING" /\ "CLOSE_FRAME_SENT" \in status_bits /\ Goto(t, "post", "poll_closed")
       \/ state = "CLOSING" /\ "CLOSE_FRAME_SENT" \notin status_bits /\ Goto(t, "post", "loop")
       \/ state \in {"UNKNOW", "INIT"} /\ Goto(t, "post", "loop")
    /\ UNCHANGED <<state, wait_for_pong_resp, lock, flags, link, locals, session, past>>

\* esp_transport_poll_read(): readable (1) or not (0).  Not under the lock.
TaskPoll(t) ==
    /\ Goto(t, "poll", "loop")
    /\ \E ready \in IF open THEN {0, 1} ELSE {0} :
          read_select' = [read_select EXCEPT ![t] = ready]
    /\ pollConn' = [pollConn EXCEPT ![t] = conn]
    /\ UNCHANGED <<state, wait_for_pong_resp, lock, flags, link, op, session, past>>

\* The poll failed: the connection is aborted, without the lock.
TaskPollFailed(t) ==
    /\ Goto(t, "poll", "abort")
    /\ read_select' = [read_select EXCEPT ![t] = -1]
    /\ pollConn' = [pollConn EXCEPT ![t] = conn]
    /\ ReportError
    /\ UNCHANGED <<state, wait_for_pong_resp, lock, flags, link, op, started, heard, past>>

TaskDelay(t) ==
    /\ Goto(t, "delay", "loop")
    /\ UNCHANGED <<state, wait_for_pong_resp, lock, flags, link, locals, session, past>>

\* esp_transport_ws_poll_connection_closed(): the server has closed the
\* connection (1) or it broke (-1).  Not under the lock from here on.
TaskPollClosed(t) ==
    /\ Goto(t, "poll_closed", "closed_state")
    /\ run' = FALSE
    /\ UNCHANGED <<state, wait_for_pong_resp, lock, status_bits, selected_for_destroying,
                   freed, link, locals, session, past>>

TaskClosedState(t) ==
    /\ Goto(t, "closed_state", "closed_event")
    /\ state' = "UNKNOW"
    /\ UNCHANGED <<wait_for_pong_resp, lock, flags, link, locals, session, past>>

TaskClosedEvent(t) ==
    /\ Goto(t, "closed_event", "exit")
    /\ Dispatch("CLOSED")
    /\ UNCHANGED <<state, wait_for_pong_resp, lock, flags, link, locals, started, heard, past>>

\* Still open after a second: the code says "still waiting" and leaves the
\* loop, run still set.
TaskStillWaiting(t) ==
    /\ open
    /\ Goto(t, "poll_closed", "exit")
    /\ UNCHANGED <<state, wait_for_pong_resp, lock, flags, link, locals, session, past>>

-----------------------------------------------------------------------------
(* The task's epilogue.                                                    *)

\* Slip: the transport is left to the next start().
TaskExitOpen(t) ==
    /\ Goto(t, "exit", "stopped")
    /\ UNCHANGED <<state, wait_for_pong_resp, lock, flags, link, locals, session, past>>

TaskExit(t) ==
    /\ Goto(t, "exit", "stopped")
    /\ open' = FALSE
    /\ UNCHANGED <<state, wait_for_pong_resp, lock, flags, conn, ownCloses, echoes, locals, session, past>>

\* Whoever waits for STOPPED_BIT may run from here on.
TaskStopped(t) ==
    /\ Goto(t, "stopped", "exit_state")
    /\ status_bits' = status_bits \cup {"STOPPED"}
    /\ UNCHANGED <<state, wait_for_pong_resp, lock, run, selected_for_destroying, freed,
                   link, locals, session, past>>

TaskExitState(t) ==
    /\ Goto(t, "exit_state", "exit_free")
    /\ state' = "UNKNOW"
    /\ UNCHANGED <<wait_for_pong_resp, lock, flags, link, locals, session, past>>

TaskExitFree(t) ==
    /\ Goto(t, "exit_free", "deleted")
    /\ freed' = (freed \/ selected_for_destroying)
    /\ UNCHANGED <<state, wait_for_pong_resp, lock, run, status_bits,
                   selected_for_destroying, link, locals, session, past>>

-----------------------------------------------------------------------------
(* The application's calls, by any thread and at any time until the client *)
(* is freed; but Ctl alone starts, stops and destroys, and as the header   *)
(* asks destroy() is called last, and instead of destroy_on_exit().        *)

\* Application thread a calls the API function f; its first step leads to l.
Enter(a, f, l) ==
    /\ f \in Calls
    /\ Goto(a, "idle", l)
    /\ op' = [op EXCEPT ![a] = f]

\* The call returns: a is idle again.
Return(a, l) ==
    /\ Goto(a, l, "idle")
    /\ op' = [op EXCEPT ![a] = "none"]

\* A task that has been created and has not yet announced its end.
Live(t) == pc[t] \notin {"unborn", "exit_state", "exit_free", "deleted"}

\* The task that start() has created has not yet got to clearing the bits.
Beginning == \E t \in Tasks : pc[t] \in {"enter", "init", "clear"}

\* The application has not stopped the session of before, whose task is still in
\* its loop.
TooEarly == started /\ \E u \in Tasks : Live(u)

\* start() looks at nothing but the state.
StartAllowed ==
    /\ (IF started THEN "restart" ELSE "start") \in Calls
    /\ pc[Ctl] = "idle"
    /\ ~freed
    /\ state = "UNKNOW"

\* start(): the transports of before are destroyed, which closes what is open
\* and fails what is still using them; xTaskCreate() makes a task.
StartCreate(t) ==
    /\ StartAllowed
    /\ pc[t] = "unborn"
    /\ pc' = [pc EXCEPT ![Ctl] = "start_clear", ![t] = "enter"]
    /\ op' = [op EXCEPT ![Ctl] = "start"]
    /\ open' = FALSE
    /\ started' = TRUE
    /\ ev' = "NONE"
    /\ past' = past \cup (IF TooEarly THEN {"early"} ELSE {})
    /\ UNCHANGED <<state, wait_for_pong_resp, lock, flags, conn, ownCloses, echoes,
                   read_select, pollConn, heard>>

\* start() that cannot make the transports or the task returns ESP_FAIL.
StartFails ==
    /\ StartAllowed
    /\ open' = FALSE
    /\ UNCHANGED <<state, wait_for_pong_resp, lock, pc, flags, conn, ownCloses, echoes,
                   locals, session, past>>

\* Slip: the bits are left to the task to clear.
StartClearNot ==
    /\ Return(Ctl, "start_clear")
    /\ UNCHANGED <<state, wait_for_pong_resp, lock, flags, link, read_select, pollConn,
                   session, past>>

\* ... and then clears the bits, while the task already runs and may have set
\* them itself.
StartClear ==
    /\ Return(Ctl, "start_clear")
    /\ status_bits' = {}
    /\ past' = past \cup { p \in {"missed", "forgotten"} :
                  /\ ~Beginning
                  /\ p = "missed" => "STOPPED" \in status_bits
                  /\ p = "forgotten" => "CLOSE_FRAME_SENT" \in status_bits }
    /\ UNCHANGED <<state, wait_for_pong_resp, lock, run, selected_for_destroying, freed,
                   link, read_select, pollConn, session>>

\* stop(), or destroy() of a running client: refused unless run is set.
StopCall(f) ==
    /\ run
    /\ f = "destroy" => ~selected_for_destroying /\ \A a \in Apps : pc[a] = "idle"
    /\ Enter(Ctl, f, "stop_wait")
    /\ run' = FALSE
    /\ UNCHANGED <<state, wait_for_pong_resp, lock, status_bits, selected_for_destroying,
                   freed, link, read_select, pollConn, session, past>>

\* Slip: the task is told to end but not waited for.
StopWaitNot ==
    /\ Goto(Ctl, "stop_wait", "stop_state")
    /\ UNCHANGED <<state, wait_for_pong_resp, lock, flags, link, locals, session, past>>

StopWait ==
    /\ "STOPPED" \in status_bits
    /\ Goto(Ctl, "stop_wait", "stop_state")
    /\ UNCHANGED <<state, wait_for_pong_resp, lock, flags, link, locals, session, past>>

StopState ==
    /\ op[Ctl] # "destroy"
    /\ Return(Ctl, "stop_state")
    /\ state' = "UNKNOW"
    /\ started' = FALSE
    /\ UNCHANGED <<wait_for_pong_resp, lock, flags, link, read_select, pollConn, ev, heard, past>>

\* Slip: destroy() returns when stop() has.
StopStateOnly ==
    /\ op[Ctl] = "destroy"
    /\ Return(Ctl, "stop_state")
    /\ state' = "UNKNOW"
    /\ UNCHANGED <<wait_for_pong_resp, lock, flags, link, read_select, pollConn, session, past>>

StopStateDestroy ==
    /\ op[Ctl] = "destroy"
    /\ Goto(Ctl, "stop_state", "destroy_free")
    /\ state' = "UNKNOW"
    /\ UNCHANGED <<wait_for_pong_resp, lock, flags, link, locals, session, past>>

\* destroy() of a client whose run is clear skips the stop.
DestroyCall ==
    /\ ~run
    /\ ~selected_for_destroying
    /\ \A a \in Apps : pc[a] = "idle"
    /\ Enter(Ctl, "destroy", "destroy_free")
    /\ past' = past \cup (IF \E t \in Tasks : Live(t) THEN {"unstopped"} ELSE {})
    /\ UNCHANGED <<state, wait_for_pong_resp, lock, flags, link, read_select, pollConn, session>>

DestroyFree ==
    /\ Return(Ctl, "destroy_free")
    /\ freed' = TRUE
    /\ UNCHANGED <<state, wait_for_pong_resp, lock, run, status_bits,
                   selected_for_destroying, link, read_select, pollConn, session, past>>

\* destroy_on_exit(), from any thread or handler: the task frees the client,
\* whatever calls are being made at its end.
DestroyOnExit ==
    /\ "destroy_on_exit" \in Calls
    /\ op[Ctl] # "destroy"
    /\ ~freed
    /\ ~selected_for_destroying
    /\ selected_for_destroying' = TRUE
    /\ UNCHANGED <<state, wait_for_pong_resp, lock, pc, run, status_bits, freed, link,
                   locals, session, past>>

-----------------------------------------------------------------------------
(* send_with_opcode(), also the first half of close().                     *)

SendCall(a) ==
    /\ op[Ctl] # "destroy"
    /\ Enter(a, "send", "send_lock")
    /\ UNCHANGED <<state, wait_for_pong_resp, lock, flags, link, read_select, pollConn, session, past>>

\* close(), or close_with_code(), which goes on without a frame when there is no
\* memory for its body.
CloseCall ==
    /\ run
    /\ \E l \in {"send_lock", "close_bit"} : Enter(Ctl, "close", l)
    /\ UNCHANGED <<state, wait_for_pong_resp, lock, flags, link, read_select, pollConn, session, past>>

\* Slip: the message is sent without the lock.
SendUnlocked(a) ==
    /\ state = "CONNECTED"
    /\ Goto(a, "send_lock", "send_raw")
    /\ UNCHANGED <<state, wait_for_pong_resp, lock, flags, link, locals, session, past>>

\* The lock is taken and the client is connected.
SendLock(a) ==
    /\ lock = NoThread
    /\ state = "CONNECTED"
    /\ Goto(a, "send_lock", "send_raw")
    /\ lock' = a
    /\ UNCHANGED <<state, wait_for_pong_resp, flags, link, locals, session, past>>

\* The lock is taken, the client is not connected, the lock is given back;
\* or the lock is not to be had within the timeout (close() waits for ever).
\* close() ignores the failure and goes on.
SendRefused(a) ==
    /\ \/ lock = NoThread /\ state # "CONNECTED"
       \/ lock # NoThread /\ op[a] = "send"
    /\ IF op[a] = "close"
       THEN Goto(a, "send_lock", "close_bit") /\ UNCHANGED op
       ELSE Return(a, "send_lock")
    /\ UNCHANGED <<state, wait_for_pong_resp, lock, flags, link, read_select, pollConn, session, past>>

SendOk(a) ==
    /\ open
    /\ Goto(a, "send_raw", "send_unlock")
    /\ ownCloses' = IF op[a] = "close" THEN More(ownCloses) ELSE ownCloses
    /\ UNCHANGED <<state, wait_for_pong_resp, lock, flags, open, conn, echoes, locals, session, past>>

\* esp_transport_ws_send_raw() fails: report, then abort the connection.
SendFailed(a) ==
    /\ Goto(a, "send_raw", "abort")
    /\ ReportError
    /\ UNCHANGED <<state, wait_for_pong_resp, lock, flags, link, locals, started, heard, past>>

SendUnlock(a) ==
    /\ IF op[a] = "close"
       THEN Goto(a, "send_unlock", "close_bit") /\ UNCHANGED op
       ELSE Return(a, "send_unlock")
    /\ lock' = NoThread
    /\ UNCHANGED <<state, wait_for_pong_resp, flags, link, read_select, pollConn, session, past>>

\* close(): the bit is set whatever became of the frame.
CloseBit ==
    /\ Goto(Ctl, "close_bit", "close_wait")
    /\ status_bits' = status_bits \cup {"CLOSE_FRAME_SENT"}
    /\ UNCHANGED <<state, wait_for_pong_resp, lock, run, selected_for_destroying, freed,
                   link, locals, session, past>>

CloseDone ==
    /\ "STOPPED" \in status_bits
    /\ Return(Ctl, "close_wait")
    /\ started' = FALSE
    /\ UNCHANGED <<state, wait_for_pong_resp, lock, flags, link, read_select, pollConn, ev, heard, past>>

\* Slip: the task is waited for but not told to end.
CloseTimeoutOnly ==
    /\ CloseMayTimeOut
    /\ "STOPPED" \notin status_bits
    /\ Goto(Ctl, "close_wait", "stop_wait")
    /\ UNCHANGED <<state, wait_for_pong_resp, lock, flags, link, locals, session, past>>

\* The server did not close in time: stop the hard way.
CloseTimeout ==
    /\ CloseMayTimeOut
    /\ "STOPPED" \notin status_bits
    /\ Goto(Ctl, "close_wait", "stop_wait")
    /\ run' = FALSE
    /\ UNCHANGED <<state, wait_for_pong_resp, lock, status_bits, selected_for_destroying,
                   freed, link, locals, session, past>>

-----------------------------------------------------------------------------
\* What a task does outside the steps with their own fairness.
TaskWork(t) ==
    \/ TaskEnter(t) \/ TaskNoTransport(t) \/ TaskInit(t) \/ TaskClear(t)
    \/ TaskLoop(t) \/ TaskUnlock(t)
    \/ BeforeConnect(t) \/ Connected(t) \/ ConnectFailed(t)
    \/ ServeQuiet(t) \/ ServePing(t) \/ ServePongTimeout(t)
    \/ GiveUp(t) \/ KeepWaiting(t) \/ EchoClose(t) \/ NothingToDo(t)
    \/ RecvFailed(t) \/ RecvTimeout(t) \/ RecvFrame(t) \/ RecvPong(t) \/ RecvClose(t)
    \/ TaskPost(t) \/ TaskPoll(t) \/ TaskPollFailed(t) \/ TaskDelay(t)
    \/ TaskPollClosed(t) \/ TaskClosedState(t) \/ TaskClosedEvent(t) \/ TaskStillWaiting(t)
    \/ TaskExit(t) \/ TaskStopped(t) \/ TaskExitState(t) \/ TaskExitFree(t)
    \/ Abort(t)

TaskStep(t) == TaskWork(t) \/ TaskLock(t) \/ Reconnect(t) \/ RecvPart(t)

\* Steps of calls in progress.
CallWork(a) ==
    \/ SendOk(a) \/ SendFailed(a) \/ SendUnlock(a) \/ Abort(a)
    \/ a = Ctl /\ (StartClear \/ StopWait \/ StopState \/ StopStateDestroy
                   \/ DestroyFree \/ CloseBit \/ CloseDone \/ CloseTimeout)

SendEnter(a) == SendLock(a) \/ SendRefused(a)

\* Decisions of the application to make a call.
NewCall ==
    \/ StartFails
    \/ \E t \in Tasks : StartCreate(t)
    \/ \E f \in {"stop", "destroy"} : StopCall(f)
    \/ CloseCall \/ DestroyCall \/ DestroyOnExit
    \/ \E a \in Apps : SendCall(a)

Next ==
    \/ \E t \in Tasks : TaskStep(t)
    \/ \E a \in Apps : CallWork(a) \/ SendEnter(a)
    \/ NewCall

Spec == Init /\ [][Next]_vars

(* Fairness: FreeRTOS runs every ready thread and every transport call     *)
(* returns (WF).  The lock is free for a second or more between two turns  *)
(* of the task (poll or delay), and a sender holds it for one message, so  *)
(* a thread that waits for it gets it (SF).  The reconnect wait elapses    *)
(* (SF).  A message being read ends: RecvPart has no fairness.  The        *)
(* application need not make any call.                                     *)
Fairness ==
    /\ \A t \in Tasks : WF_vars(TaskWork(t)) /\ SF_vars(TaskLock(t)) /\ SF_vars(Reconnect(t))
    /\ \A a \in Apps : WF_vars(CallWork(a)) /\ SF_vars(SendEnter(a))

FairSpec == Spec /\ Fairness

-----------------------------------------------------------------------------
(* What holds of the client.                                               *)

FieldsOK ==
    /\ state \in States
    /\ run \in BOOLEAN
    /\ status_bits \subseteq Bits
    /\ selected_for_destroying \in BOOLEAN
    /\ wait_for_pong_resp \in BOOLEAN
    /\ lock \in Threads \cup {NoThread}
    /\ freed \in BOOLEAN
    /\ open \in BOOLEAN
    /\ conn \in Nat
    /\ ownCloses \in 0..2
    /\ echoes \in 0..2
    /\ op \in [Apps -> Ops]
    /\ read_select \in [Tasks -> {-1, 0, 1}]
    /\ started \in BOOLEAN
    /\ ev \in Events
    /\ pollConn \in [Tasks -> Nat]
    /\ heard \in Nat
    /\ past \subseteq Past

LabelsOK ==
    /\ pc \in [Threads -> TaskLabels \cup AppLabels]
    /\ \A t \in Tasks : pc[t] \in TaskLabels
    /\ \A a \in Apps : pc[a] \in AppLabels

\* Every field has a value of its C type, every thread is at one of its labels.
TypeOK == FieldsOK /\ LabelsOK

\* A thread that uses the connection on the strength of the lock.
TaskLocked == {"switch", "connect", "read", "unlock"}
AppLocked  == {"send_raw", "abort", "abort_state", "abort_event", "send_unlock"}
Locked(th) == pc[th] \in (IF th \in Tasks THEN TaskLocked ELSE AppLocked)

\* A turn of the task's loop and a send that takes the lock exclude each other,
\* and two turns or two sends do, across restarts too.  (The polls, the abort
\* after a failed poll and the partial sends are made without the lock.)
MutualExclusion == \A th1, th2 \in Threads : Locked(th1) /\ Locked(th2) => th1 = th2

\* However start, stop, close and sessions that end by themselves interleave,
\* two client tasks never run their loops at the same time: STOPPED_BIT is not
\* seen before the old task is through with the transport, nor left over.  It
\* takes an application that does not start() again without a stop() or close()
\* before the old task has left its loop; start() itself does not see to it.
OneTask == "early" \notin past => \A t, u \in Tasks : Live(t) /\ Live(u) => t = u

\* When no task runs, no connection is left open: stop() and close() return
\* with the TCP connection closed, whatever senders do meanwhile, and however
\* many tasks an application has started too early.
StoppedIsClosed == (\A t \in Tasks : ~Live(t)) => ~open

\* The task reads only from the connection whose poll announced the data: a
\* poll result never survives a reconnect, although polling is unlocked and a
\* sender may abort the connection between poll and read.
ReadFresh ==
    "early" \notin past => \A t \in Tasks : pc[t] = "read" => pollConn[t] = conn

\* On one connection close() sends at most one CLOSE frame, and the task echoes
\* the server's at most once, although the bit that says so is shared by all
\* sessions and threads; unless start() was so late in clearing the bits that it
\* cleared one that the session had set.
OneCloseEach ==
    "early" \notin past => ownCloses <= 1 /\ (echoes <= 1 \/ "forgotten" \in past)

\* A client that was started once is freed, by destroy() or as destroy_on_exit()
\* asked, only when its task is through with the loop, whichever calls are being
\* made; unless destroy() took a clear run for an ended task.
FreedAfterLoop ==
    /\ freed /\ "unstopped" \notin past
    /\ \A t, u \in Tasks : pc[t] # "unborn" /\ pc[u] # "unborn" => t = u
    => \A t \in Tasks : ~Live(t)

-----------------------------------------------------------------------------
(* What eventually happens.                                                *)

\* stop() returns: the task leaves its loop wherever it is and STOPPED_BIT
\* reaches the caller, unless start() cleared it behind a task that had ended
\* already, whose run a wait for the server's close that timed out left set.
StopReturns == pc[Ctl] = "stop_wait" ~> (pc[Ctl] # "stop_wait" \/ "missed" \in past)

\* close() returns when its timeout is finite: the CLOSE frame is sent or
\* given up, and the task is waited for no longer than it takes to stop it; with
\* the same exception.
CloseReturns == op[Ctl] = "close" ~> (op[Ctl] # "close" \/ "missed" \in past)

\* A lost connection is retried (or the client is being stopped or destroyed):
\* the task never gets stuck in a state none of its cases handles.
LossIsRetried ==
    (AutoReconnect /\ ev = "DISCONNECTED") ~> (ev # "DISCONNECTED" \/ ~run \/ freed)

\* start() opens the connection: the task it creates announces an attempt to
\* connect, unless the client is stopped or destroyed first.
StartConnects == \A t \in Tasks :
    (pc[t] = "loop" /\ run /\ ev = "NONE") ~> (ev # "NONE" \/ ~run \/ freed)

\* destroy() frees the client, whether it has to stop it first or not; with the
\* same exception.
DestroyFrees == op[Ctl] = "destroy" ~> (freed \/ "missed" \in past)

\* A CLOSE frame from the server ends the session, if no destroy() does.
ServerCloseEnds == state = "CLOSING" ~> (state # "CLOSING" \/ freed)

-----------------------------------------------------------------------------
(* What the comments say and the code does not do.                         *)

\* A client that has been stopped can be started: once every call has
\* returned and every task is gone the state is back at UNKNOW.
StoppedCanStart ==
    ( /\ ~started
      /\ \A a \in Apps : pc[a] = "idle"
      /\ \A t \in Tasks : pc[t] \in {"unborn", "deleted"} )
    => state = "UNKNOW"

\* The client does not echo a CLOSE that answers its own.
EchoAnswersServer == echoes > 0 => ownCloses = 0
=============================================================================
