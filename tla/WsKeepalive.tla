----------------------------- MODULE WsKeepalive -----------------------------
(***************************************************************************)
(* The timers of the WebSocket client: when its task sends a PING, when it *)
(* gives a connection up because no PONG came, and when it connects again. *)
(* Ticks are read by _tick_get_ms() and kept in ping_tick_ms,              *)
(* pingpong_tick_ms and reconnect_tick_ms.                                 *)
(*                                                                         *)
(* Time is explicit: now advances by one while the task may still take the *)
(* time it takes (now < due).  A poll ends when there is something to read *)
(* or after Poll; a write, a connect, a wait for the lock, and a read with *)
(* its handler take up to Busy.  The server answers a PING within Answer   *)
(* until it dies silently; it may send other frames as well.  One sender   *)
(* takes the lock while the task polls; close() has sent its frame or      *)
(* set_ping_interval_sec() is called at any time.  All times are in the    *)
(* unit of the ticks.                                                      *)
(***************************************************************************)
EXTENDS Integers, Sequences

CONSTANTS
    UserConfigs,     \* timers an application may configure, 0 for "not set"
    Intervals,       \* what it may pass to set_ping_interval_sec()
    DefaultPing,     \* WEBSOCKET_PING_INTERVAL_SEC
    DefaultPong,     \* WEBSOCKET_PINGPONG_TIMEOUT_SEC
    DefaultWait,     \* WEBSOCKET_RECONNECT_TIMEOUT_MS
    MaxPing,         \* the longest ping interval configured
    Poll,            \* the timeout of esp_transport_poll_read()
    Busy,            \* bound: time of a step that waits, writes, reads or handles
    Answer,          \* bound: time in which a live server answers a PING
    Backlog,         \* bound: frames that wait to be read
    MaxTime          \* bound: the clock stops here

ASSUME TimersAssumption ==
    /\ {DefaultPing, DefaultPong, DefaultWait} \subseteq Nat \ {0}
    /\ Intervals \subseteq Nat
    /\ UserConfigs \subseteq [ping : Nat, pong : Nat, wait : Nat, disable : BOOLEAN]
    /\ MaxPing \in Nat /\ DefaultPing <= MaxPing
    /\ \A i \in Intervals : i <= MaxPing
    /\ \A u \in UserConfigs : u.ping <= MaxPing
    /\ {Poll, Busy, Answer, Backlog, MaxTime} \subseteq Nat

VARIABLES
    now,
    \* fields of struct esp_websocket_client
    ping_interval, pong_timeout, wait_timeout,
    state, close_sent, wait_for_pong_resp,
    ping_tick, pingpong_tick, reconnect_tick,
    \* the task
    pc,            \* where it is in a turn of its loop
    due,           \* when it is through with its step at the latest
    read_select,   \* its last poll found something to read
    sending,       \* when the sender gives the lock back at the latest, or Nothing
    \* the server and the network
    alive,
    inbox,         \* frames that have arrived
    owed,          \* when the PONG arrives at the latest, or Nothing
    \* history
    heard,         \* when a frame was last read, or the connection made
    lastTry        \* when the last attempt to connect began

config  == <<ping_interval, pong_timeout, wait_timeout>>
ticks   == <<ping_tick, pingpong_tick, reconnect_tick>>
client  == <<state, close_sent, wait_for_pong_resp, ticks>>
task    == <<pc, due, read_select>>
server  == <<alive, inbox, owed>>
history == <<heard, lastTry>>
vars    == <<now, config, client, task, sending, server, history>>

Nothing == -1
Frames  == {"PONG", "DATA"}
States  == {"INIT", "CONNECTED", "WAIT_TIMEOUT"}
Labels  == {"turn", "connect", "sent", "pong", "read", "recv", "poll", "delay"}

Or(value, default) == IF value = 0 THEN default ELSE value

\* esp_websocket_client_init() and set_config(), then start(): the ticks are
\* set when the client is made, before it is started.
Init ==
    /\ now = 0
    /\ \E u \in UserConfigs :
          /\ ping_interval = Or(u.ping, DefaultPing)
          /\ pong_timeout = IF u.disable THEN 0 ELSE Or(u.pong, DefaultPong)
          /\ wait_timeout = Or(u.wait, DefaultWait)
    /\ state = "INIT"
    /\ close_sent = FALSE
    /\ wait_for_pong_resp = FALSE
    /\ ping_tick = 0 /\ pingpong_tick = 0 /\ reconnect_tick = 0
    /\ pc = "turn"
    /\ due = Busy
    /\ read_select = FALSE
    /\ sending = Nothing
    /\ alive = TRUE /\ inbox = <<>> /\ owed = Nothing
    /\ heard = 0
    /\ lastTry = Nothing

\* The task goes on at label l, where it stays for the time t at most.
Goto(l, t) == pc' = l /\ due' = now + t

\* Slip: the wait is not begun.
AbortUntimed ==
    /\ state' = "WAIT_TIMEOUT"
    /\ UNCHANGED reconnect_tick
    /\ inbox' = <<>> /\ owed' = Nothing

\* esp_websocket_client_abort_connection()
Abort ==
    /\ state' = "WAIT_TIMEOUT"
    /\ reconnect_tick' = now
    /\ inbox' = <<>> /\ owed' = Nothing

-----------------------------------------------------------------------------
(* A turn of the task's loop.                                              *)

\* The task has the lock and finds the client in state s.
Turn(s) == pc = "turn" /\ sending = Nothing /\ state = s

\* case INIT
BeginConnect ==
    /\ Turn("INIT")
    /\ Goto("connect", Busy)
    /\ lastTry' = now
    /\ UNCHANGED <<now, config, client, read_select, sending, server, heard>>

\* Slip: a PONG awaited on the connection before is still awaited.
ConnectedStillWaiting ==
    /\ pc = "connect"
    /\ Goto("poll", Poll)
    /\ state' = "CONNECTED"
    /\ alive' = TRUE /\ inbox' = <<>> /\ owed' = Nothing
    /\ heard' = now
    /\ UNCHANGED <<now, config, close_sent, wait_for_pong_resp, ticks, read_select,
                   sending, lastTry>>

Connected ==
    /\ pc = "connect"
    /\ Goto("poll", Poll)
    /\ state' = "CONNECTED"
    /\ wait_for_pong_resp' = FALSE
    /\ alive' = TRUE /\ inbox' = <<>> /\ owed' = Nothing
    /\ heard' = now
    /\ UNCHANGED <<now, config, close_sent, ticks, read_select, sending, lastTry>>

ConnectFailed ==
    /\ pc = "connect"
    /\ Goto("delay", wait_timeout \div 2)
    /\ Abort
    /\ UNCHANGED <<now, config, close_sent, wait_for_pong_resp, ping_tick,
                   pingpong_tick, read_select, sending, alive, history>>

\* case CONNECTED: a PING is due.  A live server will answer it.
SendPing ==
    /\ Turn("CONNECTED")
    /\ ~close_sent
    /\ now - ping_tick > ping_interval
    /\ Goto("sent", Busy)
    /\ ping_tick' = now
    /\ owed' = IF alive /\ owed = Nothing THEN now + Answer ELSE owed
    /\ UNCHANGED <<now, config, state, close_sent, wait_for_pong_resp,
                   pingpong_tick, reconnect_tick, read_select, sending, alive,
                   inbox, history>>

\* Slip: the deadline is moved by every PING.
PingSentMovesDeadline ==
    /\ pc = "sent"
    /\ Goto("pong", 0)
    /\ IF pong_timeout # 0
       THEN pingpong_tick' = now /\ wait_for_pong_resp' = TRUE
       ELSE UNCHANGED <<pingpong_tick, wait_for_pong_resp>>
    /\ UNCHANGED <<now, config, state, close_sent, ping_tick, reconnect_tick,
                   read_select, sending, server, history>>

\* The PING is out: its PONG is awaited, unless one is already or need not be.
PingSent ==
    /\ pc = "sent"
    /\ Goto("pong", 0)
    /\ IF ~wait_for_pong_resp /\ pong_timeout # 0
       THEN pingpong_tick' = now /\ wait_for_pong_resp' = TRUE
       ELSE UNCHANGED <<pingpong_tick, wait_for_pong_resp>>
    /\ UNCHANGED <<now, config, state, close_sent, ping_tick, reconnect_tick,
                   read_select, sending, server, history>>

\* No PING is due, or the client is closing and skips the PONG check too.
NoPing ==
    /\ Turn("CONNECTED")
    /\ close_sent \/ now - ping_tick <= ping_interval
    /\ Goto(IF close_sent THEN "read" ELSE "pong", 0)
    /\ UNCHANGED <<now, config, client, read_select, sending, server, history>>

Overdue == now - pingpong_tick > pong_timeout

PongTimeout ==
    /\ pc = "pong"
    /\ Overdue /\ wait_for_pong_resp
    /\ Goto("delay", wait_timeout \div 2)
    /\ Abort
    /\ UNCHANGED <<now, config, close_sent, wait_for_pong_resp, ping_tick,
                   pingpong_tick, read_select, sending, alive, history>>

PongInTime ==
    /\ pc = "pong"
    /\ ~(Overdue /\ wait_for_pong_resp)
    /\ Goto("read", 0)
    /\ UNCHANGED <<now, config, client, read_select, sending, server, history>>

\* Nothing to read, says the last poll.
SkipRead ==
    /\ pc = "read" /\ ~read_select
    /\ Goto("poll", Poll)
    /\ UNCHANGED <<now, config, client, read_select, sending, server, history>>

\* Any frame puts the next PING off.
BeginRead ==
    /\ pc = "read" /\ read_select
    /\ Goto("recv", Busy)
    /\ ping_tick' = now
    /\ heard' = now
    /\ UNCHANGED <<now, config, state, close_sent, wait_for_pong_resp,
                   pingpong_tick, reconnect_tick, read_select, sending, server,
                   lastTry>>

\* esp_websocket_client_recv(): one frame, and its handler.
Recv ==
    /\ pc = "recv" /\ inbox # <<>>
    /\ Goto("poll", Poll)
    /\ wait_for_pong_resp' = (wait_for_pong_resp /\ Head(inbox) # "PONG")
    /\ inbox' = Tail(inbox)
    /\ UNCHANGED <<now, config, state, close_sent, ticks, read_select, sending,
                   alive, owed, history>>

\* The read fails.
RecvFailed ==
    /\ pc = "recv"
    /\ Goto("delay", wait_timeout \div 2)
    /\ Abort
    /\ UNCHANGED <<now, config, close_sent, wait_for_pong_resp, ping_tick,
                   pingpong_tick, read_select, sending, alive, history>>

\* case WAIT_TIMEOUT
WaitIsOver == now - reconnect_tick > wait_timeout

\* Slip: the wait is not measured.
ReconnectAtOnce ==
    /\ Turn("WAIT_TIMEOUT")
    /\ Goto("turn", Busy)
    /\ state' = "INIT"
    /\ reconnect_tick' = now
    /\ UNCHANGED <<now, config, close_sent, wait_for_pong_resp, ping_tick,
                   pingpong_tick, read_select, sending, server, history>>

Reconnect ==
    /\ Turn("WAIT_TIMEOUT")
    /\ WaitIsOver
    /\ Goto("turn", Busy)
    /\ state' = "INIT"
    /\ reconnect_tick' = now
    /\ UNCHANGED <<now, config, close_sent, wait_for_pong_resp, ping_tick,
                   pingpong_tick, read_select, sending, server, history>>

KeepWaiting ==
    /\ Turn("WAIT_TIMEOUT")
    /\ ~WaitIsOver
    /\ Goto("delay", wait_timeout \div 2)
    /\ UNCHANGED <<now, config, client, read_select, sending, server, history>>

\* After the lock: esp_transport_poll_read() returns with data or in the end,
\* also when a sender has closed the connection meanwhile.
PollRead ==
    /\ pc = "poll"
    /\ inbox # <<>> \/ now >= due
    /\ Goto("turn", Busy)
    /\ read_select' = (inbox # <<>>)
    /\ UNCHANGED <<now, config, client, sending, server, history>>

\* The poll fails, and the task aborts without the lock.
PollFailed ==
    /\ pc = "poll"
    /\ Goto("turn", Busy)
    /\ Abort
    /\ read_select' = FALSE
    /\ UNCHANGED <<now, config, close_sent, wait_for_pong_resp, ping_tick,
                   pingpong_tick, sending, alive, history>>

\* vTaskDelay()
Delay ==
    /\ pc = "delay"
    /\ now >= due
    /\ Goto("turn", Busy)
    /\ UNCHANGED <<now, config, client, read_select, sending, server, history>>

-----------------------------------------------------------------------------
(* Other threads, the server and the clock.                                *)

\* esp_websocket_client_send_with_opcode()
SendBegin ==
    /\ pc \in {"poll", "turn"} /\ state = "CONNECTED"
    /\ sending = Nothing
    /\ sending' = IF pc = "poll" THEN now + Busy ELSE due
    /\ UNCHANGED <<now, config, client, task, server, history>>

SendEnd ==
    /\ sending # Nothing
    /\ sending' = Nothing
    /\ UNCHANGED <<now, config, client, task, server, history>>

\* The write fails, perhaps because the task has aborted the connection.
SendFailed ==
    /\ sending # Nothing
    /\ sending' = Nothing
    /\ Abort
    /\ UNCHANGED <<now, config, close_sent, wait_for_pong_resp, ping_tick,
                   pingpong_tick, task, alive, history>>

\* esp_websocket_client_close() has sent its frame.
CloseSent ==
    /\ ~close_sent /\ state = "CONNECTED"
    /\ close_sent' = TRUE
    /\ UNCHANGED <<now, config, state, wait_for_pong_resp, ticks, task, sending,
                   server, history>>

SetPingInterval ==
    /\ \E i \in Intervals : ping_interval' = Or(i, DefaultPing)
    /\ UNCHANGED <<now, pong_timeout, wait_timeout, client, task, sending, server,
                   history>>

PongArrives ==
    /\ owed # Nothing
    /\ inbox' = Append(inbox, "PONG")
    /\ owed' = Nothing
    /\ UNCHANGED <<now, config, client, task, sending, alive, history>>

DataArrives ==
    /\ alive /\ state = "CONNECTED"
    /\ Len(inbox) < Backlog
    /\ inbox' = Append(inbox, "DATA")
    /\ UNCHANGED <<now, config, client, task, sending, alive, owed, history>>

\* From here on nothing comes from the server, and nobody is told.
Die ==
    /\ alive /\ state = "CONNECTED"
    /\ alive' = FALSE
    /\ owed' = Nothing
    /\ UNCHANGED <<now, config, client, task, sending, inbox, history>>

Tick ==
    /\ now < due /\ now < MaxTime
    /\ ~(pc = "poll" /\ inbox # <<>>)
    /\ \A t \in {owed, sending} : t # Nothing => now < t
    /\ now' = now + 1
    /\ UNCHANGED <<config, client, task, sending, server, history>>

Task ==
    \/ BeginConnect \/ Connected \/ ConnectFailed
    \/ SendPing \/ PingSent \/ NoPing \/ PongTimeout \/ PongInTime
    \/ SkipRead \/ BeginRead \/ Recv \/ RecvFailed
    \/ Reconnect \/ KeepWaiting \/ PollRead \/ PollFailed \/ Delay

Next ==
    \/ Task
    \/ SendBegin \/ SendEnd \/ SendFailed \/ CloseSent \/ SetPingInterval
    \/ PongArrives \/ DataArrives \/ Die \/ Tick

Spec == Init /\ [][Next]_vars

-----------------------------------------------------------------------------
\* Ticks lie in the past, the ends of what goes on do not, and an interval is a
\* positive one; the variables have their types.
TypeOK ==
    /\ now \in Nat
    /\ ping_interval \in 1 .. MaxPing
    /\ pong_timeout \in Nat /\ wait_timeout \in Nat \ {0}
    /\ state \in States
    /\ close_sent \in BOOLEAN /\ wait_for_pong_resp \in BOOLEAN
    /\ ping_tick \in 0 .. now
    /\ pingpong_tick \in 0 .. now
    /\ reconnect_tick \in 0 .. now
    /\ pc \in Labels /\ due \in Nat /\ now <= due
    /\ read_select \in BOOLEAN
    /\ sending \in Nat \cup {Nothing} /\ (sending = Nothing \/ now <= sending)
    /\ alive \in BOOLEAN
    /\ inbox \in Seq(Frames)
    /\ owed \in Nat \cup {Nothing} /\ (owed = Nothing \/ now <= owed)
    /\ heard \in 0 .. now
    /\ lastTry \in 0 .. now \cup {Nothing}

\* A connection on which nothing comes any more is given up: unless PONGs need
\* not come or the client is closing, a frame has been read within the PING
\* interval (or the time its handler takes), the PONG timeout, and two rounds of
\* a poll, a wait for the lock and a write, however the interval is changed and
\* data puts the PING off.
SilenceIsNoticed ==
    state = "CONNECTED" /\ pong_timeout # 0 /\ ~close_sent
    => \E t \in {MaxPing, Busy} :
          now - heard <= t + pong_timeout + 2 * (Poll + 2 * Busy)

\* A server that answers is not given up although the PONG is tested before the
\* task reads, and reads one frame a round, with others ahead: the timeout must
\* only leave room for that.
LiveIsKept ==
    /\ pc = "pong" /\ Overdue /\ wait_for_pong_resp
    /\ pong_timeout >= Answer + (4 + 3 * Backlog) * Busy
    => ~alive

\* A server is not pestered: attempts to connect are more than the reconnect
\* timeout apart, through failures, losses and aborts by several threads.
AttemptsAreApart ==
    [][ lastTry' # lastTry /\ lastTry # Nothing
        => lastTry' - lastTry > wait_timeout ]_vars

\* Nor is a lost connection forgotten: the wait ends in time, though every abort
\* begins it again and the task may be in a poll when it begins.
WaitIsBounded ==
    state = "WAIT_TIMEOUT" =>
        \E t \in {Poll, wait_timeout + wait_timeout \div 2} :
            now - reconnect_tick <= t + Busy

-----------------------------------------------------------------------------
(* What makes the above inductive: until when the task is where it is.     *)

\* The states in which the task can be where it is, and the threads that can
\* hold the lock meanwhile.
Places ==
    /\ pc \notin {"turn", "poll"} => sending = Nothing
    /\ sending # Nothing => state # "INIT"
    /\ pc = "connect" => state = "INIT"
    /\ pc \in {"sent", "pong", "read", "recv"} => state = "CONNECTED"
    /\ pc = "poll" => state # "INIT"
    /\ pc = "delay" => state = "WAIT_TIMEOUT"

\* A wait began when the last attempt had, and the next attempt is made when
\* the wait is over.
Apart ==
    /\ lastTry = Nothing => state = "INIT" /\ pc = "turn"
    /\ lastTry # Nothing /\ state = "WAIT_TIMEOUT" => lastTry <= reconnect_tick
    /\ lastTry # Nothing /\ state = "INIT" /\ pc = "turn" => now - lastTry > wait_timeout

Longest == IF Poll <= wait_timeout + wait_timeout \div 2
           THEN wait_timeout + wait_timeout \div 2 ELSE Poll

\* How far a wait has come.
Waits ==
    /\ pc = "poll" => due <= now + Poll
    /\ pc = "turn" => due <= now + Busy
    /\ state = "WAIT_TIMEOUT" =>
          /\ pc = "poll" => due <= reconnect_tick + Poll
          /\ pc = "turn" => due <= reconnect_tick + Longest + Busy
          /\ pc = "delay" => due <= reconnect_tick + wait_timeout + wait_timeout \div 2

Pause == IF Busy <= MaxPing THEN MaxPing ELSE Busy

\* How long nothing has been heard, before a PONG is awaited (first) and while
\* it is (second).
Silence ==
    state = "CONNECTED" /\ pong_timeout # 0 /\ ~close_sent =>
        LET last == heard + Pause + (IF wait_for_pong_resp
                                     THEN Poll + 2 * Busy + pong_timeout ELSE 0)
        IN  /\ ~wait_for_pong_resp /\ pc # "sent" => ping_tick <= heard
            /\ wait_for_pong_resp => pingpong_tick <= heard + Pause + Poll + 2 * Busy
            /\ pc = "recv" => due <= heard + Busy
            /\ pc = "recv" => ping_tick = heard
            /\ pc = "read" => due <= last
            /\ pc = "pong" => due <= last + (IF wait_for_pong_resp THEN Poll + 2 * Busy
                                             ELSE 0)
            /\ pc = "poll" => due <= last + Poll
            /\ pc = "turn" => due <= last + Poll + Busy
            /\ pc = "sent" => due <= last + Poll + 2 * Busy

\* The time of the rounds that are left, of the most there may be, for a task that
\* reads a frame a round, when the PONG is the k-th.
Rounds(k) == 3 * Busy * (Backlog + 1 - k)

\* When the PONG that is awaited, or will be at the end of this step, arrives at
\* the latest.
By == Answer + (IF wait_for_pong_resp THEN pingpong_tick ELSE now)

\* The task is as far as to read the k-th frame in time: a poll has found it, or
\* will in this round.
InTime(k) ==
    LET late  == By + 2 * Busy + Rounds(k)
        begun == IF read_select THEN late ELSE By
    IN  /\ pc = "poll" => now <= late
        /\ pc = "turn" => due <= begun + Busy
        /\ pc \in {"sent", "pong", "read"} => due <= begun + 2 * Busy
        /\ pc = "recv" => due <= late + 3 * Busy

\* A PONG comes in time, and a step ends in time.
Prompt ==
    /\ owed # Nothing => owed <= now + Answer
    /\ pc \in {"sent", "recv"} => due <= now + Busy
    /\ pc \in {"pong", "read"} => due <= now

\* No more than Backlog frames are before the PONG.
Queued == \A i \in DOMAIN inbox : inbox[i] = "DATA" => i <= Backlog

\* A server that is alive answers: the PONG that is awaited is on its way, or has
\* arrived and is read in time.
Coming ==
    state = "CONNECTED" /\ alive /\ (wait_for_pong_resp \/ pc = "sent") =>
        \/ owed # Nothing /\ owed <= By
        \/ \E k \in DOMAIN inbox : inbox[k] = "PONG" /\ k <= Backlog + 1 /\ InTime(k)

Answers == Prompt /\ Queued /\ Coming

\* What holds of the timers and the client's own waits.
Timed == TypeOK /\ Places /\ Apart /\ Waits /\ Silence

\* The inductive invariant of the proofs.
Inv == Timed /\ Answers
=============================================================================
