-------------------------------- MODULE WsSend --------------------------------
(***************************************************************************)
(* What a WebSocket client writes: messages longer than the buffer go out  *)
(* in fragments, whole messages by send_text() and send_bin() under the    *)
(* lock, and piece by piece by the partial sends, which take no lock and   *)
(* copy into the same buffer.  Meanwhile the task connects, reads, and     *)
(* polls without the lock, and any of them may find the connection broken  *)
(* and abort it.                                                           *)
(*                                                                         *)
(* A message is known by its sender and number, its data by positions.  The*)
(* transport writes a frame whole or fails.  PINGs and PONGs may come      *)
(* between fragments and are left out; the wait for a reconnect is over at *)
(* any time.                                                               *)
(***************************************************************************)
EXTENDS WsEvents

CONSTANTS
    Task,           \* the client's task
    Senders,        \* threads that send whole messages
    Partials,       \* threads that send messages in parts
    buffer_size     \* of tx_buffer

\* The bounds of an instance: what is sent by one call, the messages of each
\* thread, the length of a message in parts, and the connections made (from
\* there on a connect fails).
ASSUME SendAssumption ==
    /\ Threads = {Task} \cup Senders \cup Partials
    /\ Task \notin Senders \cup Partials /\ Senders \cap Partials = {}
    /\ buffer_size \in Nat \ {0}
    /\ \A l \in Limits : /\ l.lengths \subseteq Nat /\ l.parts \in Nat /\ l.conns \in Nat
                         /\ l.messages \in [Senders \cup Partials -> Nat]

Free(sem, th) == sem # <<>> => Head(sem) = th

VARIABLES
    state, lock,
    tx_buffer,      \* the fragment copied into it last
    open, conn,     \* the transport is open; connections made
    msg,            \* the message each thread sends, and how far it is
    \* the server's view of the open connection
    parts,          \* fragments of the message it is in
    garbled,        \* it could make no sense of a frame
    \* history
    done,           \* messages that arrived: whose, which, how long
    users           \* threads that sent data on this connection; all of them, when a
                    \* message in parts is underway from the one before

client == <<state, lock, tx_buffer, open, conn>>
server == <<parts, garbled, done>>
vars   == <<limits, todo, queue, errors, client, msg, server, users>>

Nothing == [of |-> Task, no |-> 0, from |-> 0, to |-> 0]

\* A message of a thread: its number, the end of the data handed over, widx, the
\* opcode and whether it contains FIN, whether no call has failed, and what a call
\* that fails returns.
NoMessage ==
    [no |-> 0, len |-> 0, widx |-> 0, opcode |-> "NONE", fin |-> FALSE, ok |-> TRUE,
     ret |-> -1]

Init ==
    /\ EventsInit
    /\ todo = [th \in Threads |-> IF th = Task THEN <<"turn">> ELSE <<>>]
    /\ state = "INIT" /\ lock = <<>>
    /\ tx_buffer = Nothing
    /\ open = FALSE /\ conn = 0
    /\ msg = [th \in Threads \ {Task} |-> NoMessage]
    /\ parts = <<>> /\ garbled = FALSE /\ done = {}
    /\ users = {}

-----------------------------------------------------------------------------
(* esp_websocket_client_send_with_exact_opcode()                           *)

Frame(s) ==
    LET m == msg[s]
        need_write == IF m.len - m.widx > buffer_size THEN buffer_size ELSE m.len - m.widx
    IN  [starts |-> m.opcode = "TEXT",
         fin    |-> m.fin /\ m.len - m.widx <= buffer_size,
         length |-> need_write]

\* The loop goes on while there is data, or an opcode that has not been sent.
More(m) == m.widx < m.len \/ m.opcode # "NONE"

Copy(s) ==
    /\ Do(s, "copy", <<"raw">>)
    /\ tx_buffer' = [of |-> s, no |-> msg[s].no, from |-> msg[s].widx,
                     to |-> msg[s].widx + Frame(s).length]
    /\ users' = users \cup {s}
    /\ UNCHANGED <<queue, errors, state, lock, open, conn, msg, server>>

\* What the server makes of a frame with the payload tx_buffer.
Arrive(f) ==
    LET now   == Append(parts, tx_buffer)
        whole == \A i \in DOMAIN now :
                    /\ now[i].of = now[1].of /\ now[i].no = now[1].no
                    /\ now[i].from = (IF i = 1 THEN 0 ELSE now[i - 1].to)
    IN  IF garbled \/ f.starts # (parts = <<>>) \/ (f.fin /\ ~whole)
        THEN garbled' = TRUE /\ parts' = <<>> /\ UNCHANGED done
        ELSE /\ UNCHANGED garbled
             /\ parts' = IF f.fin THEN <<>> ELSE now
             /\ done' = IF f.fin
                        THEN done \cup {[of |-> now[1].of, no |-> now[1].no,
                                         len |-> now[Len(now)].to]}
                        ELSE done

\* Slip: the opcode is sent with every fragment.
RawKeepsOpcode(s) ==
    /\ open
    /\ Arrive(Frame(s))
    /\ LET m == [msg[s] EXCEPT !.widx = @ + Frame(s).length]
       IN  /\ msg' = [msg EXCEPT ![s] = [m EXCEPT !.opcode =
                                          IF m.widx < m.len THEN @ ELSE "NONE"]]
           /\ Do(s, "raw", IF m.widx < m.len THEN <<"copy">> ELSE <<>>)
    /\ UNCHANGED <<queue, errors, client, users>>

\* esp_transport_ws_send_raw() writes a frame.
Raw(s) ==
    /\ open
    /\ Arrive(Frame(s))
    /\ LET m == [msg[s] EXCEPT !.widx = @ + Frame(s).length, !.opcode = "NONE"]
       IN  /\ msg' = [msg EXCEPT ![s] = m]
           /\ Do(s, "raw", IF More(m) THEN <<"copy">> ELSE <<>>)
    /\ UNCHANGED <<queue, errors, client, users>>

\* Slip: a fragment that fails is passed over.
RawFailedGoesOn(s) ==
    LET m == [msg[s] EXCEPT !.widx = @ + Frame(s).length, !.opcode = "NONE"]
    IN  /\ msg' = [msg EXCEPT ![s] = m]
        /\ Do(s, "raw", IF More(m) THEN <<"copy">> ELSE <<>>)
        /\ UNCHANGED <<queue, errors, client, server, users>>

\* It fails with -1, as it does on a closed transport, or has written none of the
\* data in time, and the connection is given up: that result is the call's.
RawFailed(s) ==
    /\ Do(s, "raw", <<"error", "abort">>)
    /\ \E wlen \in {-1, 0} :
          /\ wlen = 0 => Frame(s).length # 0
          /\ msg' = [msg EXCEPT ![s] = [@ EXCEPT !.ok = FALSE, !.ret = wlen]]
    /\ UNCHANGED <<queue, errors, client, server, users>>

\* esp_websocket_client_abort_connection() closes the transport, whatever the state
\* (here it is never the one at which it returns at once) ...
Abort(th) ==
    /\ Do(th, "abort", <<"lost">>)
    /\ open' = FALSE
    /\ UNCHANGED <<queue, errors, state, lock, tx_buffer, conn, msg, server, users>>

\* ... and then writes the state, which another thread may have done meanwhile, or
\* the task behind a new connection.
Lost(th) ==
    /\ Do(th, "lost", Dispatch)
    /\ state' = "WAIT_TIMEOUT"
    /\ UNCHANGED <<queue, errors, lock, tx_buffer, open, conn, msg, server, users>>

-----------------------------------------------------------------------------
(* Threads that send.                                                      *)

Begin(s, n, opcode, fin) ==
    [no |-> msg[s].no + 1, len |-> n, widx |-> 0, opcode |-> opcode, fin |-> fin,
     ok |-> TRUE, ret |-> -1]

\* esp_websocket_client_send_with_opcode()
SendCall(s) ==
    /\ s \in Senders /\ todo[s] = <<>> /\ msg[s].no < limits.messages[s]
    /\ todo' = [todo EXCEPT ![s] = <<"lock">>]
    /\ \E n \in limits.lengths : msg' = [msg EXCEPT ![s] = Begin(s, n, "TEXT", TRUE)]
    /\ UNCHANGED <<queue, errors, client, server, users>>

SendLock(s) ==
    /\ Free(lock, s)
    /\ Do(s, "lock", IF state = "CONNECTED" THEN <<"copy", "unlock">> ELSE <<"unlock">>)
    /\ lock' = <<s>> \o lock
    /\ msg' = [msg EXCEPT ![s].ok = (state = "CONNECTED")]
    /\ UNCHANGED <<queue, errors, state, tx_buffer, open, conn, server, users>>

\* The mutex is not free in time.
SendLockTimeout(s) ==
    /\ ~Free(lock, s)
    /\ Do(s, "lock", <<>>)
    /\ msg' = [msg EXCEPT ![s].ok = FALSE]
    /\ UNCHANGED <<queue, errors, client, server, users>>

Unlock(th) ==
    /\ Do(th, "unlock", <<>>)
    /\ lock' = Tail(lock)
    /\ UNCHANGED <<queue, errors, state, tx_buffer, open, conn, msg, server, users>>

\* The thread is in the middle of a message: no part has failed, and none was
\* the last.
Underway(p) == msg[p].no > 0 /\ ~msg[p].fin /\ msg[p].ok

\* esp_websocket_client_send_text_partial()
PartialText(p) ==
    /\ p \in Partials /\ todo[p] = <<>> /\ ~Underway(p)
    /\ msg[p].no < limits.messages[p]
    /\ todo' = [todo EXCEPT ![p] = <<"copy", "return">>]
    /\ \E n \in limits.lengths : msg' = [msg EXCEPT ![p] = Begin(p, n, "TEXT", FALSE)]
    /\ UNCHANGED <<queue, errors, client, server, users>>

\* esp_websocket_client_send_cont_msg(); without data it sends nothing.
PartialCont(p) ==
    /\ p \in Partials /\ todo[p] = <<>> /\ Underway(p)
    /\ \E n \in limits.lengths :
          /\ msg[p].len + n <= limits.parts
          /\ msg' = [msg EXCEPT ![p].len = @ + n]
          /\ todo' = [todo EXCEPT ![p] = IF n > 0 THEN <<"copy", "return">> ELSE <<>>]
    /\ UNCHANGED <<queue, errors, client, server, users>>

\* esp_websocket_client_send_fin()
PartialFin(p) ==
    /\ p \in Partials /\ todo[p] = <<>> /\ Underway(p)
    /\ todo' = [todo EXCEPT ![p] = <<"copy", "return">>]
    /\ msg' = [msg EXCEPT ![p].opcode = "FIN", ![p].fin = TRUE]
    /\ UNCHANGED <<queue, errors, client, server, users>>

Return(p) ==
    /\ Do(p, "return", <<>>)
    /\ UNCHANGED <<queue, errors, client, msg, server, users>>

-----------------------------------------------------------------------------
(* The task's loop.                                                        *)

Turn(s) ==
    /\ lock = <<>>
    /\ state = s
    /\ lock' = <<Task>>

\* case INIT
TurnInit ==
    /\ Turn("INIT")
    /\ Do(Task, "turn", Dispatch \o <<"connect", "unlock", "turn">>)
    /\ UNCHANGED <<queue, errors, state, tx_buffer, open, conn, msg, server, users>>

\* Messages in parts that are underway go on, on the new connection.
Connected ==
    /\ conn < limits.conns
    /\ Do(Task, "connect", Dispatch)
    /\ state' = "CONNECTED"
    /\ open' = TRUE /\ conn' = conn + 1
    /\ parts' = <<>> /\ garbled' = FALSE
    /\ users' = IF \E p \in Partials : Underway(p) \/ todo[p] # <<>> THEN Threads ELSE {}
    /\ UNCHANGED <<queue, errors, lock, tx_buffer, msg, done>>

ConnectFailed ==
    /\ Do(Task, "connect", <<"error", "abort">>)
    /\ UNCHANGED <<queue, errors, client, msg, server, users>>

\* case CONNECTED: nothing to do, a frame and its DATA event, or a failed read
\* or no PONG.
TurnConnected ==
    /\ Turn("CONNECTED")
    /\ \E call \in {<<>>, Dispatch, <<"error", "abort">>} :
          Do(Task, "turn", call \o <<"unlock", "poll", "turn">>)
    /\ UNCHANGED <<queue, errors, state, tx_buffer, open, conn, msg, server, users>>

\* case WAIT_TIMEOUT
TurnWait ==
    /\ Turn("WAIT_TIMEOUT")
    /\ Do(Task, "turn", <<"unlock", "turn">>)
    /\ state' \in {"INIT", "WAIT_TIMEOUT"}
    /\ UNCHANGED <<queue, errors, tx_buffer, open, conn, msg, server, users>>

\* The poll, if the client is still connected, is without the lock.
Poll ==
    /\ Do(Task, "poll", <<>>)
    /\ UNCHANGED <<queue, errors, client, msg, server, users>>

PollFailed ==
    /\ state = "CONNECTED"
    /\ Do(Task, "poll", <<"error", "abort">>)
    /\ UNCHANGED <<queue, errors, client, msg, server, users>>

Step ==
    \/ \E th \in Threads :
          \/ Report(th) /\ UNCHANGED <<client, msg, server, users>>
          \/ Abort(th) \/ Lost(th) \/ Unlock(th)
    \/ \E s \in Senders \cup Partials :
          \/ Copy(s) \/ Raw(s) \/ RawFailed(s)
          \/ SendCall(s) \/ SendLock(s) \/ SendLockTimeout(s)
          \/ PartialText(s) \/ PartialCont(s) \/ PartialFin(s) \/ Return(s)
    \/ TurnInit \/ Connected \/ ConnectFailed \/ TurnConnected \/ TurnWait
    \/ Poll \/ PollFailed

Next == Step /\ UNCHANGED limits

Spec == Init /\ [][Next]_vars

-----------------------------------------------------------------------------
\* Only whole messages were sent on this connection, or one thread alone has
\* sent on it and begun its message there.
Undisturbed == users \cap Partials = {} \/ \E p \in Partials : users = {p}

\* The server makes sense of what it gets: fragments of two messages never mix,
\* none is missing, and the last one says so, although a connection is aborted
\* between any two fragments and made again.  Partial sends keep to this only
\* while they are alone and the connection lasts.
WireIsLegal == Undisturbed => ~garbled

\* What the call returns; for a message in parts, the sum of what its calls did.
Returned(s) == IF msg[s].ok THEN msg[s].widx ELSE msg[s].ret

\* A call tells the truth to a caller who compares its result with the length: a
\* message sent whole arrived as it is if it is all of it, and did not if it is
\* less; one sent in parts arrived with its FIN.  (-1 alone does not tell: the
\* result of a message that could not be written in time is 0.)
Truthful ==
    \A s \in Senders \cup Partials :
        LET mine == {d \in done : d.of = s /\ d.no = msg[s].no}
            over == IF s \in Senders THEN At(s, "unlock")
                    ELSE At(s, "return") /\ msg[s].fin
        IN  Undisturbed /\ over
            => mine = IF Returned(s) = msg[s].len
                      THEN {[of |-> s, no |-> msg[s].no, len |-> msg[s].len]}
                      ELSE {}
=============================================================================
