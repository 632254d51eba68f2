------------------------------ MODULE WsEvents -------------------------------
(***************************************************************************)
(* How the threads of a WebSocket client report: every event is posted to  *)
(* the client's own event loop and run by the thread that posts it, and an *)
(* error's text lies in one buffer of the client.  Both are used by any    *)
(* thread in the client, with its lock or without.                         *)
(*                                                                         *)
(* A thread is the sequence of the steps it still has to take; a call puts *)
(* its steps in front of them.  The event loop is ESP-IDF's esp_event: a   *)
(* post waits until the queue has room, and a run that may not wait takes  *)
(* one event if there is one.  (Handlers run under a mutex of the loop's,  *)
(* which makes them one step here: they wait for nothing.)                 *)
(***************************************************************************)
EXTENDS Integers, Sequences, FiniteSets, FiniteSetsExt, TLC

CONSTANTS
    Threads,        \* the client's task and the threads that use the client
    Limits,         \* bounds, one record for each instance that is checked: sizes,
                    \* the lengths of error texts, and those of WsSend
    Buffers         \* bound: the addresses malloc() may return

ASSUME BuffersAssumption ==
    /\ \A l \in Limits : l.sizes \subseteq Nat \ {0}
    /\ Buffers \subseteq Nat \ {0}

VARIABLES
    limits,         \* the bounds of this behaviour
    todo,           \* the steps each thread has before it
    queue,          \* the loop's queue: the threads whose events are in it
    errormsg_size, errormsg_buffer,
    allocated,      \* the addresses that are allocated
    needed_size,    \* esp_websocket_client_error()'s local
    data_ptr,       \* the error text an event points to, 0 for none
    met             \* history: two threads have been in error() at once

errors == <<errormsg_size, errormsg_buffer, allocated, needed_size, data_ptr, met>>

EventsInit ==
    /\ limits \in Limits
    /\ queue = <<>>
    /\ errormsg_size = 0 /\ errormsg_buffer = 0 /\ allocated = {}
    /\ needed_size = [th \in Threads |-> 0]
    /\ data_ptr = [th \in Threads |-> 0]
    /\ met = FALSE

At(th, step) == todo[th] # <<>> /\ Head(todo[th]) = step

\* The thread's step is done, and those of a call come next.
Do(th, step, call) ==
    /\ At(th, step)
    /\ todo' = [todo EXCEPT ![th] = call \o Tail(@)]

\* esp_websocket_client_dispatch_event()
Dispatch == <<"post", "run">>

\* Slip: WEBSOCKET_EVENT_QUEUE_SIZE is 2.
PostAhead(th) ==
    /\ Len(queue) < 2
    /\ Do(th, "post", <<>>)
    /\ queue' = Append(queue, th)
    /\ UNCHANGED errors

\* esp_event_post_to(), into a queue of WEBSOCKET_EVENT_QUEUE_SIZE
Post(th) ==
    /\ queue = <<>>
    /\ Do(th, "post", <<>>)
    /\ queue' = <<th>>
    /\ UNCHANGED errors

\* esp_event_loop_run() with no time to wait
RunTake(th) ==
    /\ queue # <<>>
    /\ Do(th, "run", <<"handle">>)
    /\ queue' = Tail(queue)
    /\ UNCHANGED errors

RunNothing(th) ==
    /\ queue = <<>>
    /\ Do(th, "run", <<>>)
    /\ data_ptr' = [data_ptr EXCEPT ![th] = 0]
    /\ UNCHANGED <<queue, errormsg_size, errormsg_buffer, allocated, needed_size, met>>

\* The handlers
Handle(th) ==
    /\ Do(th, "handle", <<>>)
    /\ data_ptr' = [data_ptr EXCEPT ![th] = 0]
    /\ UNCHANGED <<queue, errormsg_size, errormsg_buffer, allocated, needed_size, met>>

-----------------------------------------------------------------------------
(* esp_websocket_client_error()                                            *)

\* The thread uses the error buffer, or its handlers do.
InError(th) == data_ptr[th] # 0 \/ \E s \in {"free", "malloc", "print"} : At(th, s)

\* The text's length decides whether the buffer is replaced.
Error(th) ==
    /\ \E n \in limits.sizes :
          /\ Do(th, "error", IF n > errormsg_size THEN <<"free">> ELSE <<"print">>)
          /\ needed_size' = [needed_size EXCEPT ![th] = n]
    /\ met' = (met \/ \E other \in Threads \ {th} : InError(other))
    /\ UNCHANGED <<queue, errormsg_size, errormsg_buffer, allocated, data_ptr>>

ErrorFree(th) ==
    /\ Do(th, "free", <<"malloc">>)
    /\ allocated' = allocated \ {errormsg_buffer}
    /\ UNCHANGED <<queue, errormsg_size, errormsg_buffer, needed_size, data_ptr, met>>

ErrorMalloc(th) ==
    /\ Buffers \ allocated # {}
    /\ Do(th, "malloc", <<"print">>)
    /\ errormsg_buffer' = Min(Buffers \ allocated)
    /\ allocated' = allocated \cup {errormsg_buffer'}
    /\ errormsg_size' = needed_size[th]
    /\ UNCHANGED <<queue, needed_size, data_ptr, met>>

\* Slip: the size of the buffer that was is kept.
MallocFailedKeepsSize(th) ==
    /\ Do(th, "malloc", <<>>)
    /\ errormsg_buffer' = 0
    /\ needed_size' = [needed_size EXCEPT ![th] = 0]
    /\ UNCHANGED <<queue, errormsg_size, allocated, data_ptr, met>>

ErrorMallocFailed(th) ==
    /\ Do(th, "malloc", <<>>)
    /\ errormsg_buffer' = 0 /\ errormsg_size' = 0
    /\ needed_size' = [needed_size EXCEPT ![th] = 0]
    /\ UNCHANGED <<queue, allocated, data_ptr, met>>

ErrorPrint(th) ==
    /\ Do(th, "print", Dispatch)
    /\ data_ptr' = [data_ptr EXCEPT ![th] = errormsg_buffer]
    /\ needed_size' = [needed_size EXCEPT ![th] = 0]
    /\ UNCHANGED <<queue, errormsg_size, errormsg_buffer, allocated, met>>

Report(th) ==
    \/ Post(th) \/ RunTake(th) \/ RunNothing(th) \/ Handle(th)
    \/ Error(th) \/ ErrorFree(th) \/ ErrorMalloc(th) \/ ErrorMallocFailed(th)
    \/ ErrorPrint(th)

-----------------------------------------------------------------------------
\* Every thread runs its own event, whatever others post meanwhile: a call that
\* has returned has had its event handled, and no handler sees the data of a
\* call that is over.  The queue has room for one event only, which is why.
RunsItsOwn == \A th \in Threads : At(th, "run") => queue = <<th>>

\* The error buffer is allocated when it is printed to and freed, and the text
\* an event points to stays while handlers read it, as long as no two threads
\* report errors at once: the one is the task after a poll, or a partial send,
\* which does not hold the lock.
BufferIsSound ==
    ~met => \A th \in Threads :
        /\ At(th, "free") => errormsg_buffer \in allocated \cup {0}
        /\ At(th, "print") => errormsg_buffer \in allocated
                              /\ needed_size[th] <= errormsg_size
        /\ data_ptr[th] \in allocated \cup {0}
=============================================================================
