# TLA+ models of the wireless localization node

The repository holds the firmware of an ESP32 that finds out where it is: it
scans for Wi-Fi access points, sends the list over a WebSocket to a location
server, shows the location that comes back on an OLED display, publishes it
through an MQTT broker, and shows the location of another node it tracks. This
directory holds TLA+ models of that firmware, TLC configurations that check
them, and TLAPS proofs about them.

Paths below are relative to `src/device/websocket_client(ESP32)/`; `ws/`,
`init/`, `scan/`, `mqtt/`, `ssd/` stand for `components/ws_client/`,
`components/init/`, `components/scan/`, `components/mqtt_client1/` and
`components/ssd1306/`.

## 1. The system

### Components

| Component | State | Operations | Correct means |
|---|---|---|---|
| WebSocket client core, `ws/esp_websocket_client.c` | `struct esp_websocket_client`: `state`, `run`, the event group `status_bits` (`STOPPED_BIT`, `CLOSE_FRAME_SENT_BIT`), the recursive mutex `lock`, `wait_for_pong_resp`, `selected_for_destroying`; the transport | the task; `start`, `stop`, `close`, `destroy`, `destroy_on_exit`, `send_*` | one task at a time; turns and locked sends use the transport one at a time; a stopped client is closed and can be started again; calls return; a loss is retried; events follow a protocol |
| its configuration (same file) | `config`, `transport_list` | `init`, `set_uri`, `set_config`, `append_header`, `start`'s transports, `destroy` | what is allocated is freed once, also on failure; a session uses the options asked for |
| its timers (same file) | `ping_tick_ms`, `pingpong_tick_ms`, `reconnect_tick_ms`, the intervals | the task's turns, `abort_connection`, `set_ping_interval_sec` | a silent server is noticed, a live one is kept; attempts to connect come, and are apart |
| its messages and events (same file) | `tx_buffer`, the opcode of a message in parts; the event loop's queue, the buffer of the last error | `send_*`, `send_*_partial`, `send_cont_msg`, `send_fin`, `dispatch_event`, `error` | a server gets whole messages; a call tells the truth; a handler sees the event of its own thread |
| Boot and provisioning, `init/init.c`, `main/main.c` | three endpoint strings, NVS namespace `init_data`, `xSemaphore`, a task handle | the input task (type, store, give, delete itself); `func_load_endpoints` (wait, time out, delete, load, restart) | the device runs on the lines somebody entered, new or old, in a known combination |
| Wi-Fi scan, `scan/scan.c` | buffers of a call; the caller's buffer and length | `wifi_scan`, `wifi_scan2` (not called) | entries are copied within the block; entries are of the scan; averages are of all readings |
| WebSocket application, `ws/ws_client.c` | `scan_results_buf`, `nbuf`, handle of the client | scan/send loop; event handler | what is sent is the text of a scan; a block is freed once |
| MQTT application, `mqtt/mqtt_client1.c` | handle of the client, tracked id | event handler; `publish` | the tracked location is shown; own location is published |
| Display driver, `ssd/ssd1306.c`, `ssd/ssd1306_i2c.c` | `dev._page`, the controller's memory and cursor | clear a line, display a text | a line shows the text last displayed on it |
| SPI driver, font, build files | | | not used by the device, or no behaviour |

### Interactions

- `app_main` starts the Wi-Fi, then two threads that meet at `xSemaphore`: the
  input task, and the main thread, which goes on to start the MQTT client and
  the WebSocket client. Both reach NVS, which has a lock of its own.
- The WebSocket client's task and the application's threads share the fields of
  the handle. `lock` guards a turn of the task's loop and a locked send, but not
  the task's poll, nor `start`/`stop`/`close`; `stop` and `close` wait on
  `status_bits` for the task.
- Events go through an event loop whose handlers run in the thread that posts:
  the WebSocket handler runs in the client's task or in a sender, the MQTT
  handler in the MQTT client's task. Both draw on the display, and neither takes
  a lock; the I2C driver serialises single transactions only.
- The scan loop passes one buffer from `wifi_scan` to `send_text` to `free`; the
  buffer's variables outlive a round.

### What is hard

Interleavings of the client task with `stop`/`start`/`close`/senders, windows
between a check of `state` and its write, results of a poll used later, the
order of `STOPPED_BIT` and the task's last writes; the input task deleted
anywhere, power lost between two NVS entries, a timeout racing the semaphore;
an access point too many; variables that keep values of an earlier round; two
bus transactions per glyph; any one of two dozen allocations that fails; options
replaced in one place and used from another; three timers that each restart
another; fragments of two messages between which anything happens. `PROJECT.json` lists each at its line (`hazards`)
with the properties that cover it, or why none does yet.

## 2. The modules

| Module | Models |
|---|---|
| `WsClient` | client core: task, API calls, locked sends |
| `WsSession` | abstract: what an application is promised by the events of a session |
| `WsClientRefinement` | refinement mapping from `WsClient` to `WsSession` |
| `WsClientInv` | the inductive invariant |
| `WsClientProofs` | proofs about the four modules above |
| `MCWsClient` | instances for TLC |
| `WsKeepalive`, `WsKeepaliveProofs`, `MCWsKeepalive` | the client's timers against a clock, and proofs |
| `WsEvents` | how the client's threads post events and report errors |
| `WsSend`, `WsSendProofs`, `MCWsSend` | on top of `WsEvents`: fragments, locked and partial sends, what the server receives; proofs about both |
| `WsConfig`, `WsConfigProofs`, `MCWsConfig` | the client's options, and who owns what they point to, and proofs |
| `Provisioning`, `ProvisioningProofs` | boot and provisioning, and proofs |
| `Localize` | the main thread's loop with `wifi_scan` |
| `AverageScan`, `ScanProofs`, `MCAverageScan` | on top of `Localize`: the same loop with either scan, and proofs |
| `Display`, `DisplayProofs`, `MCDisplay` | two handlers and the main thread, the driver and the display, and proofs |

Definitions named "Slip" in a comment are not part of a specification. Each is a
plausible mistake in the operation that follows it; put in its place, it makes
the property it is paired with (`PROJECT.json`, `mutants`) fail, which shows that
the property looks at that code.

### WsClient

Variables are the fields of the C structure under their C names, the transport
(`open`, `conn`), each thread's place (`pc`) and, for the properties, a few
history variables. `Tasks` are incarnations of the client task, one per
`start()`; `Apps` are application threads, of which one, `Ctl`, makes the
controlling calls and the others send.

A step is one access to a shared field that another thread can observe.
So `abort_connection()` is four actions (`AbortRefused`, `AbortClose`,
`AbortState`, `AbortEvent`): lines 225, 231, 234 and 236 run in the task with or
without the lock, or in a sender. `TaskNoTransport` is the scheme without a transport
before the loop. The loop is `TaskLoop` (the `while`),
`TaskLock`, the `switch` (`BeforeConnect`/`Connected`/`ConnectFailed`,
`Serve*`/`Recv*`, `GiveUp`/`Reconnect`/`KeepWaiting`, `EchoClose`,
`NothingToDo`), `TaskUnlock`, and the unlocked end (`TaskPost`, `TaskPoll`,
`TaskDelay`, `TaskStillWaiting`, and lines 1048, 1049 and 1050 as `TaskPollClosed`,
`TaskClosedState` and `TaskClosedEvent`). The epilogue is four steps,
because `STOPPED_BIT` (1056) comes before the last write of `state` (1057) and the
deletion (1058). `start()` is two steps: it closes the transport of before and
creates the task (`StartCreate`, or `StartFails`), and then clears the bits (1083),
while the task already runs. `close_with_code()` goes on without a frame when there is
no memory for its body.

Of the application the model assumes only that one thread, `Ctl`, starts, stops, closes
and destroys, and that `destroy()` is called last and while no other call is under
way. In particular `start()` is guarded by what the code looks at, the state: the call
"restart" is a `start()` of a client that was started and not stopped since, which is
let in as soon as the old task has written `UNKNOW` (1049), with that task still on
its way to its end. `destroy_on_exit()` comes from any thread at any time, with other
calls waiting. Once the client is freed nothing runs any more: a use of freed memory
is undefined, and the model does not follow it.

Some properties cannot hold of every application, or after every one of these
interleavings. What they allow for is in the history variable `past`, and each of
its members is set by the one step that does it: "early", `start()` was let in with an
old task in its loop; "missed", `start()`'s clear took the `STOPPED_BIT` of the task it
had created; "forgotten", it took that task's `CLOSE_FRAME_SENT_BIT`; "unstopped",
`destroy()` found `run` clear and the task still there.

The transport is the environment: connects, writes, reads and polls may fail at
any time, and fail on a closed transport. Times are abstracted: a timeout may
expire or not. Handlers run at once in the thread that dispatches (`Dispatch`), and
there is memory for error messages: `WsSend` takes these apart. `WsKeepalive` has
the times, `WsConfig` the options.

### WsSession

An application sees phases: down, connecting, up, closed. Messages come only
while up and only from the connection announced last, a clean close follows a
connection that was up, and only a new session follows it. `WsClientRefinement`
derives the phase from the last event. An application that starts a second session
beside a first breaks the protocol for good (`broken`).

### WsKeepalive

Time is explicit: `now` is advanced by `Tick`, one unit at a time, and only while
the task may still take the time it takes (`due`): a step that waits, writes or
reads may take up to `Busy`, a poll up to `Poll`. The fields are the ticks and
intervals of the structure; `pc` is where the task is in a turn of its loop, from
`Turn` through `SendPing`, the test for the PONG (`PongTimeout`/`PongInTime`) and
the read to the poll or, in WAIT_TIMEOUT, the `Delay` of half the timeout. One
sender takes the lock between turns (`SendBegin`, `SendEnd`, `SendFailed`). The
server answers PINGs within `Answer` until it dies without a word, and may send
data at any time, which puts PINGs off. `close()` has sent its frame, or
`set_ping_interval_sec()` is called, at any time.

### WsEvents and WsSend

A thread is the list of steps it has before it (`todo`); a call puts its steps in
front. `WsEvents` has the two things every thread reports through: the event
loop, to whose queue of one an event is posted and which the posting thread then
runs with a timeout of 0 (`Post`, `RunTake`, `RunNothing`, `Handle`), and the
buffer of the last error (`ErrorFree`, `ErrorMalloc`, `ErrorMallocFailed`,
`ErrorPrint`), whose addresses are kept apart so that a text that is gone can be
told from one that is not.

`WsSend` adds `send_with_exact_opcode` as `Copy` and `Raw`/`RawFailed` for each
fragment, with the result of the call (`ret`: -1, or 0 for a write that timed out;
`Returned`), `abort_connection()` as the close (`Abort`) and the write of the state
(`Lost`), the lock and the test of the state around a whole message, the partial
sends that take no lock, and the task's connects, reads and polls. The server is
what a WebSocket server does with the frames: fragments collect in `parts`, a
frame that does not continue them makes the connection `garbled`, a message that
is complete goes to `done`. What other threads may do to a partial send is
recorded in `users`.

### WsConfig

`phase` is where the client is in its life, or the call under way, and `pc` the
call's next step: an option of the URI (`UriStep`, from the label `parse` to
`uri_set`), a field of the configuration (`ConfigStep`) or a resource of the client
(`InitStep`). `init()` passes through all three, `set_uri()` through the first.
What a step does with a pointer is one of three: `Set` frees the old block and
allocates the new, `Format` does so with `asprintf`, `Add` allocates without a free.
Each allocation may fail (`failed`), upon which the call goes to `fail` and ends
as the code ends it: `InitFailed` destroys what there is, `UriFailed` leaves it.
A failed `asprintf` leaves the pointer to the freed block, which the check for NULL
takes for the new one (`Asprint`). A pointer holds NULL, what its string says, or
`Dangling`; `lost` collects the blocks that nothing points to any more. A failed
`init()` destroys the client, which deletes a lock that may be NULL
(`InitPanics`).

### Provisioning

An endpoint is b if it is the line typed for it at boot b, -b if it is anything else
typed then, and 0 if nobody ever typed it. Anything else is a part of the line
(`TypePart`), or what `get_string` leaves when `count` reaches `size` (`init.c:62`,
`TypeFull`): an array without an end, and a rest that is taken for the next line
(`TypeLine`). `filled` remembers the boots at which that happened. Such an entry is
longer than its array when it is loaded, and may run over the other two (`Overrun`).
`PersistOk`/`PersistFailed` and
`LoadOk`/`LoadFailed`/`LoadIgnored` are one NVS call each, so that failures, the
deletion of the input task (`Kill`) and losses of power (`Reboot`) fall between
any two. NVS is external: entries are written atomically under a lock
(`nvsLock`) that a deleted thread does not give back. `LoadIgnored` is the pair
of reads whose results are not assigned to `err` (143, 155).

### Localize, AverageScan, Display

`Localize` represents entries and texts by their lengths: what matters is whether
copies fit, and whether length and block belong together. `malloc` may fail, and
of zero bytes returns NULL, as in ESP-IDF. `AverageScan` runs the same rounds with
`wifi_scan` or, as the call that is commented out beside it would, with
`wifi_scan2`; it keeps the records: which access points a scan hears, in which
slots of the list they land, and what the slots that were not written hold. The
loop runs to `ap_count`, and a record read beyond the list is any record
(`NextRecord`). A count that has come round to zero divides nothing: the processor
stops there.

`Display` splits a glyph into the two bus transactions of `i2c_display_image` and
the driver's copy. The display begins with the greeting of `init_display`. `MainStarts` is the announcement `start_mqtt_client` and
`start_websocket_client` make before they start their client (`up`); the second
one is drawn on the line of a handler that already runs.

## 3. What is checked

| Run | Question | Instance |
|---|---|---|
| `ws_session` | safety of the client over a restart; CLOSE frames are counted; events implement `WsSession` | 2 sessions, 2 application threads, 2 connections, `auto_reconnect`, all outcomes of the close poll |
| `ws_early` | when a client is freed, and what is left of the rest when it is started too early: the invariant of the proofs | 2 tasks, 1 application thread, 1 connection, no `auto_reconnect`, every call, "restart" and `destroy_on_exit` among them |
| `ws_live` | calls return, losses are retried, `start()` connects, a server's close ends the session, `destroy` frees | 1 session, 2 application threads, 2 connections, any outcome of every poll |
| `ws_keepalive` | silence is noticed, a live server is kept, attempts are apart and come; the invariant of the proofs | 3 configurations of the timers, 12 units of time, one frame waiting |
| `ws_send` | what the server gets is legal, calls tell the truth, threads run their own events, the error buffer is sound | 6 instances (below), buffer of 2 |
| `ws_config` | what is lost or freed twice; sessions use what was asked for | one client, 60 configurations, 5 URIs and one that does not parse, one header, any one allocation fails |
| `prov_boot` | what NVS holds and what the clients start with, any failure and lines of any length; loads end | 3 boots, writes and reads may fail |
| `scan_rounds` | copies fit, blocks are freed once, only texts of scans are sent; averages right while scans do not grow | list of 3, up to 5 access points, entries of 2 or 4; 2 scans of up to 4 access points in 2 strengths to an average, a count that wraps at 3 |
| `disp_lines` | damage stays on the lines drawn; the driver's copy is the text | 2 columns, a short and a long text for each handler, either transaction may be lost |

Why the bounds are enough for the interesting cases. Two sessions are the fewest
in which an old task meets a new one, and tasks are interchangeable (symmetry);
one sender beside `Ctl` makes every pair of threads that can meet (task and
controller, task and sender, controller and sender), and for the end of a client one
caller beside its task is enough; two connections let
something of the first be used on the second. Three boots are the fewest in
which a mixture stored by one boot is mixed again by the next and loaded by the
third. The time of `ws_keepalive` is enough for a PING, a PONG that does not come,
the end of the connection, a wait and a second attempt with every configuration;
one frame ahead of a PONG is enough to put it off. The instances of `ws_send` are
two locked senders over two connections, one of them with two messages of two fragments,
or each with one of one or two fragments; one partial sender with a message in several
parts, a failure and a second connection; a locked and a partial sender on one
connection, with messages of one fragment and one part; and errors of two lengths
reported by the task and two locked senders, or the task and a partial one. `ws_config` lets one allocation fail (`MaxFailures`), whichever it
is: a call ends at its first failure, and the configurations and URIs have every
combination of an option given in a URI, in a field, in both and in neither. A count that wraps at
three with two scans would wrap if a scan could count an access point twice, and does
once the records beyond the list are counted. A list
of three with five access points has room for scans that are empty,
partial, exact and too large. Two columns tell a cell from its neighbour, with a text
that leaves one blank and one that is cut.

Symmetry is used only where no liveness property is checked. Deadlock is
checked except where the system does stop: a destroyed client, a `stop()` that waits for
ever (below), a device that
runs or cannot restart (the bound on boots), a heap that aborts the program, a
division by zero, a panic, the end of the clock (`MaxTime`). `MaxBoots` and `MaxConn` cap
counters; at `MaxConn` further connects fail, which a server may always make them do.

### Fairness

`FairSpec` of `WsClient`: weak fairness for every thread's own steps (FreeRTOS
runs a ready thread; transport calls have timeouts). Strong fairness for taking
`lock`, which comes free again and again but not continuously: between two turns
the task is away from it in a poll or a delay, and a sender holds it for one
message. Strong fairness for `Reconnect`, an alternative of `KeepWaiting`: the
wait elapses. No fairness for `RecvPart`: a server need not go on sending a
message in parts. None for the application's calls, nor for the
server's CLOSE: every poll may have any outcome. `StopReturns`, `CloseReturns` and
`DestroyFrees` hold then but for one case, in which `start()` has cleared the
`STOPPED_BIT` of the task it created ("missed"; below). `CloseReturns` is about a
`close()` with a finite timeout (`CloseMayTimeOut`).

`FairSpec` of `Provisioning`: both threads run and NVS calls return; the user
need not type, the power need not fail.

### Where the code and what it says disagree

Three disagreements are runs that TLC must find violated:

- `ws_v_restart`: the task sets `STOPPED_BIT` before it writes `UNKNOW` for the
  last time. `stop()` returns, `start()` makes a new task, which writes `INIT`, and
  the old task overwrites that. The new task loops for ever without connecting.
- `loc_v_results`: `wifi_scan` loops to `ap_count`, all access points found, over
  an array that holds the first `DEFAULT_SCAN_LIST_SIZE`.
- `disp_v_location`: a glyph lands where the other handler has moved the cursor.

Others were met while modelling. They follow from the models but no run is kept
for them.

In the client, with what a property says all the same:

- A sender in `abort_connection()` has checked the state and closed the transport;
  `stop()` runs to its end and leaves `UNKNOW`; the sender writes `WAIT_TIMEOUT`, no
  task is left to change that and `start()` refuses. What is lost is stated as
  `StoppedCanStart`; neither `Inv` nor the refinement catches it, since both are
  about the time in which a task runs.
- `start()` lets a task be made while the old one has yet to close the transport:
  two tasks run at once, on one transport. `OneTask`, `ReadFresh`, `OneCloseEach` and
  the refinement of `WsSession` are about applications that do not do that ("early").
  `StoppedIsClosed` holds for every application.
- The task leaves its loop with `run` set when the server has not closed within a
  second (1041, "still waiting"). If it is through before `start()` clears the bits,
  the bit is gone, and `stop()`, `close()` and `destroy()` wait for ever ("missed").
- "if closing not initiated by the client echo the close message back" (1009): the bit
  is set after the frame has gone out, so that the client may echo the answer to its
  own frame. What is lost is stated as `EchoAnswersServer`; `OneCloseEach` is what holds: one
  frame of `close()` and one echo on a connection; two echoes only if `start()` cleared
  the bit between them ("forgotten"). `close()` sets the bit also when no frame went out.
- `destroy()` looks only at `run`, and frees a client whose task has not begun or not
  ended ("unstopped"); `FreedAfterLoop` says that nothing else frees a client under the
  loop of its only task. After `destroy_on_exit()` the task frees what a `stop()` or a
  sender is waiting on; that the waiters then use freed memory no property says, the
  model ends there.
- PINGs and the test for PONGs stop once a CLOSE frame is out, so that a `close()`
  without a timeout on a dead connection waits for a poll to fail.
- Partial sends take no lock, as the polls do not: they are outside
  `MutualExclusion`, and mix with whole messages and with each other; `WireIsLegal`
  and `Truthful` are about those that are undisturbed. Likewise `BufferIsSound` holds
  while no two threads report errors at once (`met`).
- `esp_websocket_client.h` documents -1 for an error; a send whose write timed out
  returns 0. `Truthful` holds of a caller who compares the result with the length.

In its configuration: `esp_websocket_client.h:95` says that the URI overrides the
other fields, while the code sets the fields after it (`UsesAsked` says nothing of an
option that is given in both); `set_uri()` is documented to
replace options, but leaves the credentials that were made of the old ones, and a
default port that was stored for another scheme (`UsesAsked` says for both what
a session uses instead);
a failed `asprintf` leaves a pointer to what was just freed, which `destroy()` frees
again (`UsesNoFreed`); `init()` that fails before it has its lock does not return
NULL but asserts (`PanicsForLock`); a host and a user's name are leaked
(`LosesLittle`).

Elsewhere: a line that fills its array is stored without its end, its rest is
stored as the next one, and loading it may run over the others (`filled`;
`StoredWhole` says that nothing else stores part of a line); a timeout in the middle
of a store loads a mixture (`LoadsPreviousOrNew` says which mixtures); the input task
may be deleted after it has deleted itself, or inside an NVS call, whose lock then
blocks the load (`LoadEnds` has the free lock as its premise and does not catch
that hang); two failed reads are passed over (`skipped`); `wifi_scan` leaves `nbuf` as
it was when it gets no memory (`SentIsScan`: the send refuses); `wifi_scan2` counts
stale records when a later scan finds more, and records behind the list when one finds
more than that takes, upon which a count may come round to zero and be divided by
(`grew`: nothing but the bounds of the block is claimed then); it returns as soon as
its table is full, its outputs unset: the block of the round before is sent and freed
once more (`full`, which exempts such rounds); the main thread draws on the MQTT
handler's line while that may draw too, and the line shows parts of both until the
next event (`mixed`). `CopyIsText` looks at the driver's copy, not at the panel, which
keeps what a lost transaction left; `DamageIsLocal` looks at the panel while none
is lost.

## 4. What is proved

TLAPS checks the following for every value of the constants, that is for any
number of sessions, senders, connections, fragments, access points, failing
allocations and boots, under the named assumptions on the constants only:

- `ThreadsAssumption`, `InstanceAssumption` (`WsClient`), `SendAssumption`,
  `BuffersAssumption` (`WsSend`, `WsEvents`): the threads are distinct, the sets and
  bounds have their types, the buffer is not empty.
- `TimersAssumption`: times are natural numbers, the defaults positive.
- `PointersAssumption`, `TextsAssumption`, `OptionsAssumption` (`WsConfig`): NULL and
  `Dangling` are no strings, numbers or texts; the literals of the module are strings,
  which the provers do not know; configurations and URIs have their types, and a URI
  has a password only after a user.
- `SizesAssumption` (`Localize`): an entry is at least a character and its NUL and fits
  `EntryLength`, and `Word` (2^16, what `nbuf` counts in) exceeds the entries of `MaxAps`
  access points, which is what a scan of `wifi_scan` finds at most (1023 for entries of
  64).
- `BoundsAssumption` (`AverageScan`): there are finitely many access points, with
  strengths in the range of a signed byte; the list is not empty, and `Word` exceeds a
  full list of entries; `MaxScans < OccWord`: the count of an entry can count the scans
  (20 and 256 in the code). How many access points a scan of `wifi_scan2` finds
  is not bounded.
- `BootsAssumption`, `FaultsAssumption` (`Provisioning`), `DisplayAssumption`.

In each proof module there is a lemma per part of the invariant and in it a step
per action.

### The client: `WsClientProofs`

`TypeOK`, `MutualExclusion`, `OneTask`, `StoppedIsClosed`, `ReadFresh`,
`OneCloseEach`, `FreedAfterLoop`, and `SessionImplemented`: every behaviour of `Spec`
implements `WsSession`, up to the first `start()` that is too early. They rest on
`InvHolds: Spec => []Inv`, for every set of calls, "restart" and `destroy_on_exit`
included. None of the properties is inductive alone; `Inv` (module `WsClientInv`) adds
the parts below. `LockInv`, `OpenInv`, `CallInv` and `FreeInv` hold always, `LifeInv`,
`FreshInv`, `EventInv` and `FrameInv` as long as the client is not started too early:

- `LockInv`: whoever relies on the lock owns it. Gives `MutualExclusion`.
- `OpenInv`: a connection is open only while some task has yet to close it; a new
  task's `start()` closes it, too. Gives `StoppedIsClosed`, however many tasks run.
- `LifeInv`: what `STOPPED_BIT` is worth. With the bit set no task lives,
  except between `start()` creating a task and clearing the bit of the last session,
  so the thread that has seen it may conclude that the task has ended. Gives
  `OneTask`.
- `FreshInv`: while the state is CONNECTED the last poll's result is zero or
  about the open connection; state CONNECTED and the place "connect" exclude each
  other. Gives `ReadFresh`.
- `EventInv`: which state and which last event go together, given where the
  threads are; in particular when nobody can report an error any more, so that
  nothing follows CLOSED. Gives, with the others, that every step of the client
  is a step of the session or leaves it unchanged.
- `CallInv` and `FrameInv`: which call the controlling thread is in, and how many CLOSE
  frames of each kind the open connection has seen. Only a `close()` that waits can
  have sent one of its own; and a connection with an echo has the bit set, which only
  `start()` clears, and that before the connection is made or with "forgotten"
  remembered. Gives `OneCloseEach`.
- `FreeInv`: `destroy()` and `destroy_on_exit()` exclude each other, and a `destroy()` that
  frees has waited for the end of every task, or has not seen `run`. Gives
  `FreedAfterLoop`.

### The timers: `WsKeepaliveProofs`

`SilenceIsNoticed`, `WaitIsBounded`, `AttemptsAreApart` and `LiveIsKept`, for any
intervals, timeouts, times of a step and frames waiting. None is inductive, because a
bound on how long something has lasted says nothing about when the task will come
round to it. `Inv` therefore bounds `due`, the end of the task's present step, at each
place of a turn: by the tick a wait began at (`Waits`), and by when something was last
heard, before and while a PONG is awaited (`Silence`); since `now <= due`, the
bounds on the ticks follow. `Places` says in which state the task is where, `Apart`
that a wait begins no earlier than the attempt before it.

For `LiveIsKept` the invariant follows the PONG: the answer comes in time (`Prompt`), no
more than `Backlog` frames are before it (`Queued`), and the PONG that is awaited is
either on its way or the k-th frame in the inbox, with time left to read k frames, a
round of the task for each (`Coming`). That time is a product of two constants, with
which the prover's arithmetic does nothing; the lemma `RoundsFacts` states what is
needed of it (a frame read is a round less).

### Messages and events: `WsSendProofs`

`RunsItsOwn`, `BufferIsSound`, `WireIsLegal` and `Truthful`, for any threads, messages,
sizes of fragments and connections. A thread is a sequence of steps, so that
`SendInv` first says in which order these stand (`Ordered`): a post is followed by its
run, an "unlock" ends the thread and stands there once. On this rest

- `Errors`: as long as no two threads report errors at once, every pointer to the error
  buffer points to an allocated one, and what is printed fits.
- `Locked`: exactly the owner of the lock has an "unlock" before it.
- `Whole` and `Alone`: the fragments the server has collected are those of the message
  being sent, end to end and up to `widx`, and the fragment in `tx_buffer` is the next
  (`Chain`, `Copied`); while only whole messages are sent, or one partial sender alone.
- `Arrivals`: what has arrived of a message is nothing while it is under way and all of it
  once its call has returned its length, which a call that failed never returns (a
  write that is cut off by the clock returns 0 only for a frame with data); numbers of messages are those that have begun, without
  which the next message might have arrived before it is sent.

`Whole` and `Alone` speak of an open connection: between the two steps of
`abort_connection()` the thread's own message is still begun, and the server's fragments
are worth nothing any more.

The proof attempt found the model wrong: a connection made while a partial sender is
in the middle of its message was counted as undisturbed, and there the rest of that
message, which the server cannot make sense of, goes out. `users` now counts
everybody as having sent on such a connection.

### Options: `WsConfigProofs`

`LosesLittle`, `UsesNoFreed`, `PanicsForLock` and `UsesAsked`, for any configurations
and URIs, any number of failing allocations and of headers. The calls were once folds
over lists of steps, about which nothing could be proved without induction over the
list; now each step is a step of the system, and so a failure falls between any two.
`Inv` has, besides the types,

- `Places`: which call may be where, and what it was given there.
- `Blocks`: a pointer dangles only where `asprintf` has failed, and the copy of a user
  exists only between its allocation and its free. Gives the first two.
- `Locks`: from the allocation after the lock's on there is a lock, and up to that one
  nothing else has failed. Gives `PanicsForLock`.
- `Latest`: as long as no allocation has failed, how much of a URI and of the fields has
  been set: what is set is the new option, or the old one where none was given; what is
  not is the old one (`UriSoFar`, `ConfigSoFar`). Between calls, the pointers are what
  was asked for (`Settled`). The port may be a default that a session has stored
  (`PortIs`). Gives `UsesAsked`: what is set is compared with what the application
  asked for (`want`), kept apart from how the code gets there.

Two of its parts were missing until the proof asked for them: a `set_uri()` that
fails without lack of memory (a URI that does not parse) leaves the options as
they were, and an `init()` that panics has no copy of a user.

### Scans: `ScanProofs`

`PackFits`, `FreedOnce`, `SentIsScan` and `AveragesReadings`, for lists of any size, any
access points, more than the list takes among them, any strengths, and up to as many
scans as a byte counts, in rounds of either scan. `CountsCorrect` says that as long as
no scan finds more than the one before it or than the list takes, an access point is
counted once per scan at most; so the byte does not come round to the zero it would be
divided by.
`ScanInv` follows the block through a round (`Blocks`); bounds the text by
the entries packed so far, which is why it fits the block and why its length is that
of the message (`Packing`); bounds the counts by the records seen (`Counts`); and, for
the averages, balances what the driver has delivered against what the table holds and
what still waits in the list (`Balanced`): a sum in the table is that of all readings
but the one waiting. `PackFits` and `AveragesReadings` are its consequences at the end
of a scan. The exceptions of the properties (`grew`, `full`) appear in these parts
and nowhere else.

### Display and boot: `DisplayProofs`, `ProvisioningProofs`

`CopyIsText` and `DamageIsLocal`, for lines of any width. The
invariant says what has been drawn of a text that is not through: the cells before
the one in progress hold it, those behind its end are blank (`Copies`); that no
cursor is off the lines of those who draw at once (`Cursors`); and that the panel
agrees with the copy except in that one cell and, during a clear, behind it
(`Shown`). `DisplayAssumption` has the one fact of the texts that is needed: none on
the MQTT handler's line is longer than what the main thread draws there without
clearing (15 characters, against 13); the greeting, on other lines, does not come into it.

`StoreOrder`, `StoredWhole`, `InTimeUsesInput`, `TimedOutUsesStored` with
`RunsConfigured`, and `LoadsPreviousOrNew`: whatever is not the line typed for its entry was
typed at a boot at which a line filled its array, so that no deletion, failure or loss
of power stores part of a line. The invariant says what the input task has typed where it is (`InputInv`), what main
may rely on (`MainInv`: in a load the input task is gone), that a store has brought
every entry it passed up to this boot and every entry is of this boot or was
there before it (`StoreInv`), and that a load has brought in every entry it passed
unless one was passed over (`LoadInv`).

### What stays with TLC

Every invariant and every action property of the passing runs is proved. The
inductive invariants were checked by TLC first: those of `WsClient` (`ws_early`), `WsKeepalive` and
`Provisioning` are invariants of their runs, the others were checked on the instances
of theirs or smaller ones.

Only model-checked: the liveness properties (`StopReturns`, `CloseReturns`,
`LossIsRetried`, `StartConnects`, `ServerCloseEnds`, `DestroyFrees`, `LoadEnds`), since
temporal reasoning under fairness is beyond the prover, and the three
disagreements, which are counterexamples. `Localize` alone, whose invariant is one of
these, has no theorems; its actions are part of those about `AverageScan`.

## 5. Not modelled

- The contents of received frames, and so the six characters of a location, the
  missing NUL behind it, and what `publish()` sends of the buffer; handlers that
  send; writes the transport cuts short (it writes a frame whole or fails);
  buffers that are allocated anew for each message, an option that is off.
- `set_headers`, which passes one call on to the transport of a connected client,
  under the lock, and does not touch the options; certificates, keys
  and flags, which are copied and never owned.
- Wi-Fi association, which is not the program's code but an example component's,
  and failed `ESP_ERROR_CHECK`s, which reboot.
- The MQTT client, a library: `publish`, `subscribe` and `unsubscribe` pass one call
  on to it and log the result.
- Bitmaps, scrolling, fading, contrast of the display; the SPI driver; the font:
  not used by the device or without state.
- `src/digital-maps`, `src/server-on-device`: no code.

## 6. Plan

What is left, in this order:

1. A composition `Node`: `Localize` on top of `WsSession`, the server's answer in
   `rx_buffer`, drawn and published, and the tracking node at the other end of
   MQTT; property: what a tracking node shows begins with a location the server
   gave, whatever frames were received in between.
2. Proofs: those of what 1 adds, the abstract session under `Node` among them;
   a refinement of `WsSend` to a channel that delivers whole messages in order.
3. The display driver's drawing routines that the program does not call, as pure
   functions against a reference (`ssd1306_rotate_byte`, flips, the tripled text).
