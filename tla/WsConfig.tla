------------------------------- MODULE WsConfig -------------------------------
(***************************************************************************)
(* How a WebSocket client gets its options and keeps them, from init() to  *)
(* destroy(): esp_websocket_client_init(), set_uri(), append_header(),     *)
(* start() and destroy().  Clients share nothing: one is modelled.  A      *)
(* call goes through its steps on the pointers the client owns, one at a   *)
(* time; any allocation may fail, upon which the call ends where it is.    *)
(* Strings are abstracted to what they say.  Calls do not overlap, and     *)
(* options are changed on a stopped client, as the documentation asks.     *)
(***************************************************************************)
EXTENDS Integers, FiniteSets, Sequences

CONSTANTS
    NULL,
    Dangling,     \* a pointer to a block that has been freed
    Configs,      \* what init() may be given
    Uris,         \* what set_uri() may be given
    MaxHeaders,   \* bound: headers of a client
    MaxFailures   \* bound: allocations that fail

Maybe(S) == S \cup {NULL}

ASSUME PointersAssumption ==
    /\ NULL # Dangling
    /\ \A p \in {NULL, Dangling} : p \notin STRING /\ p \notin Nat /\ p \notin Seq(STRING)

\* Literals are strings, which the provers do not know.
ASSUME TextsAssumption ==
    {"it", "uri", "s", "a", "h", "x", "ws", "wss", "user:password"} \subseteq STRING

\* A URI has a password only after a user name, which may be empty.
ASSUME OptionsAssumption ==
    /\ Uris \subseteq
          [valid : BOOLEAN, scheme : Maybe(STRING), host : Maybe(STRING),
           path : Maybe(STRING), port : Maybe(Nat), username : Maybe(STRING),
           password : Maybe(STRING)]
    /\ NULL \notin Uris
    /\ \A u \in Uris : u.password # NULL => u.username # NULL
    /\ Configs \subseteq
          [uri : Maybe(Uris), host : Maybe(STRING), port : Maybe(Nat),
           username : Maybe(STRING), password : Maybe(STRING), path : Maybe(STRING),
           transport : Maybe({"ws", "wss"}), extras : BOOLEAN]
    /\ MaxHeaders \in Nat /\ MaxFailures \in Nat

Strings   == {"scheme", "host", "path", "username", "password", "auth", "uri",
              "subprotocol", "user_agent", "headers"}
Resources == {"client", "event_handle", "if_name", "lock", "config", "rx_buffer",
              "tx_buffer", "status_bits", "transport_list"}
Owned     == Strings \cup Resources \cup {"user_info"}   \* the last in set_uri() only

VARIABLES
    phase,       \* no client yet, one that is stopped or runs, none any more, a
                 \* panic, or the call under way: "init" or "set_uri"
    pc,          \* where this is
    given, uri,  \* what it was given
    ptr,         \* what the client's pointers point to
    port,        \* config->port, NULL for 0
    used,        \* what the last session connected with
    \* history
    lost,        \* blocks that nothing points to any more, and the call's name
    misused,     \* a dangling pointer has been freed or followed
    failed,      \* allocations that have failed
    want,        \* what the application asked for last
    twice,       \* options that init() was given in the URI and in a field
    told,        \* the credentials init() was given
    first        \* the scheme of the first session

memory == <<lost, misused, failed>>
asked  == <<want, twice, told>>
vars   == <<phase, pc, given, uri, ptr, port, used, memory, asked, first>>

Empty   == [f \in Owned |-> NULL]
Options == [scheme |-> NULL, host |-> NULL, path |-> NULL, username |-> NULL,
            password |-> NULL, port |-> NULL, headers |-> <<>>]
Session == [scheme |-> NULL, host |-> NULL, path |-> NULL, auth |-> NULL, port |-> NULL,
            headers |-> <<>>]

Init ==
    /\ phase = "none" /\ pc = "idle" /\ given = NULL /\ uri = NULL
    /\ ptr = Empty /\ port = NULL /\ used = Session
    /\ lost = {} /\ misused = FALSE /\ failed = {}
    /\ want = Options /\ twice = {} /\ told = NULL /\ first = NULL

-----------------------------------------------------------------------------
(* What the steps do with a pointer f of the client; they go on at m.      *)

MayFail == Cardinality(failed) < MaxFailures

\* The block f points to stays allocated.
Leak(f) ==
    /\ lost' = IF ptr[f] \in {NULL, Dangling} THEN lost ELSE lost \cup {<<phase, f>>}
    /\ UNCHANGED misused

\* free()
Free(f) ==
    /\ misused' = (misused \/ ptr[f] = Dangling)
    /\ UNCHANGED lost

Allocated(f, v, m) ==
    /\ ptr' = [ptr EXCEPT ![f] = v]
    /\ pc' = m
    /\ UNCHANGED failed

\* Slip: the pointer to the freed block stays when there is no new one.
AllocOrKeep(f, v, m) ==
    \/ Allocated(f, v, m)
    \/ /\ MayFail
       /\ ptr' = [ptr EXCEPT ![f] = IF @ = NULL THEN NULL ELSE Dangling]
       /\ pc' = "fail"
       /\ failed' = failed \cup {f}

\* ESP_WS_CLIENT_MEM_CHECK: the pointer is the new block, or NULL and the call ends.
Alloc(f, v, m) ==
    \/ Allocated(f, v, m)
    \/ /\ MayFail
       /\ ptr' = [ptr EXCEPT ![f] = NULL]
       /\ pc' = "fail"
       /\ failed' = failed \cup {f}

\* asprintf() leaves the pointer alone when it fails, so that the check of the
\* pointer passes: the freed block is taken for the new one.
Asprint(f, v, m) ==
    \/ Allocated(f, v, m)
    \/ /\ MayFail
       /\ ptr' = [ptr EXCEPT ![f] = IF @ = NULL THEN NULL ELSE Dangling]
       /\ pc' = IF ptr[f] = NULL THEN "fail" ELSE m
       /\ failed' = failed \cup {f}

Skip(m) == pc' = m /\ UNCHANGED <<ptr, memory>>

\* Where there is a value: free() the old and strdup() or asprintf(), or strdup()
\* without looking at the old.
Set(f, v, m)    == IF v = NULL THEN Skip(m) ELSE Free(f) /\ Alloc(f, v, m)
Format(f, v, m) == IF v = NULL THEN Skip(m) ELSE Free(f) /\ Asprint(f, v, m)
Add(f, v, m)    == IF v = NULL THEN Skip(m) ELSE Leak(f) /\ Alloc(f, v, m)

\* http_auth_basic(), for a username and a password
SetAuth(m) ==
    IF NULL \in {ptr["username"], ptr["password"]} THEN Skip(m)
    ELSE Free("auth") /\ Alloc("auth", <<ptr["username"], ptr["password"]>>, m)

\* The value, or another where there is none.
Or(v, w) == IF v = NULL THEN w ELSE v

-----------------------------------------------------------------------------
(* The steps of the calls.                                                 *)

\* Slip: the URI's port does not replace another.
PortOfFirst(u) == Or(port, u.port)

\* The port after a URI is set
PortOf(u) == Or(u.port, port)

\* esp_websocket_client_set_uri(): what the URI has replaces what there is.
UriStep ==
    /\ UNCHANGED <<phase, given, uri, used, asked, first>>
    /\ port' = IF pc = "uri_port" THEN PortOf(uri) ELSE port
    /\ \/ pc = "parse" /\ Skip(IF uri.valid THEN "uri_scheme" ELSE "fail")
       \/ pc = "uri_scheme" /\ Format("scheme", uri.scheme, "uri_host")
       \/ pc = "uri_host" /\ Format("host", uri.host, "uri_path")
       \/ pc = "uri_path" /\ Format("path", uri.path, "uri_port")
       \/ pc = "uri_port" /\ Skip(IF uri.username # NULL THEN "user_info" ELSE "uri_set")
       \/ pc = "user_info" /\ Format("user_info", "user:password", "uri_password")
       \/ pc = "uri_password" /\ Set("password", uri.password, "uri_username")
       \/ pc = "uri_username" /\ Set("username", uri.username, "free_info")
       \/ /\ pc = "free_info"
          /\ Free("user_info")
          /\ ptr' = [ptr EXCEPT !["user_info"] = NULL]
          /\ pc' = "uri_set"
          /\ UNCHANGED failed

\* esp_websocket_client_set_config()
ConfigStep ==
    /\ UNCHANGED <<phase, given, uri, used, asked, first>>
    /\ port' = IF pc = "port" THEN Or(given.port, port) ELSE port
    /\ \/ pc = "host" /\ Add("host", given.host, "port")
       \/ pc = "port" /\ Skip("username")
       \/ pc = "username" /\ Set("username", given.username, "password")
       \/ pc = "password" /\ Set("password", given.password, "auth")
       \/ pc = "auth" /\ SetAuth("uri")
       \/ pc = "uri" /\ Set("uri", IF given.uri = NULL THEN NULL ELSE "uri", "path")
       \/ pc = "path" /\ Set("path", given.path, IF given.extras THEN "subprotocol"
                                                 ELSE "default_scheme")
       \/ pc = "subprotocol" /\ Set("subprotocol", "s", "user_agent")
       \/ pc = "user_agent" /\ Set("user_agent", "a", "headers")
       \/ pc = "headers" /\ Set("headers", <<"h">>, "default_scheme")

\* esp_websocket_client_init(), which calls these two.
InitStep ==
    /\ phase = "init"
    /\ UNCHANGED <<phase, given, uri, port, used, asked, first>>
    /\ \/ pc = "client" /\ Set("client", "it", "event_handle")
       \/ pc = "event_handle" /\ Set("event_handle", "it", IF given.extras THEN "if_name"
                                                           ELSE "lock")
       \/ pc = "if_name" /\ Set("if_name", "it", "lock")
       \/ pc = "lock" /\ Set("lock", "it", "config")
       \/ pc = "config" /\ Set("config", "it", "transport")
       \/ pc = "transport" /\ Format("scheme", given.transport,
                                     IF uri = NULL THEN "host" ELSE "parse")
       \/ pc = "uri_set" /\ Skip("host")
       \/ /\ pc = "default_scheme"
          /\ IF ptr["scheme"] = NULL THEN Format("scheme", "ws", "rx_buffer")
             ELSE Skip("rx_buffer")
       \/ pc = "rx_buffer" /\ Set("rx_buffer", "it", "tx_buffer")
       \/ pc = "tx_buffer" /\ Set("tx_buffer", "it", "status_bits")
       \/ pc = "status_bits" /\ Set("status_bits", "it", "done")

-----------------------------------------------------------------------------
(* The calls.                                                              *)

\* A client authenticates itself if it has both.
Credentials(name, password) == IF NULL \in {name, password} THEN NULL ELSE <<name, password>>

\* What an application that makes a client asks for.  Of an option that is in the
\* URI and in a field the code takes the field, and esp_websocket_client.h the URI:
\* which one is meant does not matter to the property below.
Asked(c) ==
    LET u == IF c.uri = NULL THEN Options ELSE c.uri
    IN  [scheme |-> Or(u.scheme, Or(c.transport, "ws")), host |-> Or(c.host, u.host),
         path |-> Or(c.path, u.path), port |-> Or(c.port, u.port),
         username |-> Or(c.username, u.username), password |-> Or(c.password, u.password),
         headers |-> IF c.extras THEN <<"h">> ELSE <<>>]

Twice(c) ==
    LET In(f) == c.uri # NULL /\ NULL \notin {c[f], c.uri[f]}
    IN  {f \in {"host", "path", "port"} : In(f)}
            \cup {f \in {"auth"} : In("username") \/ In("password")}

\* The call is over, and the client in phase p.
Return(p) == phase' = p /\ pc' = "idle" /\ given' = NULL /\ uri' = NULL

\* destroy_and_free_resources()
Destroyed ==
    /\ ptr' = Empty /\ port' = NULL
    /\ misused' = (misused \/ \E f \in Owned : ptr[f] = Dangling)
    /\ UNCHANGED failed

InitCall ==
    /\ phase = "none"
    /\ phase' = "init" /\ pc' = "client"
    /\ \E c \in Configs : given' = c /\ uri' = c.uri
    /\ UNCHANGED <<ptr, port, used, memory, asked, first>>

InitOk ==
    /\ phase = "init" /\ pc = "done"
    /\ Return("stopped")
    /\ want' = Asked(given)
    /\ twice' = Twice(given)
    /\ told' = Credentials(want'.username, want'.password)
    /\ UNCHANGED <<ptr, port, used, memory, first>>

\* Slip: without its event loop the client is destroyed, though it has no lock yet.
DestroyableEarly == ptr["client"] = NULL \/ ptr["lock"] # NULL

\* The client itself or its event loop cannot be made: there is nothing else yet.
\* Else the lock is deleted.
Destroyable == NULL \in {ptr["client"], ptr["event_handle"]} \/ ptr["lock"] # NULL

\* A local block of set_uri() is lost.
InitFailed ==
    /\ phase = "init" /\ pc = "fail"
    /\ Destroyable
    /\ Return("gone")
    /\ lost' = IF ptr["user_info"] = NULL THEN lost ELSE lost \cup {<<phase, "user_info">>}
    /\ Destroyed
    /\ UNCHANGED <<used, asked, first>>

\* vQueueDelete(NULL) asserts.
InitPanics ==
    /\ phase = "init" /\ pc = "fail"
    /\ ~Destroyable
    /\ Return("panic")
    /\ UNCHANGED <<ptr, port, used, memory, asked, first>>

UriCall ==
    /\ phase = "stopped"
    /\ phase' = "set_uri" /\ pc' = "parse"
    /\ \E u \in Uris : uri' = u
    /\ UNCHANGED <<given, ptr, port, used, memory, asked, first>>

UriOk ==
    /\ phase = "set_uri" /\ pc = "uri_set"
    /\ Return("stopped")
    /\ want' = [f \in DOMAIN want |-> IF f = "headers" THEN want[f] ELSE Or(uri[f], want[f])]
    /\ twice' = {f \in twice : f = "auth" \/ uri[f] = NULL}
    /\ UNCHANGED <<ptr, port, used, memory, told, first>>

UriFailed ==
    /\ phase = "set_uri" /\ pc = "fail"
    /\ Return("stopped")
    /\ Leak("user_info")
    /\ ptr' = [ptr EXCEPT !["user_info"] = NULL]
    /\ UNCHANGED <<port, used, failed, asked, first>>

\* esp_websocket_client_append_header(): a header goes after the others.
AppendHeader ==
    /\ phase = "stopped" /\ Len(want.headers) < MaxHeaders
    /\ Free("headers")
    /\ ptr' = [ptr EXCEPT !["headers"] = IF @ = NULL THEN <<"x">> ELSE Append(@, "x")]
    /\ want' = [want EXCEPT !.headers = Append(@, "x")]
    /\ UNCHANGED <<phase, pc, given, uri, port, used, failed, twice, told, first>>

\* Without memory they stay as they are.
AppendFailed ==
    /\ phase = "stopped" /\ MayFail
    /\ failed' = failed \cup {"headers"}
    /\ UNCHANGED <<phase, pc, given, uri, ptr, port, used, lost, misused, asked, first>>

DefaultPort(scheme) == IF scheme = "wss" THEN 443 ELSE 80

\* esp_websocket_client_create_transport(): the list of transports is made anew,
\* and what is copied to its transport is followed.
Follow(followed) ==
    /\ misused' = (misused \/ \E f \in followed \cup {"transport_list"} : ptr[f] = Dangling)
    /\ UNCHANGED lost

\* The task takes the default port.
StartOk ==
    /\ phase = "stopped"
    /\ ptr["scheme"] \in {"ws", "wss", Dangling}
    /\ Follow(Strings)
    /\ ptr' = [ptr EXCEPT !["transport_list"] = "it"]
    /\ port' = Or(port, DefaultPort(ptr["scheme"]))
    /\ used' = [scheme |-> ptr["scheme"], host |-> ptr["host"], path |-> ptr["path"],
                auth |-> ptr["auth"], port |-> port', headers |-> Or(ptr["headers"], <<>>)]
    /\ first' = Or(first, ptr["scheme"])
    /\ phase' = "running"
    /\ UNCHANGED <<pc, given, uri, failed, asked>>

\* No memory for the transports or the task, or no transport of that name.
StartFailed ==
    /\ phase = "stopped"
    /\ \E followed \in {{"scheme"}, Strings} : Follow(followed)
    /\ \/ ptr' = [ptr EXCEPT !["transport_list"] = "it"] /\ UNCHANGED failed
       \/ /\ MayFail
          /\ ptr' = [ptr EXCEPT !["transport_list"] = NULL]
          /\ failed' = failed \cup {"transport_list"}
    /\ UNCHANGED <<phase, pc, given, uri, port, used, asked, first>>

\* esp_websocket_client_stop(), or the session ends
Stop ==
    /\ phase = "running"
    /\ phase' = "stopped"
    /\ UNCHANGED <<pc, given, uri, ptr, port, used, memory, asked, first>>

\* esp_websocket_client_destroy()
Destroy ==
    /\ phase \in {"stopped", "running"}
    /\ phase' = "gone"
    /\ Destroyed
    /\ UNCHANGED <<pc, given, uri, used, lost, asked, first>>

Next ==
    \/ InitCall \/ InitStep \/ ConfigStep \/ UriStep \/ InitOk \/ InitFailed \/ InitPanics
    \/ UriCall \/ UriOk \/ UriFailed \/ AppendHeader \/ AppendFailed
    \/ StartOk \/ StartFailed \/ Stop \/ Destroy

Spec == Init /\ [][Next]_vars

-----------------------------------------------------------------------------
\* Nothing is lost, whichever allocation fails and however often options are
\* replaced, but the host of a URI that a field of the configuration replaces,
\* and set_uri()'s copy of the user when there is no memory for its parts.
LosesLittle ==
    lost \subseteq {<<"init", "host">>, <<"init", "user_info">>, <<"set_uri", "user_info">>}

\* No block is freed twice or used when it is gone, unless one that is printed
\* could not be allocated: a failed strdup() or malloc() never leads there.
UsesNoFreed == misused => failed \cap {"scheme", "host", "path"} # {}

\* init() that fails returns, but for a failure before it has its lock.
PanicsForLock == phase = "panic" => failed \subseteq {"if_name", "lock"}

\* As long as memory lasts a session connects with the scheme, host, path, headers
\* and port that were asked for last, in whatever order the calls come; nothing is
\* said of an option that init() was given twice, until a later URI has it.  A port
\* that no one has given is the default of the first session's scheme, which a URI
\* with another scheme does not change, and the credentials are those of init(),
\* whatever users a later URI names.
UsesAsked ==
    phase = "running" /\ failed = {} =>
        /\ \A f \in {"scheme", "host", "path", "headers"} \ twice : used[f] = want[f]
        /\ "port" \notin twice => used.port = Or(want.port, DefaultPort(first))
        /\ "auth" \notin twice => used.auth = told
=============================================================================
