---------------------------- MODULE WsConfigProofs ---------------------------
(***************************************************************************)
(* What WsConfig says of a client's blocks, of a call that fails and of    *)
(* the options a session connects with holds for any configurations and    *)
(* URIs, any number of allocations that fail and any number of headers.    *)
(***************************************************************************)
EXTENDS WsConfig, TLAPS

UriLabels    == {"parse", "uri_scheme", "uri_host", "uri_path", "uri_port", "user_info",
                 "uri_password", "uri_username", "free_info", "uri_set"}
ConfigLabels == {"host", "port", "username", "password", "auth", "uri", "path",
                 "subprotocol", "user_agent", "headers"}
FirstLabels  == {"client", "event_handle", "if_name", "lock", "config", "transport"}
LastLabels   == {"default_scheme", "rx_buffer", "tx_buffer", "status_bits", "done"}
Pointers     == STRING \cup {NULL, Dangling}

Wanted == [scheme : Maybe(STRING), host : Maybe(STRING), path : Maybe(STRING),
           username : Maybe(STRING), password : Maybe(STRING), port : Maybe(Nat),
           headers : Seq(STRING)]
Sessions == [scheme : Pointers, host : Pointers, path : Pointers,
             auth : Maybe(Seq(STRING)), port : Maybe(Nat), headers : Seq(STRING)]

PtrTypes ==
    /\ DOMAIN ptr = Owned
    /\ \A f \in Owned \ {"auth", "headers"} : ptr[f] \in Pointers
    /\ ptr["auth"] \in Maybe(Seq(STRING)) /\ ptr["headers"] \in Maybe(Seq(STRING))

TypeOK ==
    /\ phase \in {"none", "init", "stopped", "set_uri", "running", "gone", "panic"}
    /\ pc \in UriLabels \cup ConfigLabels \cup FirstLabels \cup LastLabels \cup {"fail", "idle"}
    /\ given \in Maybe(Configs) /\ uri \in Maybe(Uris)
    /\ PtrTypes
    /\ port \in Maybe(Nat)
    /\ used \in Sessions
    /\ want \in Wanted

\* Which call is where.
Places ==
    /\ phase \notin {"init", "set_uri"} => pc = "idle"
    /\ phase = "set_uri" => pc \in UriLabels \cup {"fail"} /\ uri \in Uris
    /\ phase = "init" => pc # "idle" /\ given \in Configs /\ uri = given.uri
    /\ pc \in UriLabels => uri \in Uris
    /\ pc \in {"user_info", "uri_password", "uri_username", "free_info"} => uri.username # NULL
    /\ pc \in {"subprotocol", "user_agent", "headers"} => given.extras

\* A pointer dangles only where asprintf() has failed, and set_uri() has a copy of
\* the user only while it takes it apart.
Blocks ==
    /\ \A f \in Owned : ptr[f] = Dangling => f \in failed \cap {"scheme", "host", "path"}
    /\ ptr["user_info"] # NULL => pc \in {"uri_password", "uri_username", "free_info", "fail"}
    /\ UsesNoFreed
    /\ LosesLittle

\* There is a lock as soon as something else may fail.
Early == {"client", "event_handle", "if_name", "lock"}

Locks ==
    /\ phase = "none" \/ pc \in Early => failed = {}
    /\ phase = "init" /\ pc \notin Early \cup {"fail"} => ptr["lock"] # NULL
    /\ pc = "fail" /\ ~Destroyable /\ phase = "init"
          => failed \subseteq {"if_name", "lock"} /\ ptr["user_info"] = NULL
    /\ PanicsForLock

\* The port is p, or the default that the first session took when there was none.
PortIs(p) == port = IF p = NULL /\ first # NULL THEN DefaultPort(first) ELSE p

\* The options a URI is set over.
Previous == IF phase = "init" THEN [Options EXCEPT !.scheme = given.transport] ELSE want

\* The options the fields of a configuration are set over.
OfUri == IF uri = NULL THEN Options ELSE uri

\* How far a URI has been set, ...
UriSoFar ==
    pc \in UriLabels =>
        LET Now(f, labels) == Or(IF pc \in labels THEN NULL ELSE uri[f], Previous[f])
            b1 == {"parse", "uri_scheme"}
            b2 == b1 \cup {"uri_host"}
            b3 == b2 \cup {"uri_path"}
            b4 == b3 \cup {"uri_port"}
            b5 == b4 \cup {"user_info", "uri_password"}
        IN  /\ ptr["scheme"] = Now("scheme", b1)
            /\ ptr["host"] = Now("host", b2)
            /\ ptr["path"] = Now("path", b3)
            /\ PortIs(Now("port", b4))
            /\ ptr["password"] = Now("password", b5)
            /\ ptr["username"] = Now("username", b5 \cup {"uri_username"})
            /\ Or(ptr["headers"], <<>>) = Previous.headers

\* ... and the fields of a configuration.
ConfigSoFar ==
    pc \in ConfigLabels \cup LastLabels =>
        LET Now(f, labels) == IF pc \in labels THEN OfUri[f] ELSE Asked(given)[f]
            b1 == {"host"}
            b2 == b1 \cup {"port"}
            b3 == b2 \cup {"username"}
            b4 == b3 \cup {"password"}
            b5 == b4 \cup {"auth"}
        IN  /\ ptr["scheme"] = IF pc \in ConfigLabels \cup {"default_scheme"}
                               THEN Or(OfUri.scheme, given.transport)
                               ELSE Asked(given).scheme
            /\ ptr["host"] = Now("host", b1)
            /\ PortIs(Now("port", b2))
            /\ ptr["username"] = Now("username", b3)
            /\ ptr["password"] = Now("password", b4)
            /\ ptr["auth"] = IF pc \in b5 THEN NULL
                             ELSE Credentials(Asked(given).username, Asked(given).password)
            /\ ptr["path"] = Now("path", b5 \cup {"uri", "path"})
            /\ Or(ptr["headers"], <<>>) = IF pc \in ConfigLabels THEN <<>>
                                          ELSE Asked(given).headers

\* No call has a part of its work done: set_uri() fails before it or for want of memory.
Settled == phase \in {"stopped", "running"} \/ (phase = "set_uri" /\ pc = "fail")

\* As long as memory lasts, the client has what was asked for.
Latest ==
    /\ phase \in {"none", "init"} => used = Session /\ first = NULL
    /\ failed = {} =>
        /\ phase = "none" => ptr = Empty /\ port = NULL
        /\ pc \in FirstLabels =>
              port = NULL /\ \A f \in Strings : ptr[f] = NULL
        /\ phase = "init" /\ pc \in UriLabels => ptr["auth"] = NULL
        /\ Settled =>
              /\ \A f \in {"scheme", "host", "path", "username", "password"} :
                    ptr[f] = want[f]
              /\ Or(ptr["headers"], <<>>) = want.headers
              /\ PortIs(want.port)
        /\ phase \in {"stopped", "running", "set_uri"} => ptr["auth"] = told
        /\ UriSoFar
        /\ ConfigSoFar
    /\ UsesAsked

Inv == TypeOK /\ Places /\ Blocks /\ Locks /\ Latest

-----------------------------------------------------------------------------
(* What a step does with a pointer f: it gets the value v, if there is one,*)
(* and the call goes on at m, or there is no memory.                       *)

Gets(f, v, m) == pc' = m /\ ptr'[f] = Or(v, ptr[f]) /\ failed' = failed
Misses(f)     == pc' = "fail" /\ ptr'[f] = NULL /\ failed' = failed \cup {f}
Dangles(f, m) == pc' = m /\ ptr'[f] = Dangling /\ ptr[f] # NULL /\ failed' = failed \cup {f}

Only(f)  == DOMAIN ptr' = Owned /\ \A g \in Owned \ {f} : ptr'[g] = ptr[g]
Frees(f) == lost' = lost /\ (misused' => misused \/ ptr[f] = Dangling)
Leaks(f) == misused' = misused /\ lost' \subseteq lost \cup {<<phase, f>>}

LEMMA SetDoes ==
    ASSUME DOMAIN ptr = Owned, NEW f \in Owned, NEW v, NEW m, Set(f, v, m)
    PROVE  Only(f) /\ Frees(f) /\ (Gets(f, v, m) \/ Misses(f))
<1>1. CASE v = NULL
    BY <1>1, Zenon DEF Set, Skip, memory, Only, Frees, Gets, Or
<1>2. CASE v # NULL
    <2>1. Free(f) /\ Alloc(f, v, m)
        BY <1>2 DEF Set
    <2>2. Frees(f)
        BY <2>1, Zenon DEF Free, Frees
    <2>3. Only(f) /\ (Gets(f, v, m) \/ Misses(f))
        BY <2>1, <1>2 DEF Alloc, Allocated, Only, Gets, Misses, Or
    <2> QED
        BY <2>2, <2>3
<1> QED
    BY <1>1, <1>2

LEMMA FormatDoes ==
    ASSUME DOMAIN ptr = Owned, NEW f \in Owned, NEW v, NEW m, Format(f, v, m)
    PROVE  Only(f) /\ Frees(f) /\ (Gets(f, v, m) \/ Misses(f) \/ Dangles(f, m))
<1>1. CASE v = NULL
    BY <1>1, Zenon DEF Format, Skip, memory, Only, Frees, Gets, Or
<1>2. CASE v # NULL
    <2>1. Free(f) /\ Asprint(f, v, m)
        BY <1>2 DEF Format
    <2>2. Frees(f)
        BY <2>1, Zenon DEF Free, Frees
    <2>3. Only(f) /\ (Gets(f, v, m) \/ Misses(f) \/ Dangles(f, m))
        BY <2>1, <1>2 DEF Asprint, Allocated, Only, Gets, Misses, Dangles, Or
    <2> QED
        BY <2>2, <2>3
<1> QED
    BY <1>1, <1>2

LEMMA AddDoes ==
    ASSUME DOMAIN ptr = Owned, NEW f \in Owned, NEW v, NEW m, Add(f, v, m)
    PROVE  Only(f) /\ Leaks(f) /\ (Gets(f, v, m) \/ Misses(f))
<1>1. CASE v = NULL
    BY <1>1 DEF Add, Skip, memory, Only, Gets, Or, Leaks
<1>2. CASE v # NULL
    <2>1. Leak(f) /\ Alloc(f, v, m)
        BY <1>2 DEF Add
    <2>2. Leaks(f)
        BY <2>1 DEF Leak, Leaks
    <2>3. Only(f) /\ (Gets(f, v, m) \/ Misses(f))
        BY <2>1, <1>2 DEF Alloc, Allocated, Only, Gets, Misses, Or
    <2> QED
        BY <2>2, <2>3
<1> QED
    BY <1>1, <1>2

LEMMA SkipDoes ==
    ASSUME NEW m, Skip(m)
    PROVE  pc' = m /\ ptr' = ptr /\ failed' = failed /\ lost' = lost /\ misused' = misused
BY DEF Skip, memory

LEMMA SetAuthDoes ==
    ASSUME DOMAIN ptr = Owned, NEW m, SetAuth(m)
    PROVE  /\ Only("auth") /\ Frees("auth")
           /\ \/ Misses("auth")
              \/ /\ pc' = m /\ failed' = failed
                 /\ ptr'["auth"] = IF NULL \in {ptr["username"], ptr["password"]}
                                   THEN ptr["auth"]
                                   ELSE <<ptr["username"], ptr["password"]>>
<1>1. CASE NULL \in {ptr["username"], ptr["password"]}
    BY <1>1 DEF SetAuth, Skip, memory, Only, Frees
<1>2. CASE NULL \notin {ptr["username"], ptr["password"]}
    <2> DEFINE v == <<ptr["username"], ptr["password"]>>
    <2>1. Free("auth") /\ Alloc("auth", v, m)
        BY <1>2 DEF SetAuth
    <2> HIDE DEF v
    <2>2. Frees("auth")
        BY <2>1, Zenon DEF Free, Frees
    <2>3. /\ Only("auth")
          /\ Misses("auth") \/ (pc' = m /\ failed' = failed /\ ptr'["auth"] = v)
        BY <2>1 DEF Alloc, Allocated, Only, Misses, Owned, Strings
    <2> QED
        BY <1>2, <2>2, <2>3 DEF v
<1> QED
    BY <1>1, <1>2

-----------------------------------------------------------------------------
(* Where the calls are, and the types.                                     *)

LEMMA UriIs ==
    ASSUME NEW u \in Uris
    PROVE  /\ u.valid \in BOOLEAN /\ u.scheme \in Maybe(STRING) /\ u.host \in Maybe(STRING)
           /\ u.path \in Maybe(STRING) /\ u.port \in Maybe(Nat)
           /\ u.username \in Maybe(STRING) /\ u.password \in Maybe(STRING)
           /\ u.password # NULL => u.username # NULL
           /\ u # NULL
<1>1. u \in [valid : BOOLEAN, scheme : Maybe(STRING), host : Maybe(STRING),
             path : Maybe(STRING), port : Maybe(Nat), username : Maybe(STRING),
             password : Maybe(STRING)]
    BY OptionsAssumption
<1> QED
    BY <1>1, OptionsAssumption

LEMMA ConfigIs ==
    ASSUME NEW c \in Configs
    PROVE  /\ c.uri \in Maybe(Uris) /\ c.host \in Maybe(STRING) /\ c.port \in Maybe(Nat)
           /\ c.username \in Maybe(STRING) /\ c.password \in Maybe(STRING)
           /\ c.path \in Maybe(STRING) /\ c.transport \in Maybe({"ws", "wss"})
           /\ c.extras \in BOOLEAN
<1>1. c \in [uri : Maybe(Uris), host : Maybe(STRING), port : Maybe(Nat),
             username : Maybe(STRING), password : Maybe(STRING), path : Maybe(STRING),
             transport : Maybe({"ws", "wss"}), extras : BOOLEAN]
    BY OptionsAssumption
<1> QED
    BY <1>1

LEMMA OnlyTypes ==
    ASSUME PtrTypes, NEW f \in Owned, Only(f),
           f \notin {"auth", "headers"} => ptr'[f] \in Pointers,
           f \in {"auth", "headers"} => ptr'[f] \in Maybe(Seq(STRING))
    PROVE  PtrTypes'
<1>1. {"auth", "headers"} \subseteq Owned
    BY DEF Owned, Strings
<1> QED
    BY <1>1 DEF PtrTypes, Only

\* A string goes where strings are.
LEMMA StringTypes ==
    ASSUME PtrTypes, NEW f \in Owned \ {"auth", "headers"}, NEW v \in Maybe(STRING), NEW m,
           Only(f), Gets(f, v, m) \/ Misses(f) \/ Dangles(f, m)
    PROVE  PtrTypes'
<1>1. ptr'[f] \in Pointers
    BY DEF Gets, Misses, Dangles, Or, Maybe, Pointers, PtrTypes
<1> QED
    BY <1>1, OnlyTypes

LEMMA ShortSequences ==
    ASSUME NEW S, NEW x \in S, NEW y \in S
    PROVE  <<x>> \in Seq(S) /\ <<x, y>> \in Seq(S)
OBVIOUS

LEMMA PairIs ==
    ASSUME NEW x \in STRING, NEW y \in STRING
    PROVE  <<x, y>> \in Seq(STRING)
BY ShortSequences

LEMMA AppendIs ==
    ASSUME NEW S, NEW s \in Seq(S), NEW x \in S
    PROVE  Append(s, x) \in Seq(S)
OBVIOUS

LEMMA HeaderIs == <<>> \in Seq(STRING) /\ <<"h">> \in Seq(STRING) /\ <<"x">> \in Seq(STRING)
<1>1. <<>> \in Seq(STRING)
    OBVIOUS
<1>2. "h" \in STRING /\ "x" \in STRING
    BY TextsAssumption
<1> QED
    BY <1>1, <1>2, ShortSequences

-----------------------------------------------------------------------------
(* What a step does to the blocks and the lock.                            *)

LEMMA NotDangling ==
    /\ \A v \in Maybe(STRING) \cup Maybe(Seq(STRING)) : v # Dangling
    /\ \A v \in Maybe(Nat) : v # Dangling
<1>1. \A v \in Maybe(Nat) : v # Dangling
    BY PointersAssumption DEF Maybe
<1>2. \A v \in Maybe(STRING) : v # Dangling
    BY PointersAssumption DEF Maybe
<1>3. \A v \in Maybe(Seq(STRING)) : v # Dangling
    BY PointersAssumption DEF Maybe
<1> QED
    BY <1>1, <1>2, <1>3

LEMMA StringBlocks ==
    ASSUME Blocks, NEW f \in Owned \ {"user_info"}, NEW v, NEW m, v # Dangling,
           ptr["user_info"] # NULL => m \in {"uri_password", "uri_username", "free_info"},
           Only(f), Frees(f),
           Gets(f, v, m) \/ Misses(f) \/ (f \in {"scheme", "host", "path"} /\ Dangles(f, m))
    PROVE  Blocks'
<1>1. ptr'["user_info"] # NULL
         => pc' \in {"uri_password", "uri_username", "free_info", "fail"}
    BY DEF Only, Owned, Gets, Misses, Dangles
<1>2. ASSUME NEW g \in Owned, ptr'[g] = Dangling
      PROVE  g \in failed' \cap {"scheme", "host", "path"}
    <2>1. CASE g = f
        BY <1>2, <2>1, PointersAssumption DEF Blocks, Gets, Misses, Dangles, Or
    <2>2. CASE g # f
        BY <1>2, <2>2 DEF Blocks, Only, Gets, Misses, Dangles
    <2> QED
        BY <2>1, <2>2
<1>3. UsesNoFreed'
    BY DEF Blocks, UsesNoFreed, Frees, Gets, Misses, Dangles
<1>4. LosesLittle'
    BY DEF Blocks, LosesLittle, Frees
<1> QED
    BY <1>1, <1>2, <1>3, <1>4 DEF Blocks

\* set_uri()'s own block is a new one.
LEMMA UserBlocks ==
    ASSUME Blocks, pc = "user_info", NEW v, NEW m, v # Dangling,
           Only("user_info"), Frees("user_info"), m = "uri_password",
           Gets("user_info", v, m) \/ Misses("user_info") \/ Dangles("user_info", m)
    PROVE  Blocks'
<1>1. ptr["user_info"] = NULL
    BY DEF Blocks
<1>2. Gets("user_info", v, m) \/ Misses("user_info")
    BY <1>1 DEF Dangles
<1>3. ptr'["user_info"] # NULL
         => pc' \in {"uri_password", "uri_username", "free_info", "fail"}
    BY <1>2 DEF Gets, Misses
<1>4. ASSUME NEW g \in Owned, ptr'[g] = Dangling
      PROVE  g \in failed' \cap {"scheme", "host", "path"}
    <2>1. CASE g = "user_info"
        BY <1>1, <1>2, <1>4, <2>1, PointersAssumption DEF Gets, Misses, Or
    <2>2. CASE g # "user_info"
        BY <1>2, <1>4, <2>2 DEF Blocks, Only, Gets, Misses
    <2> QED
        BY <2>1, <2>2
<1>5. UsesNoFreed'
    BY <1>1, <1>2, PointersAssumption DEF Blocks, UsesNoFreed, Frees, Gets, Misses
<1>6. LosesLittle'
    BY DEF Blocks, LosesLittle, Frees
<1> QED
    BY <1>3, <1>4, <1>5, <1>6 DEF Blocks

\* init() may lose the host of its URI.
LEMMA HostBlocks ==
    ASSUME Blocks, phase = "init", NEW v, NEW m, v # Dangling, ptr["user_info"] = NULL,
           Only("host"), Leaks("host"), Gets("host", v, m) \/ Misses("host")
    PROVE  Blocks'
<1>1. ptr'["user_info"] = NULL
    BY DEF Only, Owned
<1>2. ASSUME NEW g \in Owned, ptr'[g] = Dangling
      PROVE  g \in failed' \cap {"scheme", "host", "path"}
    <2>1. CASE g = "host"
        BY <1>2, <2>1, PointersAssumption DEF Blocks, Gets, Misses, Or
    <2>2. CASE g # "host"
        BY <1>2, <2>2 DEF Blocks, Only, Gets, Misses
    <2> QED
        BY <2>1, <2>2
<1>3. UsesNoFreed'
    BY DEF Blocks, UsesNoFreed, Leaks, Gets, Misses
<1>4. LosesLittle'
    BY DEF Blocks, LosesLittle, Leaks
<1> QED
    BY <1>1, <1>2, <1>3, <1>4 DEF Blocks

LEMMA SameBlocks ==
    ASSUME Blocks, ptr' = ptr, failed' = failed, lost' = lost, misused' = misused,
           ptr["user_info"] # NULL
              => pc' \in {"uri_password", "uri_username", "free_info", "fail"}
    PROVE  Blocks'
BY DEF Blocks, UsesNoFreed, LosesLittle

\* Once there is the lock, a call that fails returns.
LEMMA LateLocks ==
    ASSUME Locks, phase \in {"init", "set_uri"}, phase' = phase,
           pc \notin Early \cup {"fail"}, pc' \notin Early, ptr'["lock"] = ptr["lock"]
    PROVE  Locks'
BY DEF Locks, PanicsForLock, Destroyable

-----------------------------------------------------------------------------
(* A step of a call goes on with the call, or the call fails.              *)

LEMMA UriStepKeeps ==
    ASSUME TypeOK, Places, Blocks, UriStep
    PROVE  /\ PtrTypes' /\ Blocks' /\ ptr'["lock"] = ptr["lock"] /\ port' \in Maybe(Nat)
           /\ pc \in UriLabels \ {"uri_set"} /\ pc' \in UriLabels \cup {"fail"}
           /\ pc' \in {"user_info", "uri_password", "uri_username", "free_info"}
                 => uri.username # NULL
<1> USE DEF UriLabels
<1>a. /\ pc \in UriLabels \ {"uri_set"} /\ uri \in Uris /\ PtrTypes /\ Blocks
      /\ pc \in {"user_info", "uri_password", "uri_username", "free_info"}
            => uri.username # NULL
      /\ ptr["user_info"] # NULL => pc \in {"uri_password", "uri_username", "free_info"}
    <2>1. pc \in UriLabels \ {"uri_set"}
        BY Zenon DEF UriStep
    <2> QED
        BY <2>1 DEF Places, TypeOK, Blocks
<1>b. /\ uri.scheme \in Maybe(STRING) /\ uri.host \in Maybe(STRING)
      /\ uri.path \in Maybe(STRING) /\ uri.port \in Maybe(Nat)
      /\ uri.username \in Maybe(STRING) /\ uri.password \in Maybe(STRING)
      /\ "user:password" \in Maybe(STRING)
      /\ uri.scheme # Dangling /\ uri.host # Dangling /\ uri.path # Dangling
      /\ uri.username # Dangling /\ uri.password # Dangling
      /\ "user:password" # Dangling
    <2>1. "user:password" \in Maybe(STRING)
        BY TextsAssumption DEF Maybe
    <2> QED
        BY <1>a, <2>1, UriIs, NotDangling
<1>c. port' \in Maybe(Nat)
    <2>1. port' = IF pc = "uri_port" THEN PortOf(uri) ELSE port
        BY DEF UriStep
    <2> QED
        BY <2>1, <1>b DEF PortOf, Or, TypeOK, Maybe
<1>1. CASE pc = "uri_scheme" /\ Format("scheme", uri.scheme, "uri_host")
    <2>1. /\ Only("scheme") /\ Frees("scheme")
          /\ \/ Gets("scheme", uri.scheme, "uri_host")
             \/ Misses("scheme") \/ Dangles("scheme", "uri_host")
        BY <1>a, <1>1, FormatDoes DEF Owned, Strings, Resources, PtrTypes
    <2>2. PtrTypes'
        BY <1>a, <2>1, <1>b, StringTypes DEF Owned, Strings, Resources
    <2>3. Blocks'
        BY <1>a, <2>1, <1>b, <1>1, StringBlocks DEF Owned, Strings, Resources
    <2>4. ptr'["lock"] = ptr["lock"]
        BY <2>1 DEF Only, Owned, Resources
    <2> QED
        BY <1>a, <1>b, <1>c, <1>1, <2>1, <2>2, <2>3, <2>4 DEF Gets, Misses, Dangles
<1>2. CASE pc = "uri_host" /\ Format("host", uri.host, "uri_path")
    <2>1. /\ Only("host") /\ Frees("host")
          /\ \/ Gets("host", uri.host, "uri_path")
             \/ Misses("host") \/ Dangles("host", "uri_path")
        BY <1>a, <1>2, FormatDoes DEF Owned, Strings, Resources, PtrTypes
    <2>2. PtrTypes'
        BY <1>a, <2>1, <1>b, StringTypes DEF Owned, Strings, Resources
    <2>3. Blocks'
        BY <1>a, <2>1, <1>b, <1>2, StringBlocks DEF Owned, Strings, Resources
    <2>4. ptr'["lock"] = ptr["lock"]
        BY <2>1 DEF Only, Owned, Resources
    <2> QED
        BY <1>a, <1>b, <1>c, <1>2, <2>1, <2>2, <2>3, <2>4 DEF Gets, Misses, Dangles
<1>3. CASE pc = "uri_path" /\ Format("path", uri.path, "uri_port")
    <2>1. /\ Only("path") /\ Frees("path")
          /\ \/ Gets("path", uri.path, "uri_port")
             \/ Misses("path") \/ Dangles("path", "uri_port")
        BY <1>a, <1>3, FormatDoes DEF Owned, Strings, Resources, PtrTypes
    <2>2. PtrTypes'
        BY <1>a, <2>1, <1>b, StringTypes DEF Owned, Strings, Resources
    <2>3. Blocks'
        BY <1>a, <2>1, <1>b, <1>3, StringBlocks DEF Owned, Strings, Resources
    <2>4. ptr'["lock"] = ptr["lock"]
        BY <2>1 DEF Only, Owned, Resources
    <2> QED
        BY <1>a, <1>b, <1>c, <1>3, <2>1, <2>2, <2>3, <2>4 DEF Gets, Misses, Dangles
<1>4. CASE pc = "user_info" /\ Format("user_info", "user:password", "uri_password")
    <2>1. /\ Only("user_info") /\ Frees("user_info")
          /\ \/ Gets("user_info", "user:password", "uri_password")
             \/ Misses("user_info") \/ Dangles("user_info", "uri_password")
        BY <1>a, <1>4, FormatDoes DEF Owned, Strings, Resources, PtrTypes
    <2>2. PtrTypes'
        BY <1>a, <2>1, <1>b, StringTypes DEF Owned, Strings, Resources
    <2>3. Blocks'
        BY <1>a, <2>1, <1>b, <1>4, UserBlocks DEF Owned, Strings, Resources
    <2>4. ptr'["lock"] = ptr["lock"]
        BY <2>1 DEF Only, Owned, Resources
    <2> QED
        BY <1>a, <1>b, <1>c, <1>4, <2>1, <2>2, <2>3, <2>4 DEF Gets, Misses, Dangles
<1>5. CASE pc = "uri_password" /\ Set("password", uri.password, "uri_username")
    <2>1. /\ Only("password") /\ Frees("password")
          /\ \/ Gets("password", uri.password, "uri_username")
             \/ Misses("password")
        BY <1>a, <1>5, SetDoes DEF Owned, Strings, Resources, PtrTypes
    <2>2. PtrTypes'
        BY <1>a, <2>1, <1>b, StringTypes DEF Owned, Strings, Resources
    <2>3. Blocks'
        BY <1>a, <2>1, <1>b, <1>5, StringBlocks DEF Owned, Strings, Resources
    <2>4. ptr'["lock"] = ptr["lock"]
        BY <2>1 DEF Only, Owned, Resources
    <2> QED
        BY <1>a, <1>b, <1>c, <1>5, <2>1, <2>2, <2>3, <2>4 DEF Gets, Misses, Dangles
<1>6. CASE pc = "uri_username" /\ Set("username", uri.username, "free_info")
    <2>1. /\ Only("username") /\ Frees("username")
          /\ \/ Gets("username", uri.username, "free_info")
             \/ Misses("username")
        BY <1>a, <1>6, SetDoes DEF Owned, Strings, Resources, PtrTypes
    <2>2. PtrTypes'
        BY <1>a, <2>1, <1>b, StringTypes DEF Owned, Strings, Resources
    <2>3. Blocks'
        BY <1>a, <2>1, <1>b, <1>6, StringBlocks DEF Owned, Strings, Resources
    <2>4. ptr'["lock"] = ptr["lock"]
        BY <2>1 DEF Only, Owned, Resources
    <2> QED
        BY <1>a, <1>b, <1>c, <1>6, <2>1, <2>2, <2>3, <2>4 DEF Gets, Misses, Dangles
<1>7. CASE pc = "parse" /\ Skip(IF uri.valid THEN "uri_scheme" ELSE "fail")
    <2>1. PtrTypes' /\ Blocks'
        BY <1>a, <1>7, SkipDoes, SameBlocks DEF PtrTypes
    <2> QED
        BY <1>a, <1>c, <1>7, <2>1, SkipDoes
<1>8. CASE pc = "uri_port" /\ Skip(IF uri.username # NULL THEN "user_info" ELSE "uri_set")
    <2>1. PtrTypes' /\ Blocks'
        BY <1>a, <1>8, SkipDoes, SameBlocks DEF PtrTypes
    <2> QED
        BY <1>a, <1>c, <1>8, <2>1, SkipDoes
<1>9. CASE /\ pc = "free_info" /\ Free("user_info") /\ failed' = failed
           /\ ptr' = [ptr EXCEPT !["user_info"] = NULL] /\ pc' = "uri_set"
    <2>1. Only("user_info") /\ Frees("user_info") /\ ptr'["user_info"] = NULL
        BY <1>a, <1>9 DEF PtrTypes, Only, Frees, Free, Owned
    <2>2. PtrTypes'
        BY <1>a, <2>1, OnlyTypes DEF Owned, Pointers
    <2>3. \A g \in Owned : ptr'[g] = Dangling => g \in failed' \cap {"scheme", "host", "path"}
        BY <1>a, <1>9, <2>1, PointersAssumption DEF Blocks, Only
    <2>4. UsesNoFreed' /\ LosesLittle'
        BY <1>a, <1>9, <2>1 DEF Blocks, Frees, UsesNoFreed, LosesLittle, Owned
    <2>5. ptr'["lock"] = ptr["lock"]
        BY <2>1 DEF Only, Owned, Resources
    <2> QED
        BY <1>a, <1>c, <1>9, <2>1, <2>2, <2>3, <2>4, <2>5 DEF Blocks
<1> QED
    <2>1. \/ pc = "parse" /\ Skip(IF uri.valid THEN "uri_scheme" ELSE "fail")
          \/ pc = "uri_scheme" /\ Format("scheme", uri.scheme, "uri_host")
          \/ pc = "uri_host" /\ Format("host", uri.host, "uri_path")
          \/ pc = "uri_path" /\ Format("path", uri.path, "uri_port")
          \/ pc = "user_info" /\ Format("user_info", "user:password", "uri_password")
          \/ pc = "uri_password" /\ Set("password", uri.password, "uri_username")
          \/ pc = "uri_username" /\ Set("username", uri.username, "free_info")
          \/ /\ pc = "uri_port"
             /\ Skip(IF uri.username # NULL THEN "user_info" ELSE "uri_set")
          \/ /\ pc = "free_info" /\ Free("user_info") /\ failed' = failed
             /\ ptr' = [ptr EXCEPT !["user_info"] = NULL] /\ pc' = "uri_set"
        BY Zenon DEF UriStep
    <2> QED
        BY <2>1, <1>1, <1>2, <1>3, <1>4, <1>5, <1>6, <1>7, <1>8, <1>9

LEMMA ConfigStepKeeps ==
    ASSUME TypeOK, Places, Blocks, ConfigStep
    PROVE  /\ PtrTypes' /\ Blocks' /\ ptr'["lock"] = ptr["lock"] /\ port' \in Maybe(Nat)
           /\ pc \in ConfigLabels /\ pc' \in ConfigLabels \cup {"default_scheme", "fail"}
           /\ pc' \in {"subprotocol", "user_agent", "headers"} => given.extras
<1> USE DEF ConfigLabels
<1>a. /\ pc \in ConfigLabels /\ given \in Configs /\ PtrTypes /\ Blocks /\ phase = "init"
      /\ pc \in {"subprotocol", "user_agent", "headers"} => given.extras
      /\ ptr["user_info"] = NULL
    <2>1. pc \in ConfigLabels
        BY Zenon DEF ConfigStep
    <2>2. phase = "init"
        BY <2>1 DEF Places, UriLabels
    <2> QED
        BY <2>1, <2>2 DEF Places, TypeOK, Blocks
<1>b. /\ given.host \in Maybe(STRING) /\ given.port \in Maybe(Nat)
      /\ given.username \in Maybe(STRING) /\ given.password \in Maybe(STRING)
      /\ given.path \in Maybe(STRING)
      /\ (IF given.uri = NULL THEN NULL ELSE "uri") \in Maybe(STRING)
      /\ "s" \in Maybe(STRING) /\ "a" \in Maybe(STRING)
      /\ given.host # Dangling /\ given.username # Dangling /\ given.password # Dangling
      /\ given.path # Dangling /\ (IF given.uri = NULL THEN NULL ELSE "uri") # Dangling
      /\ "s" # Dangling /\ "a" # Dangling
    <2>1. /\ (IF given.uri = NULL THEN NULL ELSE "uri") \in Maybe(STRING)
          /\ "s" \in Maybe(STRING) /\ "a" \in Maybe(STRING)
        BY TextsAssumption DEF Maybe
    <2> QED
        BY <1>a, <2>1, ConfigIs, NotDangling
<1>c. port' \in Maybe(Nat)
    <2>1. port' = IF pc = "port" THEN Or(given.port, port) ELSE port
        BY DEF ConfigStep
    <2> QED
        BY <2>1, <1>b DEF Or, TypeOK, Maybe
<1>1. CASE pc = "username" /\ Set("username", given.username, "password")
    <2>1. /\ Only("username") /\ Frees("username")
          /\ \/ Gets("username", given.username, "password")
             \/ Misses("username")
        BY <1>a, <1>1, SetDoes DEF Owned, Strings, Resources, PtrTypes
    <2>2. PtrTypes'
        BY <1>a, <2>1, <1>b, StringTypes DEF Owned, Strings, Resources
    <2>3. Blocks'
        BY <1>a, <2>1, <1>b, <1>1, StringBlocks DEF Owned, Strings, Resources
    <2>4. ptr'["lock"] = ptr["lock"]
        BY <2>1 DEF Only, Owned, Resources
    <2> QED
        BY <1>a, <1>b, <1>c, <1>1, <2>1, <2>2, <2>3, <2>4 DEF Gets, Misses, Dangles
<1>2. CASE pc = "password" /\ Set("password", given.password, "auth")
    <2>1. /\ Only("password") /\ Frees("password")
          /\ \/ Gets("password", given.password, "auth")
             \/ Misses("password")
        BY <1>a, <1>2, SetDoes DEF Owned, Strings, Resources, PtrTypes
    <2>2. PtrTypes'
        BY <1>a, <2>1, <1>b, StringTypes DEF Owned, Strings, Resources
    <2>3. Blocks'
        BY <1>a, <2>1, <1>b, <1>2, StringBlocks DEF Owned, Strings, Resources
    <2>4. ptr'["lock"] = ptr["lock"]
        BY <2>1 DEF Only, Owned, Resources
    <2> QED
        BY <1>a, <1>b, <1>c, <1>2, <2>1, <2>2, <2>3, <2>4 DEF Gets, Misses, Dangles
<1>3. CASE pc = "uri" /\ Set("uri", (IF given.uri = NULL THEN NULL ELSE "uri"), "path")
    <2>1. /\ Only("uri") /\ Frees("uri")
          /\ \/ Gets("uri", (IF given.uri = NULL THEN NULL ELSE "uri"), "path")
             \/ Misses("uri")
        BY <1>a, <1>3, SetDoes DEF Owned, Strings, Resources, PtrTypes
    <2>2. PtrTypes'
        BY <1>a, <2>1, <1>b, StringTypes DEF Owned, Strings, Resources
    <2>3. Blocks'
        BY <1>a, <2>1, <1>b, <1>3, StringBlocks DEF Owned, Strings, Resources
    <2>4. ptr'["lock"] = ptr["lock"]
        BY <2>1 DEF Only, Owned, Resources
    <2> QED
        BY <1>a, <1>b, <1>c, <1>3, <2>1, <2>2, <2>3, <2>4 DEF Gets, Misses, Dangles
<1>4. CASE /\ pc = "path"
           /\ Set("path", given.path,
                  (IF given.extras THEN "subprotocol" ELSE "default_scheme"))
    <2>1. /\ Only("path") /\ Frees("path")
          /\ \/ Gets("path", given.path, (IF given.extras THEN "subprotocol" ELSE "default_scheme"))
             \/ Misses("path")
        BY <1>a, <1>4, SetDoes DEF Owned, Strings, Resources, PtrTypes
    <2>2. PtrTypes'
        BY <1>a, <2>1, <1>b, StringTypes DEF Owned, Strings, Resources
    <2>3. Blocks'
        BY <1>a, <2>1, <1>b, <1>4, StringBlocks DEF Owned, Strings, Resources
    <2>4. ptr'["lock"] = ptr["lock"]
        BY <2>1 DEF Only, Owned, Resources
    <2> QED
        BY <1>a, <1>b, <1>c, <1>4, <2>1, <2>2, <2>3, <2>4 DEF Gets, Misses, Dangles
<1>5. CASE pc = "subprotocol" /\ Set("subprotocol", "s", "user_agent")
    <2>1. /\ Only("subprotocol") /\ Frees("subprotocol")
          /\ \/ Gets("subprotocol", "s", "user_agent")
             \/ Misses("subprotocol")
        BY <1>a, <1>5, SetDoes DEF Owned, Strings, Resources, PtrTypes
    <2>2. PtrTypes'
        BY <1>a, <2>1, <1>b, StringTypes DEF Owned, Strings, Resources
    <2>3. Blocks'
        BY <1>a, <2>1, <1>b, <1>5, StringBlocks DEF Owned, Strings, Resources
    <2>4. ptr'["lock"] = ptr["lock"]
        BY <2>1 DEF Only, Owned, Resources
    <2> QED
        BY <1>a, <1>b, <1>c, <1>5, <2>1, <2>2, <2>3, <2>4 DEF Gets, Misses, Dangles
<1>6. CASE pc = "user_agent" /\ Set("user_agent", "a", "headers")
    <2>1. /\ Only("user_agent") /\ Frees("user_agent")
          /\ \/ Gets("user_agent", "a", "headers")
             \/ Misses("user_agent")
        BY <1>a, <1>6, SetDoes DEF Owned, Strings, Resources, PtrTypes
    <2>2. PtrTypes'
        BY <1>a, <2>1, <1>b, StringTypes DEF Owned, Strings, Resources
    <2>3. Blocks'
        BY <1>a, <2>1, <1>b, <1>6, StringBlocks DEF Owned, Strings, Resources
    <2>4. ptr'["lock"] = ptr["lock"]
        BY <2>1 DEF Only, Owned, Resources
    <2> QED
        BY <1>a, <1>b, <1>c, <1>6, <2>1, <2>2, <2>3, <2>4 DEF Gets, Misses, Dangles
<1>7. CASE pc = "host" /\ Add("host", given.host, "port")
    <2>1. /\ Only("host") /\ Leaks("host")
          /\ \/ Gets("host", given.host, "port")
             \/ Misses("host")
        BY <1>a, <1>7, AddDoes DEF Owned, Strings, Resources, PtrTypes
    <2>2. PtrTypes'
        BY <1>a, <2>1, <1>b, StringTypes DEF Owned, Strings, Resources
    <2>3. Blocks'
        BY <1>a, <2>1, <1>b, <1>7, HostBlocks DEF Owned, Strings, Resources
    <2>4. ptr'["lock"] = ptr["lock"]
        BY <2>1 DEF Only, Owned, Resources
    <2> QED
        BY <1>a, <1>b, <1>c, <1>7, <2>1, <2>2, <2>3, <2>4 DEF Gets, Misses, Dangles
<1>8. CASE pc = "port" /\ Skip("username")
    <2>1. PtrTypes' /\ Blocks'
        BY <1>a, <1>8, SkipDoes, SameBlocks DEF PtrTypes
    <2> QED
        BY <1>a, <1>c, <1>8, <2>1, SkipDoes
<1>9. CASE pc = "auth" /\ SetAuth("uri")
    <2>1. ptr["username"] # Dangling /\ ptr["password"] # Dangling
        BY DEF Blocks, Owned, Strings
    <2>2. ptr["username"] \in Maybe(STRING) /\ ptr["password"] \in Maybe(STRING)
        BY <1>a, <2>1 DEF PtrTypes, Pointers, Maybe, Owned, Strings
    <2> DEFINE v == IF NULL \in {ptr["username"], ptr["password"]} THEN ptr["auth"]
                    ELSE <<ptr["username"], ptr["password"]>>
    <2>3. v \in Maybe(Seq(STRING))
        BY <1>a, <2>2, PairIs DEF Maybe, PtrTypes
    <2>4. /\ Only("auth") /\ Frees("auth")
          /\ Misses("auth") \/ (pc' = "uri" /\ ptr'["auth"] = v /\ failed' = failed)
        BY <1>a, <1>9, SetAuthDoes DEF PtrTypes
    <2> HIDE DEF v
    <2>5. PtrTypes'
        BY <1>a, <2>3, <2>4, OnlyTypes DEF Owned, Strings, Misses, Maybe
    <2>6. v # Dangling
        BY <2>3, NotDangling
    <2>7. Blocks'
        <3>1. ptr'["user_info"] = NULL
            BY <1>a, <2>4 DEF Only, Owned
        <3>2. \A g \in Owned : ptr'[g] = Dangling
                  => g \in failed' \cap {"scheme", "host", "path"}
            BY <1>a, <2>4, <2>6, PointersAssumption DEF Blocks, Only, Misses
        <3>3. UsesNoFreed' /\ LosesLittle'
            BY <1>a, <2>4
               DEF Blocks, Frees, UsesNoFreed, LosesLittle, Owned, Strings, Misses
        <3> QED
            BY <3>1, <3>2, <3>3 DEF Blocks
    <2>8. ptr'["lock"] = ptr["lock"]
        BY <2>4 DEF Only, Owned, Resources
    <2> QED
        BY <1>a, <1>c, <1>9, <2>4, <2>5, <2>7, <2>8 DEF Misses
<1>10. CASE pc = "headers" /\ Set("headers", <<"h">>, "default_scheme")
    <2>1. /\ Only("headers") /\ Frees("headers")
          /\ Gets("headers", <<"h">>, "default_scheme") \/ Misses("headers")
        BY <1>a, <1>10, SetDoes DEF Owned, Strings, PtrTypes
    <2>2. ptr'["headers"] \in Maybe(Seq(STRING))
        BY <1>a, <2>1, HeaderIs DEF Gets, Misses, Or, Maybe, PtrTypes
    <2>3. PtrTypes'
        BY <1>a, <2>1, <2>2, OnlyTypes DEF Owned, Strings
    <2>4. <<"h">> # Dangling
        BY HeaderIs, PointersAssumption
    <2>5. Blocks'
        BY <1>a, <2>1, <2>4, StringBlocks DEF Owned, Strings
    <2>6. ptr'["lock"] = ptr["lock"]
        BY <2>1 DEF Only, Owned, Resources
    <2> QED
        BY <1>a, <1>c, <1>10, <2>1, <2>3, <2>5, <2>6 DEF Gets, Misses
<1> QED
    <2>1. \/ pc = "port" /\ Skip("username")
          \/ pc = "auth" /\ SetAuth("uri")
          \/ pc = "headers" /\ Set("headers", <<"h">>, "default_scheme")
          \/ pc = "username" /\ Set("username", given.username, "password")
          \/ pc = "password" /\ Set("password", given.password, "auth")
          \/ pc = "uri" /\ Set("uri", (IF given.uri = NULL THEN NULL ELSE "uri"), "path")
          \/ /\ pc = "path"
             /\ Set("path", given.path,
                    (IF given.extras THEN "subprotocol" ELSE "default_scheme"))
          \/ pc = "subprotocol" /\ Set("subprotocol", "s", "user_agent")
          \/ pc = "user_agent" /\ Set("user_agent", "a", "headers")
          \/ pc = "host" /\ Add("host", given.host, "port")
        BY Zenon DEF ConfigStep
    <2> QED
        BY <2>1, <1>1, <1>2, <1>3, <1>4, <1>5, <1>6, <1>7, <1>8, <1>9, <1>10

LEMMA InitStepKeeps ==
    ASSUME TypeOK, Places, Blocks, Locks, InitStep
    PROVE  /\ PtrTypes' /\ Blocks' /\ Locks' /\ port' \in Maybe(Nat)
           /\ phase = "init"
           /\ pc \in FirstLabels \cup (LastLabels \ {"done"}) \cup {"uri_set"}
           /\ pc' \in FirstLabels \cup LastLabels \cup {"host", "parse", "fail"}
           /\ pc' = "parse" => uri \in Uris
<1> USE DEF FirstLabels, LastLabels
<1>a. /\ phase = "init" /\ phase' = phase /\ given \in Configs /\ uri \in Maybe(Uris)
      /\ pc \in FirstLabels \cup (LastLabels \ {"done"}) \cup {"uri_set"}
      /\ PtrTypes /\ Blocks /\ Locks /\ ptr["user_info"] = NULL
    <2>1. /\ phase = "init" /\ phase' = phase
          /\ pc \in FirstLabels \cup (LastLabels \ {"done"}) \cup {"uri_set"}
        BY Zenon DEF InitStep
    <2> QED
        BY <2>1 DEF Places, TypeOK, Blocks
<1>b. /\ given.transport \in Maybe(STRING) /\ (uri = NULL \/ uri \in Uris)
      /\ "it" \in Maybe(STRING) /\ "ws" \in Maybe(STRING)
      /\ given.transport # Dangling /\ "it" # Dangling /\ "ws" # Dangling /\ "it" # NULL
    <2>1. /\ given.transport \in Maybe(STRING) /\ (uri = NULL \/ uri \in Uris)
          /\ "it" \in Maybe(STRING) /\ "ws" \in Maybe(STRING)
        BY <1>a, ConfigIs, TextsAssumption DEF Maybe
    <2> QED
        BY <2>1, NotDangling, TextsAssumption, PointersAssumption
<1>c. port' \in Maybe(Nat)
    BY DEF InitStep, TypeOK
<1>1. CASE pc = "client" /\ Set("client", "it", "event_handle")
    <2>1. /\ Only("client") /\ Frees("client")
          /\ \/ Gets("client", "it", "event_handle")
             \/ Misses("client")
        BY <1>a, <1>1, SetDoes DEF Owned, Strings, Resources, PtrTypes
    <2>2. PtrTypes'
        BY <1>a, <2>1, <1>b, StringTypes DEF Owned, Strings, Resources
    <2>3. Blocks'
        BY <1>a, <2>1, <1>b, <1>1, StringBlocks DEF Owned, Strings, Resources
    <2>4. Locks'
        BY <1>a, <1>b, <1>1, <2>1
           DEF Locks, Early, Only, Gets, Misses, Destroyable, PanicsForLock, Owned,
               Resources, Or
    <2> QED
        BY <1>a, <1>b, <1>c, <1>1, <2>1, <2>2, <2>3, <2>4 DEF Gets, Misses, Dangles
<1>2. CASE /\ pc = "event_handle"
           /\ Set("event_handle", "it", (IF given.extras THEN "if_name" ELSE "lock"))
    <2>1. /\ Only("event_handle") /\ Frees("event_handle")
          /\ \/ Gets("event_handle", "it", (IF given.extras THEN "if_name" ELSE "lock"))
             \/ Misses("event_handle")
        BY <1>a, <1>2, SetDoes DEF Owned, Strings, Resources, PtrTypes
    <2>2. PtrTypes'
        BY <1>a, <2>1, <1>b, StringTypes DEF Owned, Strings, Resources
    <2>3. Blocks'
        BY <1>a, <2>1, <1>b, <1>2, StringBlocks DEF Owned, Strings, Resources
    <2>4. Locks'
        BY <1>a, <1>b, <1>2, <2>1
           DEF Locks, Early, Only, Gets, Misses, Destroyable, PanicsForLock, Owned,
               Resources, Or
    <2> QED
        BY <1>a, <1>b, <1>c, <1>2, <2>1, <2>2, <2>3, <2>4 DEF Gets, Misses, Dangles
<1>3. CASE pc = "if_name" /\ Set("if_name", "it", "lock")
    <2>1. /\ Only("if_name") /\ Frees("if_name")
          /\ \/ Gets("if_name", "it", "lock")
             \/ Misses("if_name")
        BY <1>a, <1>3, SetDoes DEF Owned, Strings, Resources, PtrTypes
    <2>2. PtrTypes'
        BY <1>a, <2>1, <1>b, StringTypes DEF Owned, Strings, Resources
    <2>3. Blocks'
        BY <1>a, <2>1, <1>b, <1>3, StringBlocks DEF Owned, Strings, Resources
    <2>4. Locks'
        BY <1>a, <1>b, <1>3, <2>1
           DEF Locks, Early, Only, Gets, Misses, Destroyable, PanicsForLock, Owned,
               Resources, Or
    <2> QED
        BY <1>a, <1>b, <1>c, <1>3, <2>1, <2>2, <2>3, <2>4 DEF Gets, Misses, Dangles
<1>4. CASE pc = "lock" /\ Set("lock", "it", "config")
    <2>1. /\ Only("lock") /\ Frees("lock")
          /\ \/ Gets("lock", "it", "config")
             \/ Misses("lock")
        BY <1>a, <1>4, SetDoes DEF Owned, Strings, Resources, PtrTypes
    <2>2. PtrTypes'
        BY <1>a, <2>1, <1>b, StringTypes DEF Owned, Strings, Resources
    <2>3. Blocks'
        BY <1>a, <2>1, <1>b, <1>4, StringBlocks DEF Owned, Strings, Resources
    <2>4. Locks'
        BY <1>a, <1>b, <1>4, <2>1
           DEF Locks, Early, Only, Gets, Misses, Destroyable, PanicsForLock, Owned,
               Resources, Or
    <2> QED
        BY <1>a, <1>b, <1>c, <1>4, <2>1, <2>2, <2>3, <2>4 DEF Gets, Misses, Dangles
<1>5. CASE pc = "config" /\ Set("config", "it", "transport")
    <2>1. /\ Only("config") /\ Frees("config")
          /\ \/ Gets("config", "it", "transport")
             \/ Misses("config")
        BY <1>a, <1>5, SetDoes DEF Owned, Strings, Resources, PtrTypes
    <2>2. PtrTypes'
        BY <1>a, <2>1, <1>b, StringTypes DEF Owned, Strings, Resources
    <2>3. Blocks'
        BY <1>a, <2>1, <1>b, <1>5, StringBlocks DEF Owned, Strings, Resources
    <2>4. Locks'
        <3>1. ptr'["lock"] = ptr["lock"] /\ pc' \notin Early
            BY <1>5, <2>1 DEF Only, Gets, Misses, Dangles, Owned, Resources, Early
        <3> QED
            BY <1>a, <3>1, <1>5, LateLocks DEF Early
    <2> QED
        BY <1>a, <1>b, <1>c, <1>5, <2>1, <2>2, <2>3, <2>4 DEF Gets, Misses, Dangles
<1>6. CASE /\ pc = "transport"
           /\ Format("scheme", given.transport, (IF uri = NULL THEN "host" ELSE "parse"))
    <2>1. /\ Only("scheme") /\ Frees("scheme")
          /\ \/ Gets("scheme", given.transport, (IF uri = NULL THEN "host" ELSE "parse"))
             \/ Misses("scheme")
             \/ Dangles("scheme", (IF uri = NULL THEN "host" ELSE "parse"))
        BY <1>a, <1>6, FormatDoes DEF Owned, Strings, Resources, PtrTypes
    <2>2. PtrTypes'
        BY <1>a, <2>1, <1>b, StringTypes DEF Owned, Strings, Resources
    <2>3. Blocks'
        BY <1>a, <2>1, <1>b, <1>6, StringBlocks DEF Owned, Strings, Resources
    <2>4. Locks'
        <3>1. ptr'["lock"] = ptr["lock"] /\ pc' \notin Early
            BY <1>6, <2>1 DEF Only, Gets, Misses, Dangles, Owned, Resources, Early
        <3> QED
            BY <1>a, <3>1, <1>6, LateLocks DEF Early
    <2> QED
        BY <1>a, <1>b, <1>c, <1>6, <2>1, <2>2, <2>3, <2>4 DEF Gets, Misses, Dangles
<1>7. CASE pc = "rx_buffer" /\ Set("rx_buffer", "it", "tx_buffer")
    <2>1. /\ Only("rx_buffer") /\ Frees("rx_buffer")
          /\ \/ Gets("rx_buffer", "it", "tx_buffer")
             \/ Misses("rx_buffer")
        BY <1>a, <1>7, SetDoes DEF Owned, Strings, Resources, PtrTypes
    <2>2. PtrTypes'
        BY <1>a, <2>1, <1>b, StringTypes DEF Owned, Strings, Resources
    <2>3. Blocks'
        BY <1>a, <2>1, <1>b, <1>7, StringBlocks DEF Owned, Strings, Resources
    <2>4. Locks'
        <3>1. ptr'["lock"] = ptr["lock"] /\ pc' \notin Early
            BY <1>7, <2>1 DEF Only, Gets, Misses, Dangles, Owned, Resources, Early
        <3> QED
            BY <1>a, <3>1, <1>7, LateLocks DEF Early
    <2> QED
        BY <1>a, <1>b, <1>c, <1>7, <2>1, <2>2, <2>3, <2>4 DEF Gets, Misses, Dangles
<1>8. CASE pc = "tx_buffer" /\ Set("tx_buffer", "it", "status_bits")
    <2>1. /\ Only("tx_buffer") /\ Frees("tx_buffer")
          /\ \/ Gets("tx_buffer", "it", "status_bits")
             \/ Misses("tx_buffer")
        BY <1>a, <1>8, SetDoes DEF Owned, Strings, Resources, PtrTypes
    <2>2. PtrTypes'
        BY <1>a, <2>1, <1>b, StringTypes DEF Owned, Strings, Resources
    <2>3. Blocks'
        BY <1>a, <2>1, <1>b, <1>8, StringBlocks DEF Owned, Strings, Resources
    <2>4. Locks'
        <3>1. ptr'["lock"] = ptr["lock"] /\ pc' \notin Early
            BY <1>8, <2>1 DEF Only, Gets, Misses, Dangles, Owned, Resources, Early
        <3> QED
            BY <1>a, <3>1, <1>8, LateLocks DEF Early
    <2> QED
        BY <1>a, <1>b, <1>c, <1>8, <2>1, <2>2, <2>3, <2>4 DEF Gets, Misses, Dangles
<1>9. CASE pc = "status_bits" /\ Set("status_bits", "it", "done")
    <2>1. /\ Only("status_bits") /\ Frees("status_bits")
          /\ \/ Gets("status_bits", "it", "done")
             \/ Misses("status_bits")
        BY <1>a, <1>9, SetDoes DEF Owned, Strings, Resources, PtrTypes
    <2>2. PtrTypes'
        BY <1>a, <2>1, <1>b, StringTypes DEF Owned, Strings, Resources
    <2>3. Blocks'
        BY <1>a, <2>1, <1>b, <1>9, StringBlocks DEF Owned, Strings, Resources
    <2>4. Locks'
        <3>1. ptr'["lock"] = ptr["lock"] /\ pc' \notin Early
            BY <1>9, <2>1 DEF Only, Gets, Misses, Dangles, Owned, Resources, Early
        <3> QED
            BY <1>a, <3>1, <1>9, LateLocks DEF Early
    <2> QED
        BY <1>a, <1>b, <1>c, <1>9, <2>1, <2>2, <2>3, <2>4 DEF Gets, Misses, Dangles
<1>10. CASE pc = "default_scheme" /\ Format("scheme", "ws", "rx_buffer")
    <2>1. /\ Only("scheme") /\ Frees("scheme")
          /\ \/ Gets("scheme", "ws", "rx_buffer")
             \/ Misses("scheme") \/ Dangles("scheme", "rx_buffer")
        BY <1>a, <1>10, FormatDoes DEF Owned, Strings, Resources, PtrTypes
    <2>2. PtrTypes'
        BY <1>a, <2>1, <1>b, StringTypes DEF Owned, Strings, Resources
    <2>3. Blocks'
        BY <1>a, <2>1, <1>b, <1>10, StringBlocks DEF Owned, Strings, Resources
    <2>4. Locks'
        <3>1. ptr'["lock"] = ptr["lock"] /\ pc' \notin Early
            BY <1>10, <2>1 DEF Only, Gets, Misses, Dangles, Owned, Resources, Early
        <3> QED
            BY <1>a, <3>1, <1>10, LateLocks DEF Early
    <2> QED
        BY <1>a, <1>b, <1>c, <1>10, <2>1, <2>2, <2>3, <2>4 DEF Gets, Misses, Dangles
<1>11. CASE pc = "default_scheme" /\ Skip("rx_buffer")
    <2>1. PtrTypes' /\ Blocks'
        BY <1>a, <1>11, SkipDoes, SameBlocks DEF PtrTypes
    <2>2. Locks'
        BY <1>a, <1>11, SkipDoes, LateLocks DEF Early
    <2> QED
        BY <1>a, <1>c, <1>11, <2>1, <2>2, SkipDoes
<1>12. CASE pc = "uri_set" /\ Skip("host")
    <2>1. PtrTypes' /\ Blocks'
        BY <1>a, <1>12, SkipDoes, SameBlocks DEF PtrTypes
    <2>2. Locks'
        BY <1>a, <1>12, SkipDoes, LateLocks DEF Early
    <2> QED
        BY <1>a, <1>c, <1>12, <2>1, <2>2, SkipDoes
<1> QED
    <2>1. \/ pc = "default_scheme" /\ Skip("rx_buffer")
          \/ pc = "uri_set" /\ Skip("host")
          \/ pc = "client" /\ Set("client", "it", "event_handle")
          \/ /\ pc = "event_handle"
             /\ Set("event_handle", "it", (IF given.extras THEN "if_name" ELSE "lock"))
          \/ pc = "if_name" /\ Set("if_name", "it", "lock")
          \/ pc = "lock" /\ Set("lock", "it", "config")
          \/ pc = "config" /\ Set("config", "it", "transport")
          \/ /\ pc = "transport"
             /\ Format("scheme", given.transport,
                       (IF uri = NULL THEN "host" ELSE "parse"))
          \/ pc = "rx_buffer" /\ Set("rx_buffer", "it", "tx_buffer")
          \/ pc = "tx_buffer" /\ Set("tx_buffer", "it", "status_bits")
          \/ pc = "status_bits" /\ Set("status_bits", "it", "done")
          \/ pc = "default_scheme" /\ Format("scheme", "ws", "rx_buffer")
        BY Zenon DEF InitStep
    <2> QED
        BY <2>1, <1>1, <1>2, <1>3, <1>4, <1>5, <1>6, <1>7, <1>8, <1>9, <1>10, <1>11, <1>12

-----------------------------------------------------------------------------
(* Every step keeps the types, the places, the blocks and the lock.        *)

Sound == TypeOK /\ Places /\ Blocks /\ Locks

LEMMA InitSound == Init => Sound
<1> SUFFICES ASSUME Init PROVE Sound
    OBVIOUS
<1>1. PtrTypes
    BY DEF Init, Empty, PtrTypes, Pointers, Maybe, Owned, Strings, Resources
<1>2. want \in Wanted
    BY HeaderIs DEF Init, Options, Wanted, Maybe
<1>3. used \in Sessions
    BY HeaderIs DEF Init, Session, Sessions, Maybe, Pointers
<1>4. TypeOK
    BY <1>1, <1>2, <1>3 DEF Init, TypeOK, Maybe
<1>5. Places
    BY DEF Init, Places, UriLabels
<1>6. Blocks
    BY PointersAssumption DEF Init, Empty, Blocks, UsesNoFreed, LosesLittle, Owned
<1>7. Locks
    BY DEF Init, Locks, PanicsForLock
<1> QED
    BY <1>4, <1>5, <1>6, <1>7 DEF Sound

LEMMA StepSound ==
    ASSUME Sound, InitStep \/ ConfigStep \/ UriStep
    PROVE  Sound'
<1>a. TypeOK /\ Places /\ Blocks /\ Locks
    BY DEF Sound
<1>b. phase' = phase /\ given' = given /\ uri' = uri /\ used' = used /\ want' = want
    BY DEF InitStep, ConfigStep, UriStep, asked
<1>1. CASE InitStep
    <2>1. /\ PtrTypes' /\ Blocks' /\ Locks' /\ port' \in Maybe(Nat) /\ phase = "init"
          /\ pc' \in FirstLabels \cup LastLabels \cup {"host", "parse", "fail"}
          /\ pc' = "parse" => uri \in Uris
        BY <1>a, <1>1, InitStepKeeps
    <2>2. TypeOK'
        BY <1>a, <1>b, <2>1 DEF TypeOK, UriLabels, ConfigLabels
    <2>3. Places'
        BY <1>a, <1>b, <2>1 DEF Places, UriLabels, FirstLabels, LastLabels
    <2> QED
        BY <2>1, <2>2, <2>3 DEF Sound
<1>2. CASE ConfigStep
    <2>1. /\ PtrTypes' /\ Blocks' /\ ptr'["lock"] = ptr["lock"] /\ port' \in Maybe(Nat)
          /\ pc \in ConfigLabels /\ pc' \in ConfigLabels \cup {"default_scheme", "fail"}
          /\ pc' \in {"subprotocol", "user_agent", "headers"} => given.extras
        BY <1>a, <1>2, ConfigStepKeeps
    <2>2. phase = "init"
        BY <1>a, <2>1 DEF Places, ConfigLabels, UriLabels
    <2>3. TypeOK'
        BY <1>a, <1>b, <2>1 DEF TypeOK, LastLabels
    <2>4. Places'
        BY <1>a, <1>b, <2>1, <2>2 DEF Places, ConfigLabels, UriLabels
    <2>5. Locks'
        BY <1>a, <1>b, <2>1, <2>2, LateLocks DEF ConfigLabels, Early
    <2> QED
        BY <2>1, <2>3, <2>4, <2>5 DEF Sound
<1>3. CASE UriStep
    <2>1. /\ PtrTypes' /\ Blocks' /\ ptr'["lock"] = ptr["lock"] /\ port' \in Maybe(Nat)
          /\ pc \in UriLabels \ {"uri_set"} /\ pc' \in UriLabels \cup {"fail"}
          /\ pc' \in {"user_info", "uri_password", "uri_username", "free_info"}
                => uri.username # NULL
        BY <1>a, <1>3, UriStepKeeps
    <2>2. phase \in {"init", "set_uri"} /\ uri \in Uris
        BY <1>a, <2>1 DEF Places, UriLabels
    <2>3. TypeOK'
        BY <1>a, <1>b, <2>1 DEF TypeOK
    <2>4. Places'
        BY <1>a, <1>b, <2>1, <2>2 DEF Places, UriLabels
    <2>5. Locks'
        BY <1>a, <1>b, <2>1, <2>2, LateLocks DEF UriLabels, Early
    <2> QED
        BY <2>1, <2>3, <2>4, <2>5 DEF Sound
<1> QED
    BY <1>1, <1>2, <1>3

LEMMA AskedIs ==
    ASSUME NEW c \in Configs
    PROVE  Asked(c) \in Wanted
<1> DEFINE u == IF c.uri = NULL THEN Options ELSE c.uri
<1>1. /\ u.scheme \in Maybe(STRING) /\ u.host \in Maybe(STRING) /\ u.path \in Maybe(STRING)
      /\ u.port \in Maybe(Nat)
      /\ u.username \in Maybe(STRING) /\ u.password \in Maybe(STRING)
    <2>1. CASE c.uri = NULL
        BY <2>1 DEF Options, Maybe
    <2>2. CASE c.uri # NULL
        <3>1. c.uri \in Uris
            BY <2>2, ConfigIs DEF Maybe
        <3> QED
            BY <2>2, <3>1, UriIs
    <2> QED
        BY <2>1, <2>2
<1>2. /\ c.host \in Maybe(STRING) /\ c.port \in Maybe(Nat)
      /\ c.username \in Maybe(STRING) /\ c.password \in Maybe(STRING)
      /\ c.path \in Maybe(STRING) /\ c.transport \in Maybe({"ws", "wss"})
    BY ConfigIs
<1>3. "ws" \in STRING /\ "wss" \in STRING
    BY TextsAssumption
<1>4. Asked(c) = [scheme |-> Or(u.scheme, Or(c.transport, "ws")), host |-> Or(c.host, u.host),
                  path |-> Or(c.path, u.path), port |-> Or(c.port, u.port),
                  username |-> Or(c.username, u.username),
                  password |-> Or(c.password, u.password),
                  headers |-> IF c.extras THEN <<"h">> ELSE <<>>]
    BY DEF Asked
<1> HIDE DEF u
<1>5. /\ Or(u.scheme, Or(c.transport, "ws")) \in Maybe(STRING)
      /\ Or(c.host, u.host) \in Maybe(STRING) /\ Or(c.path, u.path) \in Maybe(STRING)
      /\ Or(c.port, u.port) \in Maybe(Nat)
      /\ Or(c.username, u.username) \in Maybe(STRING)
      /\ Or(c.password, u.password) \in Maybe(STRING)
    BY <1>1, <1>2, <1>3 DEF Or, Maybe
<1>6. (IF c.extras THEN <<"h">> ELSE <<>>) \in Seq(STRING)
    BY HeaderIs
<1> QED
    BY <1>4, <1>5, <1>6 DEF Wanted

\* init() begins, goes through or fails.
LEMMA InitCallsSound ==
    ASSUME Sound, InitCall \/ InitOk \/ InitFailed \/ InitPanics
    PROVE  Sound'
<1>a. TypeOK /\ Places /\ Blocks /\ Locks
    BY DEF Sound
<1>1. CASE InitCall
    <2>1. /\ phase = "none" /\ phase' = "init" /\ pc' = "client"
          /\ given' \in Configs /\ uri' = given'.uri
          /\ ptr' = ptr /\ port' = port /\ used' = used /\ want' = want
          /\ failed' = failed /\ lost' = lost /\ misused' = misused
        BY <1>1 DEF InitCall, memory, asked
    <2>2. uri' \in Maybe(Uris)
        BY <2>1, ConfigIs
    <2>3. TypeOK'
        BY <1>a, <2>1, <2>2 DEF TypeOK, PtrTypes, FirstLabels, Maybe
    <2>4. Places'
        BY <2>1 DEF Places, UriLabels
    <2>5. Blocks'
        BY <1>a, <2>1, SameBlocks DEF Places, Blocks
    <2>6. Locks'
        BY <1>a, <2>1 DEF Locks, PanicsForLock, Early
    <2> QED
        BY <2>3, <2>4, <2>5, <2>6 DEF Sound
<1>2. CASE InitOk
    <2>1. /\ phase = "init" /\ pc = "done" /\ phase' = "stopped" /\ pc' = "idle"
          /\ given' = NULL /\ uri' = NULL /\ want' = Asked(given)
          /\ ptr' = ptr /\ port' = port /\ used' = used
          /\ failed' = failed /\ lost' = lost /\ misused' = misused
        BY <1>2 DEF InitOk, Return, memory
    <2>2. given \in Configs
        BY <1>a, <2>1 DEF Places
    <2>3. TypeOK'
        BY <1>a, <2>1, <2>2, AskedIs DEF TypeOK, PtrTypes, Maybe
    <2>4. Places'
        BY <2>1 DEF Places, UriLabels
    <2>5. Blocks'
        BY <1>a, <2>1, SameBlocks DEF Blocks
    <2>6. Locks'
        BY <1>a, <2>1 DEF Locks, PanicsForLock, Early
    <2> QED
        BY <2>3, <2>4, <2>5, <2>6 DEF Sound
<1>3. CASE InitFailed
    <2>1. /\ phase = "init" /\ pc = "fail" /\ phase' = "gone" /\ pc' = "idle"
          /\ given' = NULL /\ uri' = NULL /\ want' = want
          /\ ptr' = Empty /\ port' = NULL /\ used' = used /\ failed' = failed
          /\ lost' = IF ptr["user_info"] = NULL THEN lost
                     ELSE lost \cup {<<phase, "user_info">>}
          /\ misused' = (misused \/ \E f \in Owned : ptr[f] = Dangling)
        BY <1>3 DEF InitFailed, Return, Destroyed, asked
    <2>2. PtrTypes'
        BY <2>1 DEF Empty, PtrTypes, Pointers, Maybe, Owned, Strings
    <2>3. TypeOK'
        BY <1>a, <2>1, <2>2 DEF TypeOK, Maybe
    <2>4. Places'
        BY <2>1 DEF Places, UriLabels
    <2>5. UsesNoFreed'
        BY <1>a, <2>1 DEF Blocks, UsesNoFreed
    <2>6. LosesLittle'
        BY <1>a, <2>1 DEF Blocks, LosesLittle
    <2>7. Blocks'
        BY <2>1, <2>5, <2>6, PointersAssumption DEF Blocks, Empty, Owned
    <2>8. Locks'
        BY <1>a, <2>1 DEF Locks, PanicsForLock, Early
    <2> QED
        BY <2>3, <2>4, <2>7, <2>8 DEF Sound
<1>4. CASE InitPanics
    <2>1. /\ phase = "init" /\ pc = "fail" /\ ~Destroyable /\ phase' = "panic" /\ pc' = "idle"
          /\ given' = NULL /\ uri' = NULL /\ want' = want
          /\ ptr' = ptr /\ port' = port /\ used' = used
          /\ failed' = failed /\ lost' = lost /\ misused' = misused
        BY <1>4 DEF InitPanics, Return, memory, asked
    <2>2. TypeOK'
        BY <1>a, <2>1 DEF TypeOK, PtrTypes, Maybe
    <2>3. Places'
        BY <2>1 DEF Places, UriLabels
    <2>4. ptr["user_info"] = NULL
        BY <1>a, <2>1 DEF Locks
    <2>5. Blocks'
        BY <1>a, <2>1, <2>4, SameBlocks
    <2>6. Locks'
        BY <1>a, <2>1 DEF Locks, PanicsForLock, Early
    <2> QED
        BY <2>2, <2>3, <2>5, <2>6 DEF Sound
<1> QED
    BY <1>1, <1>2, <1>3, <1>4

\* What is wanted after set_uri().
LEMMA UriWanted ==
    ASSUME want \in Wanted, uri \in Uris, UriOk
    PROVE  /\ want'.scheme = Or(uri.scheme, want.scheme)
           /\ want'.host = Or(uri.host, want.host)
           /\ want'.path = Or(uri.path, want.path)
           /\ want'.port = Or(uri.port, want.port)
           /\ want'.username = Or(uri.username, want.username)
           /\ want'.password = Or(uri.password, want.password)
           /\ want'.headers = want.headers
           /\ want' \in Wanted
<1>1. want' = [f \in DOMAIN want |-> IF f = "headers" THEN want[f] ELSE Or(uri[f], want[f])]
    BY DEF UriOk
<1>2. DOMAIN want = {"scheme", "host", "path", "username", "password", "port", "headers"}
    BY DEF Wanted
<1>3. /\ want'["scheme"] = Or(uri["scheme"], want["scheme"])
      /\ want'["host"] = Or(uri["host"], want["host"])
      /\ want'["path"] = Or(uri["path"], want["path"])
      /\ want'["port"] = Or(uri["port"], want["port"])
      /\ want'["username"] = Or(uri["username"], want["username"])
      /\ want'["password"] = Or(uri["password"], want["password"])
      /\ want'["headers"] = want["headers"]
    BY <1>1, <1>2
<1>4. /\ Or(uri.scheme, want.scheme) \in Maybe(STRING)
      /\ Or(uri.host, want.host) \in Maybe(STRING)
      /\ Or(uri.path, want.path) \in Maybe(STRING)
      /\ Or(uri.port, want.port) \in Maybe(Nat)
      /\ Or(uri.username, want.username) \in Maybe(STRING)
      /\ Or(uri.password, want.password) \in Maybe(STRING)
      /\ want.headers \in Seq(STRING)
    BY UriIs DEF Or, Wanted
<1>5. want' = [scheme |-> want'["scheme"], host |-> want'["host"], path |-> want'["path"],
               username |-> want'["username"], password |-> want'["password"],
               port |-> want'["port"], headers |-> want'["headers"]]
    BY <1>1, <1>2
<1>6. want' \in Wanted
    BY <1>3, <1>4, <1>5 DEF Wanted
<1> QED
    BY <1>3, <1>6

\* set_uri() begins, goes through or fails.
LEMMA UriCallsSound ==
    ASSUME Sound, UriCall \/ UriOk \/ UriFailed
    PROVE  Sound'
<1>a. TypeOK /\ Places /\ Blocks /\ Locks
    BY DEF Sound
<1>1. CASE UriCall
    <2>1. /\ phase = "stopped" /\ phase' = "set_uri" /\ pc' = "parse"
          /\ uri' \in Uris /\ given' = given
          /\ ptr' = ptr /\ port' = port /\ used' = used /\ want' = want
          /\ failed' = failed /\ lost' = lost /\ misused' = misused
        BY <1>1 DEF UriCall, memory, asked
    <2>2. TypeOK'
        BY <1>a, <2>1 DEF TypeOK, PtrTypes, UriLabels, Maybe
    <2>3. Places'
        BY <2>1 DEF Places, UriLabels
    <2>4. Blocks'
        BY <1>a, <2>1, SameBlocks DEF Places, Blocks
    <2>5. Locks'
        BY <1>a, <2>1 DEF Locks, PanicsForLock, Early
    <2> QED
        BY <2>2, <2>3, <2>4, <2>5 DEF Sound
<1>2. CASE UriOk
    <2>1. /\ phase = "set_uri" /\ pc = "uri_set" /\ phase' = "stopped" /\ pc' = "idle"
          /\ given' = NULL /\ uri' = NULL
          /\ ptr' = ptr /\ port' = port /\ used' = used
          /\ failed' = failed /\ lost' = lost /\ misused' = misused
        BY <1>2 DEF UriOk, Return, memory
    <2>2. uri \in Uris
        BY <1>a, <2>1 DEF Places
    <2>3. want' \in Wanted
        BY <1>2, <1>a, <2>2, UriWanted DEF TypeOK
    <2>4. TypeOK'
        BY <1>a, <2>1, <2>3 DEF TypeOK, PtrTypes, Maybe
    <2>5. Places'
        BY <2>1 DEF Places, UriLabels
    <2>6. Blocks'
        BY <1>a, <2>1, SameBlocks DEF Blocks
    <2>7. Locks'
        BY <1>a, <2>1 DEF Locks, PanicsForLock, Early
    <2> QED
        BY <2>4, <2>5, <2>6, <2>7 DEF Sound
<1>3. CASE UriFailed
    <2>1. /\ phase = "set_uri" /\ pc = "fail" /\ phase' = "stopped" /\ pc' = "idle"
          /\ given' = NULL /\ uri' = NULL /\ want' = want
          /\ port' = port /\ used' = used /\ failed' = failed /\ misused' = misused
          /\ lost' \subseteq lost \cup {<<phase, "user_info">>}
          /\ ptr' = [ptr EXCEPT !["user_info"] = NULL]
        BY <1>3 DEF UriFailed, Return, Leak, asked
    <2>2. Only("user_info") /\ ptr'["user_info"] = NULL
        BY <1>a, <2>1 DEF TypeOK, PtrTypes, Only, Owned
    <2>3. PtrTypes'
        BY <1>a, <2>2, OnlyTypes DEF TypeOK, Owned, Pointers
    <2>4. TypeOK'
        BY <1>a, <2>1, <2>3 DEF TypeOK, Maybe
    <2>5. Places'
        BY <2>1 DEF Places, UriLabels
    <2>6. UsesNoFreed' /\ LosesLittle'
        BY <1>a, <2>1 DEF Blocks, UsesNoFreed, LosesLittle
    <2>7. \A g \in Owned : ptr'[g] = Dangling => g \in failed' \cap {"scheme", "host", "path"}
        BY <1>a, <2>1, <2>2, PointersAssumption DEF Blocks, Only
    <2>8. Blocks'
        BY <2>2, <2>6, <2>7 DEF Blocks
    <2>9. Locks'
        BY <1>a, <2>1 DEF Locks, PanicsForLock, Early
    <2> QED
        BY <2>4, <2>5, <2>8, <2>9 DEF Sound
<1> QED
    BY <1>1, <1>2, <1>3

\* A header goes after the others, or there is no memory.
LEMMA AppendSound ==
    ASSUME Sound, AppendHeader \/ AppendFailed
    PROVE  Sound'
<1>a. TypeOK /\ Places /\ Blocks /\ Locks
    BY DEF Sound
<1>b. /\ phase = "stopped" /\ phase' = phase /\ pc' = pc /\ given' = given /\ uri' = uri
      /\ port' = port /\ used' = used
    BY DEF AppendHeader, AppendFailed, asked
<1>c. pc = "idle"
    BY <1>a, <1>b DEF Places
<1>d. Places'
    BY <1>b, <1>c DEF Places, UriLabels
<1>e. Locks'
    BY <1>b, <1>c DEF Locks, PanicsForLock, Early
<1>1. CASE AppendHeader
    <2>1. /\ Free("headers") /\ failed' = failed
          /\ ptr' = [ptr EXCEPT !["headers"] = IF ptr["headers"] = NULL THEN <<"x">>
                                               ELSE Append(ptr["headers"], "x")]
          /\ want' = [want EXCEPT !.headers = Append(want.headers, "x")]
        BY <1>1 DEF AppendHeader
    <2>2. PICK v : v = IF ptr["headers"] = NULL THEN <<"x">> ELSE Append(ptr["headers"], "x")
        OBVIOUS
    <2>3. v \in Seq(STRING)
        <3>1. ptr["headers"] = NULL \/ ptr["headers"] \in Seq(STRING)
            BY <1>a DEF TypeOK, PtrTypes, Maybe
        <3>2. "x" \in STRING
            BY TextsAssumption
        <3> QED
            BY <2>2, <3>1, <3>2, HeaderIs, AppendIs
    <2>4. Only("headers") /\ ptr'["headers"] = v
        BY <1>a, <2>1, <2>2 DEF TypeOK, PtrTypes, Only, Owned, Strings
    <2>5. PtrTypes'
        BY <1>a, <2>3, <2>4, OnlyTypes DEF TypeOK, Owned, Strings, Maybe
    <2>6. want' \in Wanted
        <3>1. want \in Wanted /\ "x" \in STRING
            BY <1>a, TextsAssumption DEF TypeOK
        <3>2. want.headers \in Seq(STRING)
            BY <3>1 DEF Wanted
        <3>3. PICK w : w = Append(want.headers, "x")
            OBVIOUS
        <3>4. w \in Seq(STRING)
            BY <3>1, <3>2, <3>3, AppendIs
        <3>5. want' = [want EXCEPT !.headers = w]
            BY <2>1, <3>3, Zenon
        <3> QED
            BY <3>1, <3>4, <3>5 DEF Wanted
    <2>7. TypeOK'
        BY <1>a, <1>b, <2>5, <2>6 DEF TypeOK
    <2>8. v # Dangling
        BY <2>3, PointersAssumption
    <2>9. /\ ptr'["user_info"] = ptr["user_info"]
          /\ \A g \in Owned : ptr'[g] = Dangling => g \in failed' \cap {"scheme", "host", "path"}
        BY <1>a, <2>1, <2>4, <2>8 DEF Blocks, Only, Owned
    <2>10. UsesNoFreed' /\ LosesLittle'
        <3>1. lost' = lost /\ (misused' => misused \/ ptr["headers"] = Dangling)
            BY <2>1 DEF Free
        <3> QED
            BY <1>a, <2>1, <3>1 DEF Blocks, UsesNoFreed, LosesLittle, Owned, Strings
    <2>11. Blocks'
        BY <1>a, <1>b, <2>9, <2>10 DEF Blocks
    <2> QED
        BY <1>d, <1>e, <2>7, <2>11 DEF Sound
<1>2. CASE AppendFailed
    <2>1. /\ ptr' = ptr /\ want' = want /\ lost' = lost /\ misused' = misused
          /\ failed' = failed \cup {"headers"}
        BY <1>2 DEF AppendFailed, asked
    <2>2. TypeOK'
        BY <1>a, <1>b, <2>1 DEF TypeOK, PtrTypes
    <2>3. Blocks'
        BY <1>a, <1>b, <2>1 DEF Blocks, UsesNoFreed, LosesLittle
    <2> QED
        BY <1>d, <1>e, <2>2, <2>3 DEF Sound
<1> QED
    BY <1>1, <1>2

\* The list of transports is made anew.
LEMMA StartsSound ==
    ASSUME Sound, StartOk \/ StartFailed
    PROVE  Sound'
<1>a. TypeOK /\ Places /\ Blocks /\ Locks
    BY DEF Sound
<1>b. /\ phase = "stopped" /\ phase' \in {"stopped", "running"} /\ pc' = pc
      /\ given' = given /\ uri' = uri /\ want' = want
    BY DEF StartOk, StartFailed, asked
<1>c. pc = "idle"
    BY <1>a, <1>b DEF Places
<1>d. Places'
    BY <1>b, <1>c DEF Places, UriLabels
<1>e. Locks'
    BY <1>b, <1>c DEF Locks, PanicsForLock, Early
<1>f. /\ lost' = lost
      /\ misused' => misused \/ \E f \in Owned : ptr[f] = Dangling
    <2>1. ASSUME NEW F \in {{"scheme"}, Strings}, Follow(F)
          PROVE  lost' = lost /\ (misused' => misused \/ \E f \in Owned : ptr[f] = Dangling)
        BY <2>1 DEF Follow, Owned, Strings, Resources
    <2>2. \E F \in {{"scheme"}, Strings} : Follow(F)
        BY DEF StartOk, StartFailed
    <2> QED
        BY <2>1, <2>2
<1>g. /\ \/ ptr' = [ptr EXCEPT !["transport_list"] = "it"] /\ failed' = failed
         \/ ptr' = [ptr EXCEPT !["transport_list"] = NULL]
            /\ failed' = failed \cup {"transport_list"}
    BY DEF StartOk, StartFailed
<1>h. /\ Only("transport_list") /\ ptr'["transport_list"] \in {"it", NULL}
      /\ failed \subseteq failed'
    BY <1>a, <1>g DEF TypeOK, PtrTypes, Only, Owned, Resources
<1>i. "it" \in STRING /\ "it" # Dangling /\ NULL # Dangling
    BY TextsAssumption, PointersAssumption
<1>1. PtrTypes'
    BY <1>a, <1>h, <1>i, OnlyTypes DEF TypeOK, Owned, Resources, Pointers
<1>2. Blocks'
    <2>1. /\ ptr'["user_info"] = ptr["user_info"]
          /\ \A g \in Owned : ptr'[g] = Dangling => g \in failed' \cap {"scheme", "host", "path"}
        BY <1>a, <1>h, <1>i DEF Blocks, Only, Owned
    <2>2. UsesNoFreed' /\ LosesLittle'
        BY <1>a, <1>f, <1>h DEF Blocks, UsesNoFreed, LosesLittle
    <2> QED
        BY <1>a, <1>b, <2>1, <2>2 DEF Blocks
<1>3. /\ port' \in Maybe(Nat)
      /\ used' \in Sessions
    <2>1. CASE StartFailed
        BY <1>a, <2>1 DEF StartFailed, TypeOK
    <2>2. CASE StartOk
        <3>1. /\ port' = Or(port, DefaultPort(ptr["scheme"]))
              /\ used' = [scheme |-> ptr["scheme"], host |-> ptr["host"], path |-> ptr["path"],
                          auth |-> ptr["auth"], port |-> port',
                          headers |-> Or(ptr["headers"], <<>>)]
            BY <2>2 DEF StartOk
        <3>2. port' \in Maybe(Nat)
            BY <1>a, <3>1 DEF TypeOK, Or, Maybe, DefaultPort
        <3>3. Or(ptr["headers"], <<>>) \in Seq(STRING)
            BY <1>a, HeaderIs DEF TypeOK, PtrTypes, Or, Maybe
        <3>4. /\ ptr["scheme"] \in Pointers /\ ptr["host"] \in Pointers /\ ptr["path"] \in Pointers
              /\ ptr["auth"] \in Maybe(Seq(STRING))
            BY <1>a DEF TypeOK, PtrTypes, Owned, Strings
        <3> QED
            BY <3>1, <3>2, <3>3, <3>4 DEF Sessions
    <2> QED
        BY <2>1, <2>2
<1>4. TypeOK'
    BY <1>a, <1>b, <1>1, <1>3 DEF TypeOK
<1> QED
    BY <1>d, <1>e, <1>2, <1>4 DEF Sound

LEMMA EndsSound ==
    ASSUME Sound, Stop \/ Destroy
    PROVE  Sound'
<1>a. TypeOK /\ Places /\ Blocks /\ Locks
    BY DEF Sound
<1>1. CASE Stop
    <2>1. /\ phase = "running" /\ phase' = "stopped" /\ pc' = pc /\ given' = given /\ uri' = uri
          /\ ptr' = ptr /\ port' = port /\ used' = used /\ want' = want
          /\ failed' = failed /\ lost' = lost /\ misused' = misused
        BY <1>1 DEF Stop, memory, asked
    <2>2. pc = "idle"
        BY <1>a, <2>1 DEF Places
    <2>3. TypeOK'
        BY <1>a, <2>1 DEF TypeOK, PtrTypes
    <2>4. Places'
        BY <2>1, <2>2 DEF Places, UriLabels
    <2>5. Blocks'
        BY <1>a, <2>1, SameBlocks DEF Blocks
    <2>6. Locks'
        BY <2>1, <2>2 DEF Locks, PanicsForLock, Early
    <2> QED
        BY <2>3, <2>4, <2>5, <2>6 DEF Sound
<1>2. CASE Destroy
    <2>1. /\ phase \in {"stopped", "running"} /\ phase' = "gone" /\ pc' = pc
          /\ given' = given /\ uri' = uri /\ want' = want
          /\ ptr' = Empty /\ port' = NULL /\ used' = used /\ failed' = failed /\ lost' = lost
          /\ misused' = (misused \/ \E f \in Owned : ptr[f] = Dangling)
        BY <1>2 DEF Destroy, Destroyed, asked
    <2>2. pc = "idle"
        BY <1>a, <2>1 DEF Places
    <2>3. PtrTypes'
        BY <2>1 DEF Empty, PtrTypes, Pointers, Maybe, Owned, Strings
    <2>4. TypeOK'
        BY <1>a, <2>1, <2>3 DEF TypeOK, Maybe
    <2>5. Places'
        BY <2>1, <2>2 DEF Places, UriLabels
    <2>6. UsesNoFreed' /\ LosesLittle'
        BY <1>a, <2>1 DEF Blocks, UsesNoFreed, LosesLittle
    <2>7. Blocks'
        BY <2>1, <2>6, PointersAssumption DEF Blocks, Empty, Owned
    <2>8. Locks'
        BY <2>1, <2>2 DEF Locks, PanicsForLock, Early
    <2> QED
        BY <2>4, <2>5, <2>7, <2>8 DEF Sound
<1> QED
    BY <1>1, <1>2

LEMMA NextSound ==
    ASSUME Sound, [Next]_vars
    PROVE  Sound'
<1>1. CASE InitStep \/ ConfigStep \/ UriStep
    BY <1>1, StepSound
<1>2. CASE InitCall \/ InitOk \/ InitFailed \/ InitPanics
    BY <1>2, InitCallsSound
<1>3. CASE UriCall \/ UriOk \/ UriFailed
    BY <1>3, UriCallsSound
<1>4. CASE AppendHeader \/ AppendFailed
    BY <1>4, AppendSound
<1>5. CASE StartOk \/ StartFailed
    BY <1>5, StartsSound
<1>6. CASE Stop \/ Destroy
    BY <1>6, EndsSound
<1>7. CASE UNCHANGED vars
    <2>1. /\ phase' = phase /\ pc' = pc /\ given' = given /\ uri' = uri
          /\ ptr' = ptr /\ port' = port /\ used' = used /\ want' = want
          /\ failed' = failed /\ lost' = lost /\ misused' = misused
        BY <1>7 DEF vars, memory, asked
    <2>2. TypeOK' /\ Places'
        BY <2>1 DEF Sound, TypeOK, PtrTypes, Places
    <2>3. Blocks'
        BY <2>1, SameBlocks DEF Sound, Blocks
    <2>4. Locks'
        BY <2>1 DEF Sound, Locks, PanicsForLock, Destroyable
    <2> QED
        BY <2>2, <2>3, <2>4 DEF Sound
<1> QED
    BY <1>1, <1>2, <1>3, <1>4, <1>5, <1>6, <1>7 DEF Next

-----------------------------------------------------------------------------
(* A client has what was asked for.                                        *)

\* An allocation that fails is remembered.
LEMMA MemoryLasts ==
    ASSUME failed' = {}, NEW f, NEW v, NEW m,
           Gets(f, v, m) \/ Misses(f) \/ Dangles(f, m)
    PROVE  failed = {} /\ pc' = m /\ ptr'[f] = Or(v, ptr[f])
BY DEF Gets, Misses, Dangles

LEMMA UriStepLatest ==
    ASSUME Sound, Latest, UriStep, failed' = {}
    PROVE  /\ failed = {} /\ UriSoFar' /\ ptr'["auth"] = ptr["auth"]
           /\ pc' \in UriLabels \/ (pc' = "fail" /\ pc = "parse" /\ ptr' = ptr /\ port' = port)
<1> USE DEF UriLabels
<1>a. /\ TypeOK /\ Places /\ Blocks /\ DOMAIN ptr = Owned
      /\ pc \in UriLabels \ {"uri_set"} /\ uri \in Uris
    <2>1. TypeOK /\ Places /\ Blocks
        BY DEF Sound
    <2>2. pc \in UriLabels \ {"uri_set"}
        BY Zenon DEF UriStep
    <2> QED
        BY <2>1, <2>2 DEF Places, TypeOK, PtrTypes
<1>b. /\ phase' = phase /\ given' = given /\ uri' = uri /\ used' = used
      /\ want' = want /\ first' = first
      /\ port' = IF pc = "uri_port" THEN PortOf(uri) ELSE port
    BY DEF UriStep, asked
<1>c. Previous' = Previous
    BY <1>b DEF Previous
<1>d. failed = {} => UriSoFar
    BY DEF Latest
<1>e. uri.password # NULL => uri.username # NULL
    BY <1>a, UriIs
<1>1. CASE pc = "uri_scheme" /\ Format("scheme", uri.scheme, "uri_host")
    <2>1. /\ Only("scheme") /\ failed = {} /\ pc' = "uri_host"
          /\ ptr'["scheme"] = Or(uri.scheme, ptr["scheme"])
        BY <1>a, <1>1, FormatDoes, MemoryLasts DEF Owned, Strings
    <2>2. UriSoFar'
        BY <1>b, <1>c, <1>d, <1>1, <2>1 DEF UriSoFar, Or, Only, Owned, Strings, PortIs
    <2> QED
        BY <2>1, <2>2 DEF Only, Owned, Strings
<1>2. CASE pc = "uri_host" /\ Format("host", uri.host, "uri_path")
    <2>1. /\ Only("host") /\ failed = {} /\ pc' = "uri_path"
          /\ ptr'["host"] = Or(uri.host, ptr["host"])
        BY <1>a, <1>2, FormatDoes, MemoryLasts DEF Owned, Strings
    <2>2. UriSoFar'
        BY <1>b, <1>c, <1>d, <1>2, <2>1 DEF UriSoFar, Or, Only, Owned, Strings, PortIs
    <2> QED
        BY <2>1, <2>2 DEF Only, Owned, Strings
<1>3. CASE pc = "uri_path" /\ Format("path", uri.path, "uri_port")
    <2>1. /\ Only("path") /\ failed = {} /\ pc' = "uri_port"
          /\ ptr'["path"] = Or(uri.path, ptr["path"])
        BY <1>a, <1>3, FormatDoes, MemoryLasts DEF Owned, Strings
    <2>2. UriSoFar'
        BY <1>b, <1>c, <1>d, <1>3, <2>1 DEF UriSoFar, Or, Only, Owned, Strings, PortIs
    <2> QED
        BY <2>1, <2>2 DEF Only, Owned, Strings
<1>4. CASE pc = "user_info" /\ Format("user_info", "user:password", "uri_password")
    <2>1. /\ Only("user_info") /\ failed = {} /\ pc' = "uri_password"
          /\ ptr'["user_info"] = Or("user:password", ptr["user_info"])
        BY <1>a, <1>4, FormatDoes, MemoryLasts DEF Owned, Strings
    <2>2. UriSoFar'
        BY <1>b, <1>c, <1>d, <1>4, <2>1 DEF UriSoFar, Or, Only, Owned, Strings, PortIs
    <2> QED
        BY <2>1, <2>2 DEF Only, Owned, Strings
<1>5. CASE pc = "uri_password" /\ Set("password", uri.password, "uri_username")
    <2>1. /\ Only("password") /\ failed = {} /\ pc' = "uri_username"
          /\ ptr'["password"] = Or(uri.password, ptr["password"])
        BY <1>a, <1>5, SetDoes, MemoryLasts DEF Owned, Strings
    <2>2. UriSoFar'
        BY <1>b, <1>c, <1>d, <1>5, <2>1 DEF UriSoFar, Or, Only, Owned, Strings, PortIs
    <2> QED
        BY <2>1, <2>2 DEF Only, Owned, Strings
<1>6. CASE pc = "uri_username" /\ Set("username", uri.username, "free_info")
    <2>1. /\ Only("username") /\ failed = {} /\ pc' = "free_info"
          /\ ptr'["username"] = Or(uri.username, ptr["username"])
        BY <1>a, <1>6, SetDoes, MemoryLasts DEF Owned, Strings
    <2>2. UriSoFar'
        BY <1>b, <1>c, <1>d, <1>6, <2>1 DEF UriSoFar, Or, Only, Owned, Strings, PortIs
    <2> QED
        BY <2>1, <2>2 DEF Only, Owned, Strings
<1>7. CASE pc = "parse" /\ Skip(IF uri.valid THEN "uri_scheme" ELSE "fail")
    <2>1. /\ failed = {} /\ ptr' = ptr /\ port' = port
          /\ pc' = IF uri.valid THEN "uri_scheme" ELSE "fail"
        BY <1>b, <1>7, SkipDoes
    <2>2. UriSoFar'
        BY <1>b, <1>c, <1>d, <1>7, <2>1 DEF UriSoFar, Or, PortIs
    <2> QED
        BY <1>7, <2>1, <2>2
<1>8. CASE pc = "uri_port" /\ Skip(IF uri.username # NULL THEN "user_info" ELSE "uri_set")
    <2>1. /\ failed = {} /\ ptr' = ptr
          /\ pc' = IF uri.username # NULL THEN "user_info" ELSE "uri_set"
        BY <1>8, SkipDoes
    <2>2. port' = Or(uri.port, port)
        BY <1>b, <1>8 DEF PortOf
    <2>3. UriSoFar'
        BY <1>b, <1>c, <1>d, <1>e, <1>8, <2>1, <2>2 DEF UriSoFar, Or, PortIs
    <2> QED
        BY <1>8, <2>1, <2>3
<1>9. CASE /\ pc = "free_info" /\ failed' = failed
           /\ ptr' = [ptr EXCEPT !["user_info"] = NULL] /\ pc' = "uri_set"
    <2>1. \A f \in Strings : ptr'[f] = ptr[f]
        BY <1>a, <1>9 DEF Owned, Strings
    <2>2. failed = {} /\ port' = port
        BY <1>b, <1>9
    <2>3. UriSoFar'
        BY <1>b, <1>c, <1>d, <1>9, <2>1, <2>2 DEF UriSoFar, Or, PortIs, Strings
    <2> QED
        BY <1>9, <2>1, <2>2, <2>3 DEF Strings
<1> QED
    <2>1. \/ pc = "parse" /\ Skip(IF uri.valid THEN "uri_scheme" ELSE "fail")
          \/ pc = "uri_scheme" /\ Format("scheme", uri.scheme, "uri_host")
          \/ pc = "uri_host" /\ Format("host", uri.host, "uri_path")
          \/ pc = "uri_path" /\ Format("path", uri.path, "uri_port")
          \/ pc = "user_info" /\ Format("user_info", "user:password", "uri_password")
          \/ pc = "uri_password" /\ Set("password", uri.password, "uri_username")
          \/ pc = "uri_username" /\ Set("username", uri.username, "free_info")
          \/ /\ pc = "uri_port"
             /\ Skip(IF uri.username # NULL THEN "user_info" ELSE "uri_set")
          \/ /\ pc = "free_info" /\ failed' = failed
             /\ ptr' = [ptr EXCEPT !["user_info"] = NULL] /\ pc' = "uri_set"
        BY Zenon DEF UriStep
    <2> QED
        BY <2>1, <1>1, <1>2, <1>3, <1>4, <1>5, <1>6, <1>7, <1>8, <1>9

LEMMA ConfigStepLatest ==
    ASSUME Sound, Latest, ConfigStep, failed' = {}
    PROVE  failed = {} /\ ConfigSoFar' /\ pc' \in ConfigLabels \cup LastLabels
<1> USE DEF ConfigLabels, LastLabels
<1>a. /\ TypeOK /\ Places /\ DOMAIN ptr = Owned /\ pc \in ConfigLabels /\ given \in Configs
      /\ pc \in {"subprotocol", "user_agent", "headers"} => given.extras
    <2>1. TypeOK /\ Places
        BY DEF Sound
    <2>2. pc \in ConfigLabels
        BY Zenon DEF ConfigStep
    <2>3. phase = "init"
        BY <2>1, <2>2 DEF Places, UriLabels
    <2> QED
        BY <2>1, <2>2, <2>3 DEF Places, TypeOK, PtrTypes
<1>b. /\ phase' = phase /\ given' = given /\ uri' = uri /\ used' = used
      /\ first' = first /\ OfUri' = OfUri
      /\ port' = IF pc = "port" THEN Or(given.port, port) ELSE port
    BY DEF ConfigStep, OfUri
<1>c. failed = {} => ConfigSoFar
    BY DEF Latest
<1>d. PICK a : a = Asked(given)
    OBVIOUS
<1>e. /\ a.host = Or(given.host, OfUri.host) /\ a.path = Or(given.path, OfUri.path)
      /\ a.port = Or(given.port, OfUri.port)
      /\ a.username = Or(given.username, OfUri.username)
      /\ a.password = Or(given.password, OfUri.password)
      /\ a.headers = IF given.extras THEN <<"h">> ELSE <<>>
    <2>1. uri = given.uri
        BY <1>a DEF Places, UriLabels
    <2> QED
        BY <1>d, <2>1 DEF Asked, OfUri
<1>f. Asked(given)' = a
    BY <1>b, <1>d DEF Asked
<1>1. CASE pc = "username" /\ Set("username", given.username, "password")
    <2>1. /\ Only("username") /\ failed = {} /\ pc' = "password"
          /\ ptr'["username"] = Or(given.username, ptr["username"])
        BY <1>a, <1>1, SetDoes, MemoryLasts DEF Owned, Strings
    <2>2. ConfigSoFar'
        BY <1>a, <1>b, <1>c, <1>d, <1>e, <1>f, <1>1, <2>1
           DEF ConfigSoFar, Or, Only, Owned, Strings, PortIs
    <2> QED
        BY <2>1, <2>2
<1>2. CASE pc = "password" /\ Set("password", given.password, "auth")
    <2>1. /\ Only("password") /\ failed = {} /\ pc' = "auth"
          /\ ptr'["password"] = Or(given.password, ptr["password"])
        BY <1>a, <1>2, SetDoes, MemoryLasts DEF Owned, Strings
    <2>2. ConfigSoFar'
        BY <1>a, <1>b, <1>c, <1>d, <1>e, <1>f, <1>2, <2>1
           DEF ConfigSoFar, Or, Only, Owned, Strings, PortIs
    <2> QED
        BY <2>1, <2>2
<1>3. CASE pc = "uri" /\ Set("uri", (IF given.uri = NULL THEN NULL ELSE "uri"), "path")
    <2>1. /\ Only("uri") /\ failed = {} /\ pc' = "path"
          /\ ptr'["uri"] = Or((IF given.uri = NULL THEN NULL ELSE "uri"), ptr["uri"])
        BY <1>a, <1>3, SetDoes, MemoryLasts DEF Owned, Strings
    <2>2. ConfigSoFar'
        BY <1>a, <1>b, <1>c, <1>d, <1>e, <1>f, <1>3, <2>1
           DEF ConfigSoFar, Or, Only, Owned, Strings, PortIs
    <2> QED
        BY <2>1, <2>2
<1>4. CASE /\ pc = "path"
           /\ Set("path", given.path,
                  (IF given.extras THEN "subprotocol" ELSE "default_scheme"))
    <2>1. PICK m : m = (IF given.extras THEN "subprotocol" ELSE "default_scheme")
        OBVIOUS
    <2>2. Set("path", given.path, m)
        BY <1>4, <2>1
    <2>3. /\ Only("path") /\ failed = {} /\ pc' = m
          /\ ptr'["path"] = Or(given.path, ptr["path"])
        BY <1>a, <2>2, SetDoes, MemoryLasts DEF Owned, Strings
    <2>4. ConfigSoFar'
        BY <1>a, <1>b, <1>c, <1>d, <1>e, <1>f, <1>4, <2>1, <2>3
           DEF ConfigSoFar, Or, Only, Owned, Strings, PortIs
    <2> QED
        BY <2>1, <2>3, <2>4
<1>5. CASE pc = "subprotocol" /\ Set("subprotocol", "s", "user_agent")
    <2>1. /\ Only("subprotocol") /\ failed = {} /\ pc' = "user_agent"
          /\ ptr'["subprotocol"] = Or("s", ptr["subprotocol"])
        BY <1>a, <1>5, SetDoes, MemoryLasts DEF Owned, Strings
    <2>2. ConfigSoFar'
        BY <1>a, <1>b, <1>c, <1>d, <1>e, <1>f, <1>5, <2>1
           DEF ConfigSoFar, Or, Only, Owned, Strings, PortIs
    <2> QED
        BY <2>1, <2>2
<1>6. CASE pc = "user_agent" /\ Set("user_agent", "a", "headers")
    <2>1. /\ Only("user_agent") /\ failed = {} /\ pc' = "headers"
          /\ ptr'["user_agent"] = Or("a", ptr["user_agent"])
        BY <1>a, <1>6, SetDoes, MemoryLasts DEF Owned, Strings
    <2>2. ConfigSoFar'
        BY <1>a, <1>b, <1>c, <1>d, <1>e, <1>f, <1>6, <2>1
           DEF ConfigSoFar, Or, Only, Owned, Strings, PortIs
    <2> QED
        BY <2>1, <2>2
<1>7. CASE pc = "host" /\ Add("host", given.host, "port")
    <2>1. /\ Only("host") /\ failed = {} /\ pc' = "port"
          /\ ptr'["host"] = Or(given.host, ptr["host"])
        BY <1>a, <1>7, AddDoes, MemoryLasts DEF Owned, Strings
    <2>2. ConfigSoFar'
        BY <1>a, <1>b, <1>c, <1>d, <1>e, <1>f, <1>7, <2>1
           DEF ConfigSoFar, Or, Only, Owned, Strings, PortIs
    <2> QED
        BY <2>1, <2>2
<1>8. CASE pc = "port" /\ Skip("username")
    <2>1. failed = {} /\ ptr' = ptr /\ pc' = "username" /\ port' = Or(given.port, port)
        BY <1>b, <1>8, SkipDoes
    <2>2. ConfigSoFar'
        BY <1>b, <1>c, <1>d, <1>e, <1>f, <1>8, <2>1 DEF ConfigSoFar, Or, PortIs
    <2> QED
        BY <2>1, <2>2
<1>9. CASE pc = "auth" /\ SetAuth("uri")
    <2>1. /\ Only("auth") /\ failed = {} /\ pc' = "uri" /\ port' = port
          /\ ptr'["auth"] = IF NULL \in {ptr["username"], ptr["password"]} THEN ptr["auth"]
                            ELSE <<ptr["username"], ptr["password"]>>
        BY <1>a, <1>b, <1>9, SetAuthDoes DEF Misses
    <2>2. /\ ptr["auth"] = NULL /\ ptr["username"] = a.username
          /\ ptr["password"] = a.password
        BY <1>c, <1>d, <1>9, <2>1 DEF ConfigSoFar
    <2>3. ptr'["auth"] = Credentials(a.username, a.password)
        BY <2>1, <2>2 DEF Credentials
    <2>4. ConfigSoFar'
        BY <1>b, <1>c, <1>d, <1>f, <1>9, <2>1, <2>3
           DEF ConfigSoFar, Only, Owned, Strings, PortIs
    <2> QED
        BY <2>1, <2>4
<1>10. CASE pc = "headers" /\ Set("headers", <<"h">>, "default_scheme")
    <2>1. /\ Only("headers") /\ failed = {} /\ pc' = "default_scheme"
          /\ ptr'["headers"] = Or(<<"h">>, ptr["headers"])
        BY <1>a, <1>10, SetDoes, MemoryLasts DEF Owned, Strings
    <2>2. <<"h">> # NULL
        BY HeaderIs, PointersAssumption
    <2>3. Or(ptr'["headers"], <<>>) = a.headers
        BY <1>a, <1>e, <1>10, <2>1, <2>2 DEF Or
    <2>4. ConfigSoFar'
        BY <1>b, <1>c, <1>d, <1>f, <1>10, <2>1, <2>3
           DEF ConfigSoFar, Only, Owned, Strings, PortIs
    <2> QED
        BY <2>1, <2>4
<1> QED
    <2>1. \/ pc = "port" /\ Skip("username")
          \/ pc = "auth" /\ SetAuth("uri")
          \/ pc = "headers" /\ Set("headers", <<"h">>, "default_scheme")
          \/ pc = "username" /\ Set("username", given.username, "password")
          \/ pc = "password" /\ Set("password", given.password, "auth")
          \/ pc = "uri" /\ Set("uri", (IF given.uri = NULL THEN NULL ELSE "uri"), "path")
          \/ /\ pc = "path"
             /\ Set("path", given.path,
                    (IF given.extras THEN "subprotocol" ELSE "default_scheme"))
          \/ pc = "subprotocol" /\ Set("subprotocol", "s", "user_agent")
          \/ pc = "user_agent" /\ Set("user_agent", "a", "headers")
          \/ pc = "host" /\ Add("host", given.host, "port")
        BY Zenon DEF ConfigStep
    <2> QED
        BY <2>1, <1>1, <1>2, <1>3, <1>4, <1>5, <1>6, <1>7, <1>8, <1>9, <1>10

LEMMA InitStepLatest ==
    ASSUME Sound, Latest, InitStep, failed' = {}
    PROVE  /\ failed = {} /\ pc' \in FirstLabels \cup LastLabels \cup {"host", "parse"}
           /\ pc' \in FirstLabels => port' = NULL /\ \A f \in Strings : ptr'[f] = NULL
           /\ pc' = "parse" => UriSoFar' /\ ptr'["auth"] = NULL
           /\ pc' \in ConfigLabels \cup LastLabels => ConfigSoFar'
<1> USE DEF FirstLabels, LastLabels, ConfigLabels
<1>a. /\ TypeOK /\ Places /\ DOMAIN ptr = Owned /\ given \in Configs /\ phase = "init"
      /\ uri = given.uri
    <2>1. TypeOK /\ Places
        BY DEF Sound
    <2>2. phase = "init"
        BY DEF InitStep
    <2> QED
        BY <2>1, <2>2 DEF Places, TypeOK, PtrTypes
<1>b. /\ phase' = phase /\ given' = given /\ uri' = uri /\ used' = used
      /\ want' = want /\ first' = first /\ port' = port
      /\ OfUri' = OfUri /\ Previous' = Previous
    BY DEF InitStep, OfUri, asked, Previous
<1>c. failed = {} =>
         /\ pc \in FirstLabels => port = NULL /\ \A f \in Strings : ptr[f] = NULL
         /\ pc \in UriLabels => ptr["auth"] = NULL
         /\ UriSoFar /\ ConfigSoFar
    BY <1>a DEF Latest
<1>d. PICK a : a = Asked(given)
    OBVIOUS
<1>e. a.scheme = Or(OfUri.scheme, Or(given.transport, "ws"))
    BY <1>a, <1>d DEF Asked, OfUri
<1>f. Asked(given)' = a
    BY <1>b, <1>d DEF Asked
<1>g. "ws" # NULL
    BY TextsAssumption, PointersAssumption
<1>h. first' = NULL
    BY <1>b DEF InitStep, Latest
<1>1. CASE pc = "client" /\ Set("client", "it", "event_handle")
    <2>1. Only("client") /\ failed = {} /\ pc' = "event_handle"
        BY <1>a, <1>1, SetDoes, MemoryLasts DEF Owned, Resources
    <2>2. port' = NULL /\ \A g \in Strings : ptr'[g] = NULL
        BY <1>b, <1>c, <1>1, <2>1 DEF Only, Owned, Strings
    <2> QED
        BY <2>1, <2>2
<1>2. CASE /\ pc = "event_handle"
           /\ Set("event_handle", "it", (IF given.extras THEN "if_name" ELSE "lock"))
    <2>1. PICK m : m = (IF given.extras THEN "if_name" ELSE "lock")
        OBVIOUS
    <2>2. Set("event_handle", "it", m)
        BY <1>2, <2>1
    <2>3. /\ Only("event_handle") /\ failed = {} /\ pc' = m
          /\ ptr'["event_handle"] = Or("it", ptr["event_handle"])
        BY <1>a, <2>2, SetDoes, MemoryLasts DEF Owned, Strings, Resources
    <2>4. port' = NULL /\ \A g \in Strings : ptr'[g] = NULL
        BY <1>b, <1>c, <1>2, <2>3 DEF Only, Owned, Strings
    <2> QED
        BY <2>1, <2>3, <2>4
<1>3. CASE pc = "if_name" /\ Set("if_name", "it", "lock")
    <2>1. Only("if_name") /\ failed = {} /\ pc' = "lock"
        BY <1>a, <1>3, SetDoes, MemoryLasts DEF Owned, Resources
    <2>2. port' = NULL /\ \A g \in Strings : ptr'[g] = NULL
        BY <1>b, <1>c, <1>3, <2>1 DEF Only, Owned, Strings
    <2> QED
        BY <2>1, <2>2
<1>4. CASE pc = "lock" /\ Set("lock", "it", "config")
    <2>1. Only("lock") /\ failed = {} /\ pc' = "config"
        BY <1>a, <1>4, SetDoes, MemoryLasts DEF Owned, Resources
    <2>2. port' = NULL /\ \A g \in Strings : ptr'[g] = NULL
        BY <1>b, <1>c, <1>4, <2>1 DEF Only, Owned, Strings
    <2> QED
        BY <2>1, <2>2
<1>5. CASE pc = "config" /\ Set("config", "it", "transport")
    <2>1. Only("config") /\ failed = {} /\ pc' = "transport"
        BY <1>a, <1>5, SetDoes, MemoryLasts DEF Owned, Resources
    <2>2. port' = NULL /\ \A g \in Strings : ptr'[g] = NULL
        BY <1>b, <1>c, <1>5, <2>1 DEF Only, Owned, Strings
    <2> QED
        BY <2>1, <2>2
<1>6. CASE /\ pc = "transport"
           /\ Format("scheme", given.transport, (IF uri = NULL THEN "host" ELSE "parse"))
    <2>1. PICK m : m = (IF uri = NULL THEN "host" ELSE "parse")
        OBVIOUS
    <2>2. Format("scheme", given.transport, m)
        BY <1>6, <2>1
    <2>3. /\ Only("scheme") /\ failed = {} /\ pc' = m
          /\ ptr'["scheme"] = Or(given.transport, ptr["scheme"])
        BY <1>a, <2>2, FormatDoes, MemoryLasts DEF Owned, Strings, Resources
    <2>4. /\ port' = NULL /\ \A g \in Strings \ {"scheme"} : ptr'[g] = NULL
          /\ ptr'["scheme"] = given.transport
        BY <1>b, <1>c, <1>6, <2>3 DEF Only, Or, Owned, Strings
    <2>5. CASE uri = NULL
        <3>1. OfUri = Options
            BY <2>5 DEF OfUri
        <3>2. ConfigSoFar'
            BY <1>b, <1>f, <1>h, <2>1, <2>3, <2>4, <2>5, <3>1
               DEF ConfigSoFar, Or, PortIs, Strings, Options
        <3> QED
            BY <2>1, <2>3, <2>5, <3>2
    <2>6. CASE uri # NULL
        <3>1. Previous = [Options EXCEPT !.scheme = given.transport]
            BY <1>a DEF Previous
        <3>2. /\ Previous.scheme = given.transport /\ Previous.host = NULL
              /\ Previous.path = NULL /\ Previous.port = NULL
              /\ Previous.username = NULL /\ Previous.password = NULL
              /\ Previous.headers = <<>>
            BY <3>1 DEF Options
        <3>3. UriSoFar'
            BY <1>b, <1>h, <2>1, <2>3, <2>4, <2>6, <3>2
               DEF UriSoFar, Or, PortIs, Strings, UriLabels
        <3> QED
            BY <2>1, <2>3, <2>4, <2>6, <3>3 DEF Strings
    <2> QED
        BY <2>5, <2>6
<1>7. CASE pc = "rx_buffer" /\ Set("rx_buffer", "it", "tx_buffer")
    <2>1. Only("rx_buffer") /\ failed = {} /\ pc' = "tx_buffer"
        BY <1>a, <1>7, SetDoes, MemoryLasts DEF Owned, Resources
    <2>2. ConfigSoFar'
        BY <1>b, <1>c, <1>d, <1>f, <1>7, <2>1
           DEF ConfigSoFar, Only, Owned, Strings, PortIs
    <2> QED
        BY <2>1, <2>2
<1>8. CASE pc = "tx_buffer" /\ Set("tx_buffer", "it", "status_bits")
    <2>1. Only("tx_buffer") /\ failed = {} /\ pc' = "status_bits"
        BY <1>a, <1>8, SetDoes, MemoryLasts DEF Owned, Resources
    <2>2. ConfigSoFar'
        BY <1>b, <1>c, <1>d, <1>f, <1>8, <2>1
           DEF ConfigSoFar, Only, Owned, Strings, PortIs
    <2> QED
        BY <2>1, <2>2
<1>9. CASE pc = "status_bits" /\ Set("status_bits", "it", "done")
    <2>1. Only("status_bits") /\ failed = {} /\ pc' = "done"
        BY <1>a, <1>9, SetDoes, MemoryLasts DEF Owned, Resources
    <2>2. ConfigSoFar'
        BY <1>b, <1>c, <1>d, <1>f, <1>9, <2>1
           DEF ConfigSoFar, Only, Owned, Strings, PortIs
    <2> QED
        BY <2>1, <2>2
<1>10. CASE /\ pc = "default_scheme" /\ ptr["scheme"] = NULL
            /\ Format("scheme", "ws", "rx_buffer")
    <2>1. Only("scheme") /\ failed = {} /\ pc' = "rx_buffer" /\ ptr'["scheme"] = "ws"
        BY <1>a, <1>g, <1>10, FormatDoes, MemoryLasts DEF Owned, Strings, Or
    <2>2. a.scheme = "ws"
        BY <1>c, <1>e, <1>10, <2>1 DEF ConfigSoFar, Or
    <2>3. ConfigSoFar'
        BY <1>b, <1>c, <1>d, <1>f, <1>10, <2>1, <2>2
           DEF ConfigSoFar, Only, Owned, Strings, PortIs
    <2> QED
        BY <2>1, <2>3
<1>11. CASE pc = "default_scheme" /\ ptr["scheme"] # NULL /\ Skip("rx_buffer")
    <2>1. ptr' = ptr /\ failed = {} /\ pc' = "rx_buffer"
        BY <1>11, SkipDoes
    <2>2. a.scheme = ptr["scheme"]
        BY <1>c, <1>e, <1>11, <2>1 DEF ConfigSoFar, Or
    <2>3. ConfigSoFar'
        BY <1>b, <1>c, <1>d, <1>f, <1>11, <2>1, <2>2 DEF ConfigSoFar, PortIs
    <2> QED
        BY <2>1, <2>3
<1>12. CASE pc = "uri_set" /\ Skip("host")
    <2>1. ptr' = ptr /\ failed = {} /\ pc' = "host"
        BY <1>12, SkipDoes
    <2>2. uri \in Uris
        BY <1>a, <1>12 DEF Places, UriLabels
    <2>3. OfUri = uri
        BY <2>2, UriIs DEF OfUri
    <2>4. Previous = [Options EXCEPT !.scheme = given.transport]
        BY <1>a DEF Previous
    <2>5. /\ Previous.scheme = given.transport /\ Previous.host = NULL
          /\ Previous.path = NULL /\ Previous.port = NULL
          /\ Previous.username = NULL /\ Previous.password = NULL
          /\ Previous.headers = <<>>
        BY <2>4 DEF Options
    <2>6. UriSoFar /\ ptr["auth"] = NULL
        BY <1>c, <1>12, <2>1 DEF UriLabels
    <2>7. ConfigSoFar'
        BY <1>b, <1>f, <1>12, <2>1, <2>3, <2>5, <2>6
           DEF ConfigSoFar, UriSoFar, Or, PortIs, UriLabels
    <2> QED
        BY <2>1, <2>7
<1> QED
    <2>1. \/ pc = "default_scheme" /\ ptr["scheme"] # NULL /\ Skip("rx_buffer")
          \/ /\ pc = "default_scheme" /\ ptr["scheme"] = NULL
             /\ Format("scheme", "ws", "rx_buffer")
          \/ pc = "uri_set" /\ Skip("host")
          \/ pc = "client" /\ Set("client", "it", "event_handle")
          \/ /\ pc = "event_handle"
             /\ Set("event_handle", "it", (IF given.extras THEN "if_name" ELSE "lock"))
          \/ pc = "if_name" /\ Set("if_name", "it", "lock")
          \/ pc = "lock" /\ Set("lock", "it", "config")
          \/ pc = "config" /\ Set("config", "it", "transport")
          \/ /\ pc = "transport"
             /\ Format("scheme", given.transport,
                       (IF uri = NULL THEN "host" ELSE "parse"))
          \/ pc = "rx_buffer" /\ Set("rx_buffer", "it", "tx_buffer")
          \/ pc = "tx_buffer" /\ Set("tx_buffer", "it", "status_bits")
          \/ pc = "status_bits" /\ Set("status_bits", "it", "done")
        BY Zenon DEF InitStep
    <2> QED
        BY <2>1, <1>1, <1>2, <1>3, <1>4, <1>5, <1>6, <1>7, <1>8, <1>9, <1>10, <1>11, <1>12

LEMMA InitLatest == Init => Latest
<1> SUFFICES ASSUME Init PROVE Latest
    OBVIOUS
<1>1. /\ phase = "none" /\ pc = "idle" /\ ptr = Empty /\ port = NULL
      /\ used = Session /\ first = NULL
    BY Zenon DEF Init
<1>2. UriSoFar /\ ConfigSoFar
    BY <1>1 DEF UriSoFar, ConfigSoFar, UriLabels, ConfigLabels, LastLabels
<1>3. UsesAsked
    BY <1>1 DEF UsesAsked
<1> QED
    BY <1>1, <1>2, <1>3 DEF Latest, Settled, FirstLabels, UriLabels

LEMMA StepLatest ==
    ASSUME Sound, Latest, InitStep \/ ConfigStep \/ UriStep
    PROVE  Latest'
<1>a. TypeOK /\ Places /\ Places'
    BY StepSound DEF Sound
<1>b. /\ phase' = phase /\ given' = given /\ uri' = uri /\ used' = used /\ want' = want
      /\ told' = told /\ twice' = twice /\ first' = first /\ phase \in {"init", "set_uri"}
    <2>1. /\ phase' = phase /\ given' = given /\ uri' = uri /\ used' = used /\ want' = want
          /\ told' = told /\ twice' = twice /\ first' = first
        BY DEF InitStep, ConfigStep, UriStep, asked
    <2>2. phase = "init" \/ pc \in ConfigLabels \/ pc \in UriLabels
        BY Zenon DEF InitStep, ConfigStep, UriStep, ConfigLabels, UriLabels
    <2> QED
        BY <1>a, <2>1, <2>2 DEF Places, ConfigLabels, UriLabels
<1>c. /\ phase' \in {"none", "init"} => used' = Session /\ first' = NULL
      /\ UsesAsked'
    BY <1>b, Zenon DEF Latest, UsesAsked
<1>1. CASE failed' # {}
    BY <1>c, <1>1 DEF Latest
<1>2. CASE failed' = {} /\ InitStep
    <2>1. /\ failed = {} /\ pc' \in FirstLabels \cup LastLabels \cup {"host", "parse"}
          /\ pc' \in FirstLabels => port' = NULL /\ \A f \in Strings : ptr'[f] = NULL
          /\ pc' = "parse" => UriSoFar' /\ ptr'["auth"] = NULL
          /\ pc' \in ConfigLabels \cup LastLabels => ConfigSoFar'
        BY <1>2, InitStepLatest
    <2>2. phase' = "init"
        BY <1>b, <1>2 DEF InitStep
    <2>3. UriSoFar'
        BY <2>1 DEF UriSoFar, UriLabels, FirstLabels, LastLabels
    <2>4. ConfigSoFar'
        BY <2>1 DEF ConfigSoFar
    <2>5. pc' \in UriLabels => ptr'["auth"] = NULL
        BY <2>1 DEF UriLabels, FirstLabels, LastLabels
    <2> QED
        BY <1>c, <2>1, <2>2, <2>3, <2>4, <2>5 DEF Latest, Settled
<1>3. CASE failed' = {} /\ ConfigStep
    <2>1. failed = {} /\ ConfigSoFar' /\ pc' \in ConfigLabels \cup LastLabels
        BY <1>3, ConfigStepLatest
    <2>2. phase' = "init"
        <3>1. pc \in ConfigLabels
            BY <1>3, Zenon DEF ConfigStep, ConfigLabels
        <3> QED
            BY <1>a, <1>b, <3>1 DEF Places, ConfigLabels, UriLabels
    <2>3. UriSoFar' /\ pc' \notin FirstLabels \cup UriLabels
        BY <2>1 DEF UriSoFar, UriLabels, ConfigLabels, LastLabels, FirstLabels
    <2> QED
        BY <1>c, <2>1, <2>2, <2>3 DEF Latest, Settled
<1>4. CASE failed' = {} /\ UriStep
    <2>1. /\ failed = {} /\ UriSoFar' /\ ptr'["auth"] = ptr["auth"]
          /\ \/ pc' \in UriLabels
             \/ pc' = "fail" /\ pc = "parse" /\ ptr' = ptr /\ port' = port
        BY <1>4, UriStepLatest
    <2>2. pc \in UriLabels
        BY <1>4, Zenon DEF UriStep, UriLabels
    <2>3. ConfigSoFar' /\ pc' \notin FirstLabels
        BY <2>1 DEF ConfigSoFar, UriLabels, ConfigLabels, LastLabels, FirstLabels
    <2>4. phase' = "init" /\ pc' \in UriLabels => ptr'["auth"] = NULL
        BY <1>b, <2>1, <2>2 DEF Latest
    <2>5. phase' \in {"stopped", "running", "set_uri"} => ptr'["auth"] = told'
        BY <1>b, <2>1, Zenon DEF Latest
    <2>6. Settled' => /\ \A f \in {"scheme", "host", "path", "username", "password"} :
                            ptr'[f] = want'[f]
                      /\ Or(ptr'["headers"], <<>>) = want'.headers
                      /\ PortIs(want.port)'
        <3>1. SUFFICES ASSUME Settled'
                       PROVE  /\ \A f \in {"scheme", "host", "path", "username", "password"} :
                                    ptr'[f] = want'[f]
                              /\ Or(ptr'["headers"], <<>>) = want'.headers
                              /\ PortIs(want.port)'
            BY Zenon
        <3>2. phase = "set_uri" /\ pc = "parse" /\ ptr' = ptr /\ port' = port
            BY <1>b, <2>1, <3>1 DEF Settled, UriLabels
        <3>3. Previous = want
            BY <3>2 DEF Previous
        <3>4. UriSoFar
            BY <2>1 DEF Latest
        <3>5. /\ ptr["scheme"] = want.scheme /\ ptr["host"] = want.host
              /\ ptr["path"] = want.path /\ ptr["password"] = want.password
              /\ ptr["username"] = want.username
              /\ Or(ptr["headers"], <<>>) = want.headers /\ PortIs(want.port)
            BY <3>2, <3>3, <3>4 DEF UriSoFar, UriLabels, Or
        <3> QED
            BY <1>b, <3>2, <3>5 DEF PortIs
    <2>7. phase' # "none"
        BY <1>b
    <2> QED
        BY <1>c, <2>1, <2>3, <2>4, <2>5, <2>6, <2>7 DEF Latest
<1> QED
    BY <1>1, <1>2, <1>3, <1>4

LEMMA InitCallsLatest ==
    ASSUME Sound, Latest, InitCall \/ InitOk \/ InitFailed \/ InitPanics
    PROVE  Latest'
<1>1. CASE InitCall
    <2>1. /\ phase = "none" /\ phase' = "init" /\ pc' = "client"
          /\ ptr' = ptr /\ port' = port /\ used' = used /\ failed' = failed
          /\ told' = told /\ twice' = twice /\ first' = first
        BY <1>1 DEF InitCall, memory, asked
    <2>2. used' = Session /\ first' = NULL
        BY <2>1, Zenon DEF Latest
    <2>3. UriSoFar' /\ ConfigSoFar'
        BY <2>1 DEF UriSoFar, ConfigSoFar, UriLabels, ConfigLabels, LastLabels
    <2>4. failed' = {} => port' = NULL /\ \A f \in Strings : ptr'[f] = NULL
        BY <2>1 DEF Latest, Empty, Owned
    <2>5. UsesAsked'
        BY <2>1 DEF UsesAsked
    <2> QED
        BY <2>1, <2>2, <2>3, <2>4, <2>5 DEF Latest, Settled, UriLabels
<1>2. CASE InitOk
    <2>1. /\ phase = "init" /\ pc = "done" /\ phase' = "stopped" /\ pc' = "idle"
          /\ want' = Asked(given) /\ ptr' = ptr /\ port' = port /\ used' = used
          /\ failed' = failed /\ first' = first
          /\ told' = Credentials(want'.username, want'.password)
        BY <1>2 DEF InitOk, Return, memory
    <2>2. UriSoFar' /\ ConfigSoFar' /\ UsesAsked'
        BY <2>1 DEF UriSoFar, ConfigSoFar, UsesAsked, UriLabels, ConfigLabels, LastLabels
    <2>3. PICK a : a = Asked(given)
        OBVIOUS
    <2>4. ASSUME failed' = {}
          PROVE  /\ \A f \in {"scheme", "host", "path", "username", "password"} :
                       ptr'[f] = a[f]
                 /\ Or(ptr'["headers"], <<>>) = a.headers
                 /\ PortIs(a.port)'
                 /\ ptr'["auth"] = Credentials(a.username, a.password)
        <3>1. ConfigSoFar
            BY <2>1, <2>4 DEF Latest
        <3>2. /\ ptr["scheme"] = a.scheme /\ ptr["host"] = a.host /\ ptr["path"] = a.path
              /\ ptr["username"] = a.username /\ ptr["password"] = a.password
              /\ ptr["auth"] = Credentials(a.username, a.password)
              /\ Or(ptr["headers"], <<>>) = a.headers /\ PortIs(a.port)
            BY <2>1, <2>3, <3>1 DEF ConfigSoFar, ConfigLabels, LastLabels
        <3> QED
            BY <2>1, <3>2 DEF PortIs
    <2>5. want' = a
        BY <2>1, <2>3
    <2>6. PortIs(a.port)' => PortIs(want.port)'
        BY <2>1, <2>5, <2>3 DEF PortIs
    <2>7. told' = Credentials(a.username, a.password)
        BY <2>1, <2>5
    <2> QED
        BY <2>1, <2>2, <2>4, <2>5, <2>6, <2>7 DEF Latest, FirstLabels, UriLabels
<1>3. CASE InitFailed \/ InitPanics
    <2>1. phase' \in {"gone", "panic"} /\ pc' = "idle"
        BY <1>3 DEF InitFailed, InitPanics, Return
    <2>2. UriSoFar' /\ ConfigSoFar' /\ UsesAsked'
        BY <2>1 DEF UriSoFar, ConfigSoFar, UsesAsked, UriLabels, ConfigLabels, LastLabels
    <2> QED
        BY <2>1, <2>2 DEF Latest, Settled, FirstLabels, UriLabels
<1> QED
    BY <1>1, <1>2, <1>3

LEMMA UriCallsLatest ==
    ASSUME Sound, Latest, UriCall \/ UriOk \/ UriFailed
    PROVE  Latest'
<1>a. TypeOK /\ Places
    BY DEF Sound
<1>1. CASE UriCall
    <2>1. /\ phase = "stopped" /\ phase' = "set_uri" /\ pc' = "parse"
          /\ ptr' = ptr /\ port' = port /\ used' = used /\ want' = want
          /\ failed' = failed /\ told' = told /\ twice' = twice /\ first' = first
        BY <1>1 DEF UriCall, memory, asked
    <2>2. ConfigSoFar' /\ UsesAsked'
        BY <2>1 DEF ConfigSoFar, UsesAsked, ConfigLabels, LastLabels
    <2>3. failed' = {} => UriSoFar'
        <3>1. SUFFICES ASSUME failed' = {} PROVE UriSoFar'
            OBVIOUS
        <3>2. /\ \A f \in {"scheme", "host", "path", "username", "password"} : ptr[f] = want[f]
              /\ Or(ptr["headers"], <<>>) = want.headers
              /\ PortIs(want.port)
            BY <2>1, <3>1 DEF Latest, Settled
        <3>3. Previous' = want
            BY <2>1 DEF Previous
        <3> QED
            BY <2>1, <3>2, <3>3 DEF UriSoFar, UriLabels, Or, PortIs
    <2>4. failed' = {} => ptr'["auth"] = told'
        BY <2>1, Zenon DEF Latest
    <2> QED
        BY <2>1, <2>2, <2>3, <2>4 DEF Latest, Settled, FirstLabels
<1>2. CASE UriOk
    <2>1. /\ phase = "set_uri" /\ pc = "uri_set" /\ phase' = "stopped" /\ pc' = "idle"
          /\ ptr' = ptr /\ port' = port /\ used' = used
          /\ failed' = failed /\ told' = told /\ first' = first
        BY <1>2 DEF UriOk, Return, memory
    <2>3. uri \in Uris /\ want \in Wanted
        BY <1>a, <2>1 DEF Places, TypeOK
    <2>4. /\ want'.scheme = Or(uri.scheme, want.scheme)
          /\ want'.host = Or(uri.host, want.host)
          /\ want'.path = Or(uri.path, want.path)
          /\ want'.port = Or(uri.port, want.port)
          /\ want'.username = Or(uri.username, want.username)
          /\ want'.password = Or(uri.password, want.password)
          /\ want'.headers = want.headers
        BY <1>2, <2>3, UriWanted
    <2>5. UriSoFar' /\ ConfigSoFar' /\ UsesAsked'
        BY <2>1 DEF UriSoFar, ConfigSoFar, UsesAsked, UriLabels, ConfigLabels, LastLabels
    <2>6. ASSUME failed' = {}
          PROVE  /\ \A f \in {"scheme", "host", "path", "username", "password"} :
                       ptr'[f] = want'[f]
                 /\ Or(ptr'["headers"], <<>>) = want'.headers
                 /\ PortIs(want.port)'
        <3>1. UriSoFar
            BY <2>1, <2>6 DEF Latest
        <3>2. Previous = want
            BY <2>1 DEF Previous
        <3>3. /\ ptr["scheme"] = Or(uri.scheme, want.scheme)
              /\ ptr["host"] = Or(uri.host, want.host)
              /\ ptr["path"] = Or(uri.path, want.path)
              /\ ptr["username"] = Or(uri.username, want.username)
              /\ ptr["password"] = Or(uri.password, want.password)
              /\ Or(ptr["headers"], <<>>) = want.headers
              /\ PortIs(Or(uri.port, want.port))
            BY <2>1, <3>1, <3>2 DEF UriSoFar, UriLabels
        <3> QED
            BY <2>1, <2>4, <3>3 DEF PortIs
    <2>7. failed' = {} => ptr'["auth"] = told'
        BY <2>1 DEF Latest
    <2> QED
        BY <2>1, <2>5, <2>6, <2>7 DEF Latest, FirstLabels, UriLabels
<1>3. CASE UriFailed
    <2>1. /\ phase = "set_uri" /\ pc = "fail" /\ phase' = "stopped" /\ pc' = "idle"
          /\ port' = port /\ used' = used /\ failed' = failed /\ want' = want
          /\ told' = told /\ first' = first
          /\ ptr' = [ptr EXCEPT !["user_info"] = NULL]
        BY <1>3 DEF UriFailed, Return, asked
    <2>3. \A f \in Strings : ptr'[f] = ptr[f]
        BY <1>a, <2>1 DEF TypeOK, PtrTypes, Owned, Strings
    <2>4. UriSoFar' /\ ConfigSoFar' /\ UsesAsked'
        BY <2>1 DEF UriSoFar, ConfigSoFar, UsesAsked, UriLabels, ConfigLabels, LastLabels
    <2>5. ASSUME failed' = {}
          PROVE  /\ \A f \in {"scheme", "host", "path", "username", "password"} :
                       ptr'[f] = want'[f]
                 /\ Or(ptr'["headers"], <<>>) = want'.headers
                 /\ PortIs(want.port)'
        <3>1. /\ \A f \in {"scheme", "host", "path", "username", "password"} : ptr[f] = want[f]
              /\ Or(ptr["headers"], <<>>) = want.headers
              /\ PortIs(want.port)
            BY <2>1, <2>5 DEF Latest, Settled
        <3> QED
            BY <2>1, <2>3, <3>1 DEF PortIs, Strings
    <2>6. failed' = {} => ptr'["auth"] = told'
        BY <2>1, <2>3 DEF Latest, Strings
    <2> QED
        BY <2>1, <2>4, <2>5, <2>6 DEF Latest, FirstLabels, UriLabels
<1> QED
    BY <1>1, <1>2, <1>3

LEMMA AppendLatest ==
    ASSUME Sound, Latest, AppendHeader \/ AppendFailed
    PROVE  Latest'
<1>a. TypeOK /\ Places
    BY DEF Sound
<1>b. /\ phase = "stopped" /\ phase' = phase /\ pc' = pc /\ port' = port /\ used' = used
      /\ told' = told /\ twice' = twice /\ first' = first
    BY DEF AppendHeader, AppendFailed, asked
<1>c. pc = "idle"
    BY <1>a, <1>b DEF Places
<1>d. UriSoFar' /\ ConfigSoFar' /\ UsesAsked'
    BY <1>b, <1>c
       DEF UriSoFar, ConfigSoFar, UsesAsked, UriLabels, ConfigLabels, LastLabels
<1>1. CASE AppendFailed
    <2>1. failed' # {}
        BY <1>1 DEF AppendFailed
    <2> QED
        BY <1>b, <1>d, <2>1 DEF Latest
<1>2. CASE AppendHeader
    <2>1. /\ failed' = failed
          /\ ptr' = [ptr EXCEPT !["headers"] = IF ptr["headers"] = NULL THEN <<"x">>
                                               ELSE Append(ptr["headers"], "x")]
          /\ want' = [want EXCEPT !.headers = Append(want.headers, "x")]
        BY <1>2 DEF AppendHeader
    <2>2. PICK v : v = IF ptr["headers"] = NULL THEN <<"x">> ELSE Append(ptr["headers"], "x")
        OBVIOUS
    <2>3. PICK w : w = Append(want.headers, "x")
        OBVIOUS
    <2>4. ptr' = [ptr EXCEPT !["headers"] = v] /\ want' = [want EXCEPT !.headers = w]
        BY <2>1, <2>2, <2>3, Zenon
    <2>5. /\ \A f \in Strings \ {"headers"} : ptr'[f] = ptr[f]
          /\ ptr'["headers"] = v
        BY <1>a, <2>4 DEF TypeOK, PtrTypes, Owned, Strings
    <2>6. /\ want'.headers = w
          /\ \A f \in {"scheme", "host", "path", "username", "password", "port"} :
                want'[f] = want[f]
        BY <1>a, <2>4 DEF TypeOK, Wanted
    <2>7. ASSUME failed' = {}
          PROVE  /\ \A f \in {"scheme", "host", "path", "username", "password"} :
                       ptr'[f] = want'[f]
                 /\ Or(ptr'["headers"], <<>>) = want'.headers
                 /\ PortIs(want.port)'
        <3>1. /\ \A f \in {"scheme", "host", "path", "username", "password"} : ptr[f] = want[f]
              /\ Or(ptr["headers"], <<>>) = want.headers
              /\ PortIs(want.port)
            BY <1>b, <2>1, <2>7 DEF Latest, Settled
        <3>2. v = w
            <4>1. CASE ptr["headers"] = NULL
                <5>1. want.headers = <<>>
                    BY <3>1, <4>1 DEF Or
                <5>2. Append(<<>>, "x") = <<"x">>
                    OBVIOUS
                <5> QED
                    BY <2>2, <2>3, <4>1, <5>1, <5>2, Zenon
            <4>2. CASE ptr["headers"] # NULL
                <5>1. want.headers = ptr["headers"]
                    BY <3>1, <4>2, Zenon DEF Or
                <5> QED
                    BY <2>2, <2>3, <4>2, <5>1, Zenon
            <4> QED
                BY <4>1, <4>2
        <3>3. v # NULL
            <4>1. ptr["headers"] = NULL \/ ptr["headers"] \in Seq(STRING)
                BY <1>a DEF TypeOK, PtrTypes, Maybe
            <4>2. "x" \in STRING
                BY TextsAssumption
            <4>3. v \in Seq(STRING)
                BY <2>2, <4>1, <4>2, HeaderIs, AppendIs
            <4> QED
                BY <4>3, PointersAssumption
        <3>4. Or(ptr'["headers"], <<>>) = want'.headers
            BY <2>5, <2>6, <3>2, <3>3, Zenon DEF Or
        <3>5. PortIs(want.port)'
            BY <1>b, <2>6, <3>1 DEF PortIs
        <3> QED
            BY <2>5, <2>6, <3>1, <3>4, <3>5 DEF Strings
    <2>8. failed' = {} => ptr'["auth"] = told'
        BY <1>b, <2>1, <2>5 DEF Latest, Strings
    <2> QED
        BY <1>b, <1>c, <1>d, <2>7, <2>8 DEF Latest, FirstLabels, UriLabels
<1> QED
    BY <1>1, <1>2

\* The session connects with what the client has.
LEMMA StartsLatest ==
    ASSUME Sound, Latest, StartOk \/ StartFailed
    PROVE  Latest'
<1>a. TypeOK /\ Places
    BY DEF Sound
<1>b. phase = "stopped" /\ pc' = pc /\ want' = want /\ told' = told /\ twice' = twice
    BY DEF StartOk, StartFailed, asked
<1>c. pc = "idle"
    BY <1>a, <1>b DEF Places
<1>d. UriSoFar' /\ ConfigSoFar'
    BY <1>b, <1>c DEF UriSoFar, ConfigSoFar, UriLabels, ConfigLabels, LastLabels
<1>e. /\ \A f \in Strings : ptr'[f] = ptr[f]
      /\ failed \subseteq failed'
    <2>1. /\ \/ ptr' = [ptr EXCEPT !["transport_list"] = "it"] /\ failed' = failed
             \/ ptr' = [ptr EXCEPT !["transport_list"] = NULL]
                /\ failed' = failed \cup {"transport_list"}
        BY DEF StartOk, StartFailed
    <2> QED
        BY <1>a, <2>1 DEF TypeOK, PtrTypes, Owned, Strings
<1>f. ASSUME failed' = {}
      PROVE  /\ failed = {}
             /\ \A f \in {"scheme", "host", "path", "username", "password"} : ptr[f] = want[f]
             /\ Or(ptr["headers"], <<>>) = want.headers
             /\ PortIs(want.port)
    <2>1. failed = {}
        BY <1>e, <1>f
    <2> QED
        BY <1>b, <2>1 DEF Latest, Settled
<1>g. failed' = {} => ptr["auth"] = told
    BY <1>b, <1>f DEF Latest
<1>1. CASE StartFailed
    <2>1. phase' = "stopped" /\ port' = port /\ used' = used /\ first' = first
        BY <1>1, <1>b DEF StartFailed
    <2>2. UsesAsked'
        BY <2>1 DEF UsesAsked
    <2>3. ASSUME failed' = {}
          PROVE  /\ \A f \in {"scheme", "host", "path", "username", "password"} :
                       ptr'[f] = want'[f]
                 /\ Or(ptr'["headers"], <<>>) = want'.headers
                 /\ PortIs(want.port)'
        BY <1>b, <1>e, <1>f, <2>1, <2>3 DEF PortIs, Strings
    <2>4. ASSUME failed' = {}
          PROVE  ptr'["auth"] = told'
        BY <1>b, <1>e, <1>g, <2>4 DEF Strings
    <2> QED
        BY <1>b, <1>c, <1>d, <2>1, <2>2, <2>3, <2>4 DEF Latest, FirstLabels, UriLabels
<1>2. CASE StartOk
    <2>1. /\ phase' = "running" /\ ptr["scheme"] \in {"ws", "wss", Dangling}
          /\ port' = Or(port, DefaultPort(ptr["scheme"]))
          /\ used' = [scheme |-> ptr["scheme"], host |-> ptr["host"], path |-> ptr["path"],
                      auth |-> ptr["auth"], port |-> port',
                      headers |-> Or(ptr["headers"], <<>>)]
        BY <1>2 DEF StartOk
    <2>2. first' = Or(first, ptr["scheme"])
        BY <1>2 DEF StartOk
    <2>3. ptr["scheme"] # NULL
        BY <2>1, TextsAssumption, PointersAssumption
    <2>4. /\ used'.scheme = ptr["scheme"] /\ used'.host = ptr["host"]
          /\ used'.path = ptr["path"] /\ used'.auth = ptr["auth"] /\ used'.port = port'
          /\ used'.headers = Or(ptr["headers"], <<>>)
        BY <2>1
    <2>5. ASSUME failed' = {}
          PROVE  port' = Or(want.port, DefaultPort(first'))
        <3>1. PortIs(want.port)
            BY <1>f, <2>5
        <3>2. \A x : DefaultPort(x) # NULL
            BY PointersAssumption DEF DefaultPort
        <3>3. CASE first = NULL
            BY <2>1, <2>2, <3>1, <3>3 DEF PortIs, Or
        <3>4. CASE first # NULL
            BY <2>1, <2>2, <3>1, <3>2, <3>4 DEF PortIs, Or
        <3> QED
            BY <3>3, <3>4
    <2>6. ASSUME failed' = {}
          PROVE  /\ \A f \in {"scheme", "host", "path", "username", "password"} :
                       ptr'[f] = want'[f]
                 /\ Or(ptr'["headers"], <<>>) = want'.headers
                 /\ PortIs(want.port)'
        <3>1. PortIs(want.port)'
            <4>1. port' = Or(want.port, DefaultPort(first'))
                BY <2>5, <2>6
            <4>2. first' # NULL
                BY <2>2, <2>3 DEF Or
            <4> QED
                BY <1>b, <4>1, <4>2 DEF PortIs, Or
        <3> QED
            BY <1>b, <1>e, <1>f, <2>6, <3>1 DEF Strings
    <2>7. ASSUME failed' = {}
          PROVE  ptr'["auth"] = told'
        BY <1>b, <1>e, <1>g, <2>7 DEF Strings
    <2>8. UsesAsked'
        <3>1. SUFFICES ASSUME failed' = {} PROVE UsesAsked'
            BY DEF UsesAsked
        <3>2. \A f \in {"scheme", "host", "path", "headers"} : used'[f] = want'[f]
            BY <1>b, <1>f, <2>4, <3>1
        <3>3. used'.port = Or(want'.port, DefaultPort(first'))
            BY <1>b, <2>4, <2>5, <3>1
        <3>4. used'.auth = told'
            BY <1>b, <1>g, <2>4, <3>1
        <3> QED
            BY <3>2, <3>3, <3>4 DEF UsesAsked
    <2> QED
        BY <1>c, <1>b, <1>d, <2>1, <2>6, <2>7, <2>8 DEF Latest, FirstLabels, UriLabels
<1> QED
    BY <1>1, <1>2

LEMMA EndsLatest ==
    ASSUME Sound, Latest, Stop \/ Destroy
    PROVE  Latest'
<1>a. TypeOK /\ Places
    BY DEF Sound
<1>1. CASE Stop
    <2>1. /\ phase = "running" /\ phase' = "stopped" /\ pc' = pc
          /\ ptr' = ptr /\ port' = port /\ used' = used /\ want' = want
          /\ failed' = failed /\ told' = told /\ twice' = twice /\ first' = first
        BY <1>1 DEF Stop, memory, asked
    <2>2. pc = "idle"
        BY <1>a, <2>1 DEF Places
    <2>3. UriSoFar' /\ ConfigSoFar' /\ UsesAsked'
        BY <2>1, <2>2
           DEF UriSoFar, ConfigSoFar, UsesAsked, UriLabels, ConfigLabels, LastLabels
    <2>4. failed' = {} =>
             /\ \A f \in {"scheme", "host", "path", "username", "password"} :
                   ptr'[f] = want'[f]
             /\ Or(ptr'["headers"], <<>>) = want'.headers
             /\ PortIs(want.port)'
        BY <2>1 DEF Latest, Settled, PortIs
    <2>5. failed' = {} => ptr'["auth"] = told'
        BY <2>1, Zenon DEF Latest
    <2> QED
        BY <2>1, <2>2, <2>3, <2>4, <2>5 DEF Latest, FirstLabels, UriLabels
<1>2. CASE Destroy
    <2>1. phase \in {"stopped", "running"} /\ phase' = "gone" /\ pc' = pc
        BY <1>2 DEF Destroy
    <2>2. pc = "idle"
        BY <1>a, <2>1 DEF Places
    <2>3. UriSoFar' /\ ConfigSoFar' /\ UsesAsked'
        BY <2>1, <2>2
           DEF UriSoFar, ConfigSoFar, UsesAsked, UriLabels, ConfigLabels, LastLabels
    <2> QED
        BY <2>1, <2>2, <2>3 DEF Latest, Settled, FirstLabels, UriLabels
<1> QED
    BY <1>1, <1>2

LEMMA NextInv ==
    ASSUME Inv, [Next]_vars
    PROVE  Inv'
<1>a. Sound /\ Latest
    BY DEF Inv, Sound
<1>1. Sound'
    BY <1>a, NextSound
<1>2. Latest'
    <2>1. CASE InitStep \/ ConfigStep \/ UriStep
        BY <1>a, <2>1, StepLatest
    <2>2. CASE InitCall \/ InitOk \/ InitFailed \/ InitPanics
        BY <1>a, <2>2, InitCallsLatest
    <2>3. CASE UriCall \/ UriOk \/ UriFailed
        BY <1>a, <2>3, UriCallsLatest
    <2>4. CASE AppendHeader \/ AppendFailed
        BY <1>a, <2>4, AppendLatest
    <2>5. CASE StartOk \/ StartFailed
        BY <1>a, <2>5, StartsLatest
    <2>6. CASE Stop \/ Destroy
        BY <1>a, <2>6, EndsLatest
    <2>7. CASE UNCHANGED vars
        <3>1. /\ phase' = phase /\ pc' = pc /\ given' = given /\ uri' = uri
              /\ ptr' = ptr /\ port' = port /\ used' = used /\ failed' = failed
              /\ want' = want /\ told' = told /\ twice' = twice /\ first' = first
            BY <2>7 DEF vars, memory, asked
        <3>2. Previous' = Previous /\ OfUri' = OfUri /\ (Settled' <=> Settled)
            BY <3>1 DEF Previous, OfUri, Settled
        <3>3. UriSoFar => UriSoFar'
            BY <3>1, <3>2 DEF UriSoFar, PortIs
        <3>4. ConfigSoFar => ConfigSoFar'
            BY <3>1, <3>2, Zenon DEF ConfigSoFar, PortIs
        <3>5. UsesAsked => UsesAsked'
            BY <3>1, Zenon DEF UsesAsked
        <3>6. PortIs(want.port) => PortIs(want.port)'
            BY <3>1, Zenon DEF PortIs
        <3> QED
            BY <1>a, <3>1, <3>2, <3>3, <3>4, <3>5, <3>6 DEF Latest
    <2> QED
        BY <2>1, <2>2, <2>3, <2>4, <2>5, <2>6, <2>7 DEF Next
<1> QED
    BY <1>1, <1>2 DEF Inv, Sound

-----------------------------------------------------------------------------
(* The results.                                                            *)

\* The inductive invariant: where each call is, what its pointers point to and
\* how much of what was asked for it has set, step by step.
THEOREM OptionsCorrect == Spec => []Inv
<1>1. Init => Inv
    BY InitSound, InitLatest DEF Inv, Sound
<1>2. Inv /\ [Next]_vars => Inv'
    BY NextInv
<1> QED
    BY <1>1, <1>2, PTL DEF Spec

\* Whichever allocations fail and however often options are replaced, only the
\* blocks named in LosesLittle are lost by init() and set_uri().
THEOREM LosesCorrect == Spec => []LosesLittle
<1>1. Inv => LosesLittle
    BY DEF Inv, Blocks
<1> QED
    BY <1>1, OptionsCorrect, PTL

\* A freed block is freed again or used only after an asprintf() that failed.
THEOREM FreedCorrect == Spec => []UsesNoFreed
<1>1. Inv => UsesNoFreed
    BY DEF Inv, Blocks
<1> QED
    BY <1>1, OptionsCorrect, PTL

\* An init() that fails asserts only for want of the interface's name or the lock.
THEOREM PanicsCorrect == Spec => []PanicsForLock
<1>1. Inv => PanicsForLock
    BY DEF Inv, Locks
<1> QED
    BY <1>1, OptionsCorrect, PTL

\* As long as memory lasts, a session connects with the options that were asked for
\* last, the credentials of init() and, without a port, the default of the first
\* session's scheme, whatever calls came before it.
THEOREM AskedCorrect == Spec => []UsesAsked
<1>1. Inv => UsesAsked
    BY DEF Inv, Latest
<1> QED
    BY <1>1, OptionsCorrect, PTL
=============================================================================
