------------------------------ MODULE MCWsConfig ------------------------------
(* An instance of WsConfig for TLC. *)
EXTENDS WsConfig

Uri(scheme, host, path, p, username, password) ==
    [valid |-> TRUE, scheme |-> scheme, host |-> host, path |-> path, port |-> p,
     username |-> username, password |-> password]

TheUris ==
    { Uri("ws", "uhost", NULL, NULL, NULL, NULL),
      Uri("wss", "uhost", "/u", 8443, NULL, NULL),
      Uri("ws", "other", NULL, NULL, "uuser", "upass"),
      Uri(NULL, NULL, "/u", NULL, "uuser", NULL),
      Uri("http", "uhost", NULL, NULL, NULL, NULL),
      [Uri("ws", NULL, NULL, NULL, NULL, NULL) EXCEPT !.valid = FALSE] }

Credential == { <<NULL, NULL>>, <<"user", NULL>>, <<"user", "pass">> }

\* What init() is given: a URI or none, fields that agree with it or not.
TheConfigs ==
    { [uri |-> u, host |-> IF f THEN "host" ELSE NULL, port |-> IF f THEN 8080 ELSE NULL,
       username |-> c[1], password |-> c[2], path |-> IF x THEN "/" ELSE NULL,
       transport |-> IF f THEN NULL ELSE "wss", extras |-> x] :
        u \in {NULL} \cup { v \in TheUris : v.host # "uhost" \/ v.port # NULL },
        f \in BOOLEAN, c \in Credential, x \in BOOLEAN }
=============================================================================
