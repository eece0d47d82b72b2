--------------------------- MODULE MCConfiguration ---------------------------
(* Configuration on an http block, a server and a location, two tracers that *)
(* load and one that does not.                                               *)
EXTENDS Configuration, TLC

CONSTANTS http, server, location,           \* blocks
          lightstep, jaeger, broken         \* tracer libraries

MCDefaultTags == <<Tag("component", "nginx"), Tag("http.host", "$http_host")>>
MCAround == (server :> http) @@ (location :> server)
MCKeysOf == (lightstep :> <<"ot-traceid", "ot-spanid">>)
            @@ (jaeger :> <<"uber-trace-id">>) @@ (broken :> <<>>)
\* nginx with its proxy and fastcgi modules, and a third-party module whose
\* grpc_set_header is not the one meant.
MCCommands ==
    <<[name |-> "proxy_set_header", blocks |-> {http, server, location},
       takes |-> {2}, is_block |-> FALSE],
      [name |-> "fastcgi_param", blocks |-> {server, location},
       takes |-> {2, 3}, is_block |-> FALSE],
      [name |-> "grpc_set_header", blocks |-> {http}, takes |-> {2}, is_block |-> TRUE],
      [name |-> "grpc_set_header", blocks |-> {location}, takes |-> {1},
       is_block |-> FALSE]>>
\* $name and a literal may evaluate to one key.
MCKeyOf == ("literal" :> "key") @@ ("$name" :> "key")
=============================================================================
