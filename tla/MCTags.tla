------------------------------- MODULE MCTags -------------------------------
(* SpanTags on the locations of MCTracing: a tag of one location overrides a *)
(* default tag, two share a key, one is given twice, one cannot be run.      *)
EXTENDS SpanTags, MCTracing

CONSTANTS server, api, static, private

MCDefaultTags == <<<<"component", "nginx">>, <<"peer.address", "$remote_addr">>>>
MCLocationTags ==
    (server :> <<<<"team", "web">>, <<"component", "edge">>>>)
    @@ (api :> <<<<"team", "core">>, <<"component", "api">>, <<"$key", "1">>,
                 <<"$broken", "2">>>>)
    @@ (static :> <<<<"team", "core">>, <<"team", "files">>>>)
    @@ (private :> <<>>)
MCText ==
    [s \in {"component", "nginx", "peer.address", "team", "web", "edge", "core",
            "api", "1", "2", "files"} |-> s]
    @@ ("$remote_addr" :> "client") @@ ("$key" :> "error")
=============================================================================
