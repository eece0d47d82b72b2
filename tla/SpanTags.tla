------------------------------ MODULE SpanTags ------------------------------
(***************************************************************************)
(* The tags a span ends up with. TracingContext records in which order the *)
(* groups of SetTag calls are made on a span; here each group is the calls *)
(* it stands for (request_tracing.cpp), with the scripts of the default    *)
(* tags (ngx_http_opentracing_module.cpp) and of the locations' tags run   *)
(* on the request (ngx_script.cpp). The last call with a key wins.         *)
(***************************************************************************)
EXTENDS TracingContext, SequencesExt

CONSTANTS
    DefaultTags,        \* main_conf->tags: <<key script, value script>> pairs
    LocationTags,       \* loc_conf->tags of each location, merged
    Text,               \* what each script that can be run evaluates to
    Failed,             \* {0, nullptr}, the result of one that cannot
    Status,             \* request->headers_out.status, 0 before it is set
    UpstreamHost        \* request->upstream->upstream->host, or Failed

ASSUME TagsAssumption ==
    /\ DOMAIN LocationTags = Locs
    /\ Status \in Nat
    /\ \A script \in DOMAIN Text : Text[script] # Failed

\* NgxScript::run. A pattern without variables is its own text.
run(script) == IF script \in DOMAIN Text THEN Text[script] ELSE Failed

\* A tag whose key or value cannot be evaluated is skipped.
add_script_tags(tags) ==
    SelectSeq([i \in DOMAIN tags |-> <<run(tags[i][1]), run(tags[i][2])>>],
              LAMBDA tag : tag[1] # Failed /\ tag[2] # Failed)

\* The status line is a std::string and so set even when it is empty.
add_status_tags ==
    (IF Status # 0 THEN <<<<"http.status_code", Status>>>> ELSE <<>>)
      \o <<<<"http.status_line", "line">>>>
      \o (IF Status >= 500 THEN <<<<"error", TRUE>>>> ELSE <<>>)

add_upstream_name ==
    IF UpstreamHost = Failed THEN <<>> ELSE <<<<"upstream.name", UpstreamHost>>>>

\* The SetTag calls of one group.
SetTagCalls(layer) ==
    CASE layer.from = "default"  -> add_script_tags(DefaultTags)
      [] layer.from = "location" -> add_script_tags(LocationTags[layer.loc])
      [] layer.from = "status"   -> add_status_tags
      [] layer.from = "upstream" -> add_upstream_name

-----------------------------------------------------------------------------
(* What a backend shows. *)

KeysSet(calls) == {calls[i][1] : i \in DOMAIN calls}
LastValue(calls, key) ==
    calls[SelectLastInSeq(calls, LAMBDA call : call[1] = key)][2]

\* The groups of calls in which a span is given a key; the last one decides.
LayersWith(span, key) ==
    {i \in DOMAIN span.tags : key \in KeysSet(SetTagCalls(span.tags[i]))}
TagKeys(span) ==
    UNION {KeysSet(SetTagCalls(span.tags[i])) : i \in DOMAIN span.tags}
TagValue(span, key) ==
    LastValue(SetTagCalls(span.tags[Max(LayersWith(span, key))]), key)

\* Keys the module keeps to itself: set after the user's on every span.
ReservedKeys == KeysSet(add_status_tags) \cup KeysSet(add_upstream_name)

Finished(span) == span.finishes > 0

\* The groups of calls on a location span, all made when its block is left.
LocationLayers(l) ==
    <<Layer("default", l), Layer("location", l), Layer("status", l),
      Layer("upstream", l)>>

\* The last groups of calls on a request span that was logged: those of the
\* log phase, and before them those of the last location if it has no span.
EndsTagged(tags, l) ==
    LET n == Len(tags)
    IN  /\ n >= 3
        /\ tags[n - 2] = Layer("status", l)
        /\ tags[n - 1] = Layer("default", l)
        /\ tags[n] = Layer("upstream", l)
        /\ l \notin TraceLocations => n > 3 /\ tags[n - 3] = Layer("location", l)

LocationTagged(sp, k) ==
    sp[k].kind = "location" =>
      sp[k].tags = IF Finished(sp[k]) THEN LocationLayers(sp[k].loc) ELSE <<>>

TraceTagged(sp, t) ==
    /\ t.conf \in TraceLocations => sp[t.span.id].loc = t.conf
    /\ Finished(sp[t.request_span.id]) =>
         EndsTagged(sp[t.request_span.id].tags, t.conf)

\* In which groups the tags come, as an inductive invariant: the span that a
\* trace tags on leaving a block is that block's, and was not tagged before
\* (request_tracing.cpp).
TagsInv ==
    /\ \A k \in DOMAIN spans : LocationTagged(spans, k)
    /\ \A c \in live : \A i \in DOMAIN traces[c] : TraceTagged(spans, traces[c][i])

\* A location span carries the tags of its own location, each with the value
\* the location gives last, and the default tags it does not override; never
\* those of a location the request was in before or after (on_exit_block).
LocationSpansHaveTheirTags ==
    \A i \in DOMAIN spans :
      spans[i].kind = "location" /\ Finished(spans[i]) =>
        LET own == add_script_tags(LocationTags[spans[i].loc])
            default == add_script_tags(DefaultTags)
        IN  /\ TagKeys(spans[i]) = KeysSet(own) \cup KeysSet(default) \cup ReservedKeys
            /\ \A key \in TagKeys(spans[i]) \ ReservedKeys :
                 TagValue(spans[i], key) = IF key \in KeysSet(own)
                                           THEN LastValue(own, key)
                                           ELSE LastValue(default, key)

\* A location without a span of its own leaves its tags on the request span,
\* where the last such location wins over the earlier ones, but, unlike on a
\* location span, the default tags win over it (on_log_request).
RequestSpansKeepUntracedTags ==
    \A c \in live : \A i \in DOMAIN traces[c] :
      LET t == traces[c][i]
          span == spans[t.request_span.id]
          own == add_script_tags(LocationTags[t.conf])
          default == add_script_tags(DefaultTags)
      IN  Finished(span) =>
            /\ KeysSet(default) \cup ReservedKeys \subseteq TagKeys(span)
            /\ \A key \in KeysSet(default) \ ReservedKeys :
                 TagValue(span, key) = LastValue(default, key)
            /\ t.conf \notin TraceLocations =>
                 \A key \in KeysSet(own) \ (KeysSet(default) \cup ReservedKeys) :
                   /\ key \in TagKeys(span)
                   /\ TagValue(span, key) = LastValue(own, key)
=============================================================================
