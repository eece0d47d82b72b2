--------------------------- MODULE RequestTracing ---------------------------
(***************************************************************************)
(* The class RequestTracing (request_tracing.cpp) and the querier it owns  *)
(* (span_context_querier.cpp), as operators on two pieces of state:        *)
(*                                                                         *)
(*   - a trace record, the members of one RequestTracing object, and       *)
(*   - the sequence of every span the tracer was asked to start.           *)
(*                                                                         *)
(* TracingContext keeps the traces of a request in its variables and calls *)
(* these operators from its handlers.                                      *)
(***************************************************************************)
EXTENDS Integers, Sequences, FiniteSets

CONSTANTS
    Requests,           \* the main request and its subrequests (ngx_http_request_t)
    Main,               \* request->main
    Locs,               \* location blocks, and the server block
    ServerLoc,          \* the server-level configuration
    Enabled,            \* locations with `opentracing on'
    TraceLocations,     \* ... with `opentracing_trace_locations on'
    LogSubrequest,      \* ... with `log_subrequest on'
    OperationScript,    \* ... with an `opentracing_operation_name'
    LocationScript,     \* ... with an `opentracing_location_operation_name'
    Trusting,           \* ... with `opentracing_trust_incoming_span on'
    Incoming,           \* the client's headers carry a span context
    Addr,               \* addresses the allocator gives to span objects
    NoAddr              \* nullptr

Subs == Requests \ {Main}

ASSUME RequestsAssumption == Main \in Requests
ASSUME LocsAssumption ==
    /\ ServerLoc \in Locs
    /\ \A S \in {Enabled, TraceLocations, LogSubrequest, OperationScript,
                 LocationScript, Trusting} : S \subseteq Locs
ASSUME IncomingAssumption == Incoming \in BOOLEAN
ASSUME AddrAssumption == NoAddr \notin Addr

-----------------------------------------------------------------------------
(* Types. *)

\* A std::unique_ptr<Span>: which span object it owns and where that lives.
Ptr == [id : Nat, addr : Addr \cup {NoAddr}]
Null == [id |-> 0, addr |-> NoAddr]

\* The operation name a span carries: the value of the directive's script at
\* a location, or the name of the location block.
Name == {"script", "name"} \X Locs

\* The groups of SetTag calls made on a span, in the order they are made.
TagLayer == [from : {"default", "status", "upstream", "location"}, loc : Locs]

\* Parents: a span's id, None for a root span, Remote for the span of the
\* client that the incoming headers name.
None == 0
Remote == -1

Span == [kind : {"request", "location"}, request : Requests, loc : Locs,
         parent : {Remote} \cup Nat, name : Name, tags : Seq(TagLayer),
         finishes : Nat, destroyed : BOOLEAN]

Trace == [request : Requests, conf : Locs, request_span : Ptr, span : Ptr,
          values_span : Addr \cup {NoAddr}, expansion : Nat]

-----------------------------------------------------------------------------
(* Operation names and tags. *)

get_request_operation_name(core_loc_conf, loc_conf) ==
    IF loc_conf \in OperationScript THEN <<"script", loc_conf>>
                                    ELSE <<"name", core_loc_conf>>

get_loc_operation_name(core_loc_conf, loc_conf) ==
    IF loc_conf \in LocationScript THEN <<"script", loc_conf>>
                                   ELSE <<"name", core_loc_conf>>

Layer(from, l) == [from |-> from, loc |-> l]

-----------------------------------------------------------------------------
(* What the tracer does with the calls made on it. *)

NewSpan(kind, r, l, parent, name) ==
    [kind |-> kind, request |-> r, loc |-> l, parent |-> parent, name |-> name,
     tags |-> <<>>, finishes |-> 0, destroyed |-> FALSE]

SetTags(sp, id, layers) == [sp EXCEPT ![id].tags = @ \o layers]

\* SetOperationName, then Finish.
NameAndFinish(sp, id, name) ==
    [sp EXCEPT ![id].name = name, ![id].finishes = @ + 1]

\* The destructors of the spans in ids run.
DestroySpans(sp, ids) ==
    [i \in DOMAIN sp |-> [sp[i] EXCEPT !.destroyed = @ \/ i \in ids]]

-----------------------------------------------------------------------------
(* RequestTracing. *)

\* The span ids and addresses a trace owns.
OwnedIds(t) == {t.request_span.id, t.span.id}
OwnedAddrs(t) == {t.request_span.addr, t.span.addr}

active_span(t) == IF t.conf \in TraceLocations THEN t.span ELSE t.request_span

\* The span context in the request's headers, or none.
extract_span_context == IF Incoming THEN Remote ELSE None

\* The parent of a request span: the context handed to the constructor, or
\* one extracted from the request's headers.
ParentOf(l, parent) ==
    IF parent = None /\ l \in Trusting THEN extract_span_context ELSE parent

RequestSpan(r, l, parent) ==
    NewSpan("request", r, l, ParentOf(l, parent),
            get_request_operation_name(l, l))

LocationSpan(r, l, root) ==
    NewSpan("location", r, l, root, get_loc_operation_name(l, l))

\* The constructor starts the request span, then the location span if the
\* block wants one.
StartTrace(sp, r, l, parent) ==
    LET root == Len(sp) + 1
    IN  IF l \in TraceLocations
        THEN sp \o <<RequestSpan(r, l, parent), LocationSpan(r, l, root)>>
        ELSE Append(sp, RequestSpan(r, l, parent))

NewTrace(sp, r, l, a, b) ==
    [request |-> r, conf |-> l,
     request_span |-> [id |-> Len(sp) + 1, addr |-> a],
     span |-> IF l \in TraceLocations THEN [id |-> Len(sp) + 2, addr |-> b]
                                      ELSE Null,
     values_span |-> NoAddr, expansion |-> 0]

\* Mutant: whichever span is active is finished with the block.
on_exit_block_finishes_active(sp, t) ==
    LET id == active_span(t).id
    IN  NameAndFinish(SetTags(sp, id, <<Layer("location", t.conf)>>), id,
                      get_loc_operation_name(t.conf, t.conf))

\* Mutant: the default tags are set after the location's own.
on_exit_block_defaults_last(sp, t) ==
    IF t.conf \in TraceLocations
    THEN NameAndFinish(
           SetTags(sp, t.span.id,
                   <<Layer("location", t.conf), Layer("status", t.conf),
                     Layer("upstream", t.conf), Layer("default", t.conf)>>),
           t.span.id, get_loc_operation_name(t.conf, t.conf))
    ELSE SetTags(sp, t.request_span.id, <<Layer("location", t.conf)>>)

on_exit_block(sp, t) ==
    IF t.conf \in TraceLocations
    THEN NameAndFinish(
           SetTags(sp, t.span.id,
                   <<Layer("default", t.conf), Layer("location", t.conf),
                     Layer("status", t.conf), Layer("upstream", t.conf)>>),
           t.span.id, get_loc_operation_name(t.conf, t.conf))
    ELSE SetTags(sp, t.request_span.id, <<Layer("location", t.conf)>>)

\* Mutant: the block is not exited first.
on_change_block_spans_unexited(sp, t, l) ==
    IF l \in TraceLocations
    THEN DestroySpans(Append(sp, LocationSpan(t.request, l, t.request_span.id)),
                      {t.span.id})
    ELSE sp

\* Mutant: the new location span is a child of the one just left.
on_change_block_spans_nested(sp, t, l) ==
    LET exited == on_exit_block(sp, t)
    IN  IF l \in TraceLocations
        THEN DestroySpans(
               Append(exited, LocationSpan(t.request, l, active_span(t).id)),
               {t.span.id})
        ELSE exited

\* The spans after on_change_block: the old block's span is finished, a new
\* one is started if the block wants one, and only then is the old one freed.
on_change_block_spans(sp, t, l) ==
    LET exited == on_exit_block(sp, t)
    IN  IF l \in TraceLocations
        THEN DestroySpans(
               Append(exited, LocationSpan(t.request, l, t.request_span.id)),
               {t.span.id})
        ELSE exited

\* Mutant: span_ keeps the span of the block before.
on_change_block_keeps_span(sp, t, l, a) == [t EXCEPT !.conf = l]

on_change_block(sp, t, l, a) ==
    [t EXCEPT !.conf = l,
              !.span = IF l \in TraceLocations
                       THEN [id |-> Len(sp) + 1, addr |-> a]
                       ELSE @]

\* Mutant: the last block is not exited.
on_log_request_unexited(sp, t, core) ==
    NameAndFinish(sp, t.request_span.id, get_request_operation_name(core, t.conf))

\* Mutant: the default tags are set before the last block is exited.
on_log_request_defaults_first(sp, t, core) ==
    NameAndFinish(
      on_exit_block(
        SetTags(sp, t.request_span.id,
                <<Layer("status", t.conf), Layer("default", t.conf),
                  Layer("upstream", t.conf)>>), t),
      t.request_span.id, get_request_operation_name(core, t.conf))

\* core is the location the request is in now: the core module's
\* configuration is read from the request, not from the trace.
on_log_request(sp, t, core) ==
    NameAndFinish(
      SetTags(on_exit_block(sp, t), t.request_span.id,
              <<Layer("status", t.conf), Layer("default", t.conf),
                Layer("upstream", t.conf)>>),
      t.request_span.id, get_request_operation_name(core, t.conf))

\* SpanContextQuerier::lookup_value. The expansion is the id of the span whose
\* context the cached key/value pairs are, 0 when Inject left none.
lookup_span_context_value(t, injected) ==
    IF t.values_span = active_span(t).addr
    THEN t
    ELSE [t EXCEPT !.values_span = active_span(t).addr,
                   !.expansion = IF injected THEN active_span(t).id ELSE 0]
=============================================================================
