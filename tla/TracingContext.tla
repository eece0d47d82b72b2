--------------------------- MODULE TracingContext ---------------------------
(***************************************************************************)
(* One client request in one nginx worker, with the subrequests it spawns, *)
(* as the tracing module sees it: the OpenTracingContext that all of them  *)
(* share, the ctx slots and the pool's cleanup list it is found through    *)
(* (opentracing_context.cpp), the phase handlers that drive it             *)
(* (opentracing_handler.cpp) and the variables that read it                *)
(* (opentracing_variable.cpp).                                             *)
(*                                                                         *)
(* A worker is single-threaded: a handler is atomic, and the interleaving  *)
(* is that of the event loop, which may run any request's next handler.    *)
(***************************************************************************)
EXTENDS RequestTracing, FiniteSetsExt

CONSTANTS
    MaxUriChanges,      \* NGX_HTTP_MAX_URI_CHANGES: bounds redirects and rewrites
    Faults              \* calls that may fail: a subset of FaultPoints

FaultPoints == {"request_span", "location_span", "cleanup", "inject"}

ASSUME MaxUriChangesAssumption == MaxUriChanges \in Nat
ASSUME FaultsAssumption == Faults \subseteq FaultPoints

VARIABLES
    \* nginx's requests
    phase,              \* where each request is in its life
    internal,           \* request->internal
    loc,                \* the location whose configuration the request has
    uri_changes,        \* internal redirects and rewrites so far
    \* where the module keeps its context
    ctx,                \* request->ctx[ngx_http_opentracing_module], 0 for null
    cleanups,           \* data of the pool's cleanup entries, newest first
    live,               \* OpenTracingContext objects not deleted yet
    traces,             \* traces_ of each OpenTracingContext ever created
    \* the outside
    spans,              \* every span the tracer started
    worker              \* "undefined" once a deleted context was used

nginx_vars == <<phase, internal, loc, uri_changes>>
tracing_vars == <<ctx, cleanups, live, traces, spans, worker>>
vars == <<phase, internal, loc, uri_changes, ctx, cleanups, live, traces,
          spans, worker>>

-----------------------------------------------------------------------------
(* State the handlers read. *)

Processing(r) == phase[r] \in {"find", "running"}

\* Contexts are numbered in the order of their creation.
Contexts == DOMAIN traces

\* Span addresses in use, and free ones.
HeldAddrs ==
    UNION {UNION {OwnedAddrs(traces[c][i]) : i \in DOMAIN traces[c]} :
             c \in Contexts}
\* Mutant: the span of the block just left is freed before the next starts.
FreeAddrs_of_request_spans ==
    Addr \ UNION {{traces[c][i].request_span.addr : i \in DOMAIN traces[c]} :
                    c \in Contexts}

FreeAddrs == Addr \ HeldAddrs

\* find_trace: the index of the first trace of r, when there is one.
TracesOf(c, r) == {i \in DOMAIN traces[c] : traces[c][i].request = r}
\* Mutant: only the context's first trace is looked at.
HasTrace_looks_at_first(c, r) == 1 \in TracesOf(c, r)

HasTrace(c, r) == TracesOf(c, r) # {}
\* Mutant: the context's first trace, whosever it is.
find_trace_takes_first(c, r) == 1

find_trace(c, r) == Min(TracesOf(c, r))

is_opentracing_enabled(r, l) ==
    /\ l \in Enabled
    /\ r # Main => l \in LogSubrequest

\* find_opentracing_cleanup looks from the newest entry on; its data is 0 if
\* there is no entry or the context was deleted.
CleanupData == IF cleanups = <<>> THEN 0 ELSE Head(cleanups)

\* Mutant: a context whose slot was cleared is not recovered.
get_opentracing_context_unrecovered(r) == ctx[r]

get_opentracing_context(r) ==
    IF ctx[r] # 0 \/ ~internal[r] THEN ctx[r] ELSE CleanupData

OwnedSpans(c) == UNION {OwnedIds(traces[c][i]) : i \in DOMAIN traces[c]}

-----------------------------------------------------------------------------
\* The main request looks for its first location; a rewrite at server level
\* has made it internal, or none has.
Init ==
    /\ phase = [r \in Requests |-> IF r = Main THEN "find" ELSE "unborn"]
    /\ \E rewritten \in BOOLEAN :
         internal = [r \in Requests |-> r = Main /\ rewritten]
    /\ loc = [r \in Requests |-> ServerLoc]
    /\ uri_changes = [r \in Requests |-> 0]
    /\ ctx = [r \in Requests |-> 0]
    /\ cleanups = <<>>
    /\ live = {}
    /\ traces = <<>>
    /\ spans = <<>>
    /\ worker = "up"

-----------------------------------------------------------------------------
(* nginx moves a request to another URI or adds a subrequest. *)

\* Back to the search for a location, with the server's configuration.
FindAgain(r) ==
    /\ Processing(r)
    /\ uri_changes[r] < MaxUriChanges
    /\ uri_changes' = [uri_changes EXCEPT ![r] = @ + 1]
    /\ phase' = [phase EXCEPT ![r] = "find"]
    /\ internal' = [internal EXCEPT ![r] = TRUE]
    /\ loc' = [loc EXCEPT ![r] = ServerLoc]

\* `rewrite' changes the URI and keeps the request's ctx array.
Rewrite(r) ==
    /\ phase[r] = "running"
    /\ FindAgain(r)
    /\ UNCHANGED tracing_vars

\* error_page, try_files, index, X-Accel-Redirect, a named location: the ctx
\* array is cleared.
InternalRedirect(r) ==
    /\ FindAgain(r)
    /\ ctx' = [ctx EXCEPT ![r] = 0]
    /\ UNCHANGED <<cleanups, live, traces, spans, worker>>

\* A subrequest shares the pool of the main request and has a ctx array of
\* its own.
CreateSubrequest(r) ==
    /\ r \in Subs
    /\ phase[r] = "unborn"
    /\ \E p \in Requests : phase[p] = "running"
    /\ phase' = [phase EXCEPT ![r] = "find"]
    /\ internal' = [internal EXCEPT ![r] = TRUE]
    /\ UNCHANGED <<loc, uri_changes, tracing_vars>>

-----------------------------------------------------------------------------
(* on_enter_block, the handler of the rewrite phase. *)

\* A deleted context is dereferenced: anything may follow, and the model stops.
UseAfterDelete ==
    /\ worker' = "undefined"
    /\ UNCHANGED <<ctx, cleanups, live, traces, spans>>

\* Mutant: the constructor adds no trace.
set_opentracing_context_without_trace(r, t) ==
    LET c == Len(traces) + 1
    IN  /\ traces' = Append(traces, <<>>)
        /\ live' = live \cup {c}
        /\ cleanups' = <<c>> \o cleanups
        /\ ctx' = [ctx EXCEPT ![r] = c]

\* Mutant: the cleanup entry is added behind the older ones.
set_opentracing_context_behind(r, t) ==
    LET c == Len(traces) + 1
    IN  /\ traces' = Append(traces, <<t>>)
        /\ live' = live \cup {c}
        /\ cleanups' = Append(cleanups, c)
        /\ ctx' = [ctx EXCEPT ![r] = c]

\* set_opentracing_context, given the new context's only trace.
set_opentracing_context(r, t) ==
    LET c == Len(traces) + 1
    IN  /\ traces' = Append(traces, <<t>>)
        /\ live' = live \cup {c}
        /\ cleanups' = <<c>> \o cleanups
        /\ ctx' = [ctx EXCEPT ![r] = c]

NewContext(r, l) ==
    /\ spans' = StartTrace(spans, r, l, None)
    /\ \E a, b \in FreeAddrs :
         /\ l \in TraceLocations => a # b
         /\ set_opentracing_context(r, NewTrace(spans, r, l, a, b))
    /\ UNCHANGED worker

\* The constructor throws or the cleanup entry cannot be allocated: the spans
\* started so far are destroyed with the object, and nothing refers to it.
NewContextFails(r, l) ==
    /\ \E fault \in Faults :
         \/ /\ fault = "request_span"
            /\ UNCHANGED spans
         \/ /\ fault = "location_span"
            /\ l \in TraceLocations
            /\ spans' = DestroySpans(Append(spans, RequestSpan(r, l, None)),
                                     {Len(spans) + 1})
         \/ /\ fault = "cleanup"
            /\ spans' = DestroySpans(StartTrace(spans, r, l, None),
                                     Len(spans) + 1 .. Len(spans) + 2)
    /\ UNCHANGED <<ctx, cleanups, live, traces, worker>>

\* context->on_change_block finds the trace of r ...
ChangeBlock(r, l, c) ==
    LET i == find_trace(c, r)
    IN  /\ HasTrace(c, r)
        /\ spans' = on_change_block_spans(spans, traces[c][i], l)
        /\ \E a \in FreeAddrs :
             traces' = [traces EXCEPT
                          ![c][i] = on_change_block(spans, @, l, a)]
        /\ ctx' = [ctx EXCEPT ![r] = c]
        /\ UNCHANGED <<cleanups, live, worker>>

\* ... or adds one for it, a child of the context's first trace.
AddTrace(r, l, c) ==
    LET root == traces[c][1].request_span.id
    IN  /\ ~HasTrace(c, r)
        /\ spans' = StartTrace(spans, r, l, root)
        /\ \E a, b \in FreeAddrs :
             /\ l \in TraceLocations => a # b
             /\ traces' = [traces EXCEPT
                             ![c] = Append(@, NewTrace(spans, r, l, a, b))]
        /\ ctx' = [ctx EXCEPT ![r] = c]
        /\ UNCHANGED <<cleanups, live, worker>>

\* Mutant: the cleanup entry still has the deleted context as its data.
destroy_opentracing_context_keeps_data(r, sp) ==
    LET d == CleanupData
    IN  /\ spans' = DestroySpans(sp, OwnedSpans(d))
        /\ live' = live \ {d}
        /\ traces' = [traces EXCEPT ![d] = <<>>]
        /\ ctx' = [ctx EXCEPT ![r] = 0]
        /\ UNCHANGED <<cleanups, worker>>

\* Mutant: the traces are destroyed and the object is not.
destroy_opentracing_context_clears(r, sp) ==
    LET d == CleanupData
    IN  /\ spans' = DestroySpans(sp, OwnedSpans(d))
        /\ traces' = [traces EXCEPT ![d] = <<>>]
        /\ UNCHANGED <<cleanups, live, ctx, worker>>

\* Mutant: the context is let go of and never deleted.
destroy_opentracing_context_leaks(r, sp) ==
    /\ spans' = sp
    /\ live' = live \ {CleanupData}
    /\ cleanups' = [cleanups EXCEPT ![1] = 0]
    /\ ctx' = [ctx EXCEPT ![r] = 0]
    /\ UNCHANGED <<traces, worker>>

\* destroy_opentracing_context, with sp the spans at its call: the context the
\* newest cleanup entry owns is deleted and the ctx slot of r, and of no other
\* request, is cleared.
destroy_opentracing_context(r, sp) ==
    LET d == CleanupData
    IN  /\ IF d = 0
           THEN spans' = sp /\ UNCHANGED <<live, traces>>
           ELSE /\ spans' = DestroySpans(sp, OwnedSpans(d))
                /\ live' = live \ {d}
                /\ traces' = [traces EXCEPT ![d] = <<>>]
        /\ IF cleanups = <<>>
           THEN UNCHANGED <<cleanups, ctx>>
           ELSE /\ cleanups' = [cleanups EXCEPT ![1] = 0]
                /\ ctx' = [ctx EXCEPT ![r] = 0]
        /\ UNCHANGED worker

\* on_change_block throws because a span could not be started: the old block
\* is exited by then, or the new trace has its request span.
ChangeBlockFails(r, l, c) ==
    LET i == find_trace(c, r)
        root == traces[c][1].request_span.id
    IN  \/ /\ HasTrace(c, r)
           /\ l \in TraceLocations
           /\ "location_span" \in Faults
           /\ destroy_opentracing_context(r, on_exit_block(spans, traces[c][i]))
        \/ /\ ~HasTrace(c, r)
           /\ "request_span" \in Faults
           /\ destroy_opentracing_context(r, spans)
        \/ /\ ~HasTrace(c, r)
           /\ l \in TraceLocations
           /\ "location_span" \in Faults
           /\ destroy_opentracing_context(
                r, DestroySpans(Append(spans, RequestSpan(r, l, root)),
                                {Len(spans) + 1}))

on_enter_block(r, l) ==
    LET c == get_opentracing_context(r)
    IN  \/ /\ ~is_opentracing_enabled(r, l)
           /\ UNCHANGED tracing_vars
        \/ /\ is_opentracing_enabled(r, l)
           /\ c = 0
           /\ NewContext(r, l) \/ NewContextFails(r, l)
        \/ /\ is_opentracing_enabled(r, l)
           /\ c \in live
           /\ ChangeBlock(r, l, c) \/ AddTrace(r, l, c) \/ ChangeBlockFails(r, l, c)
        \/ /\ is_opentracing_enabled(r, l)
           /\ c \notin live \cup {0}
           /\ UseAfterDelete

\* nginx finds location l for r, or none and keeps the server's configuration,
\* and enters the rewrite phase.
EnterBlock(r, l) ==
    /\ phase[r] = "find"
    /\ phase' = [phase EXCEPT ![r] = "running"]
    /\ loc' = [loc EXCEPT ![r] = l]
    /\ on_enter_block(r, l)
    /\ UNCHANGED <<internal, uri_changes>>

-----------------------------------------------------------------------------
(* The variables $opentracing_context_... and $opentracing_binary_context.   *)

\* A request whose variables may be read: handlers of the log phase that come
\* after the module's own still read them.
Readable(r) == Processing(r) \/ phase[r] = "logged"

\* The value is looked up in the trace's expansion, which is made anew when it
\* is another span's. Without a context or a trace the variable is an error.
expand_opentracing_context_variable(r) ==
    LET c == get_opentracing_context(r)
    IN  /\ Readable(r)
        /\ \/ /\ c \in live
              /\ HasTrace(c, r)
              /\ \E injected \in IF "inject" \in Faults THEN BOOLEAN ELSE {TRUE} :
                   traces' = [traces EXCEPT ![c][find_trace(c, r)] =
                                lookup_span_context_value(@, injected)]
              /\ ctx' = [ctx EXCEPT ![r] = c]
              /\ UNCHANGED <<cleanups, live, spans, worker>>
           \/ /\ c \in live
              /\ ~HasTrace(c, r)
              /\ ctx' = [ctx EXCEPT ![r] = c]
              /\ UNCHANGED <<cleanups, live, traces, spans, worker>>
           \/ /\ c \notin live \cup {0}
              /\ UseAfterDelete
        /\ UNCHANGED nginx_vars

\* The binary form is injected anew at each reading; only the ctx slot may
\* change.
expand_opentracing_binary_context_variable(r) ==
    LET c == get_opentracing_context(r)
    IN  /\ Readable(r)
        /\ \/ /\ c \in live
              /\ ctx' = [ctx EXCEPT ![r] = c]
              /\ UNCHANGED <<cleanups, live, traces, spans, worker>>
           \/ /\ c \notin live \cup {0}
              /\ UseAfterDelete
        /\ UNCHANGED nginx_vars

-----------------------------------------------------------------------------
(* on_log_request, the handler of the log phase. It does not ask whether     *)
(* tracing is enabled where the request ended.                               *)

\* Mutant: a request that ends in a location without tracing is not logged.
on_log_request_handler_if_enabled(r) ==
    LET c == get_opentracing_context(r)
    IN  IF c \in live /\ HasTrace(c, r) /\ is_opentracing_enabled(r, loc[r])
        THEN /\ spans' = on_log_request(spans, traces[c][find_trace(c, r)], loc[r])
             /\ UNCHANGED <<ctx, cleanups, live, traces, worker>>
        ELSE UNCHANGED tracing_vars

\* Mutant: the context is destroyed with the first request that is logged.
on_log_request_handler_destroys(r) ==
    LET c == get_opentracing_context(r)
    IN  IF c \in live /\ HasTrace(c, r)
        THEN destroy_opentracing_context(
               r, on_log_request(spans, traces[c][find_trace(c, r)], loc[r]))
        ELSE UNCHANGED tracing_vars

on_log_request_handler(r) ==
    LET c == get_opentracing_context(r)
        i == find_trace(c, r)
    IN  \/ /\ c = 0
           /\ UNCHANGED tracing_vars
        \/ /\ c \in live
           /\ spans' = IF HasTrace(c, r)
                       THEN on_log_request(spans, traces[c][i], loc[r])
                       ELSE spans
           /\ ctx' = [ctx EXCEPT ![r] = c]
           /\ UNCHANGED <<cleanups, live, traces, worker>>
        \/ /\ c \notin live \cup {0}
           /\ UseAfterDelete

\* A subrequest runs the log phase only where log_subrequest is on.
FinalizeSubrequest(r) ==
    /\ r \in Subs
    /\ Processing(r)
    /\ phase' = [phase EXCEPT ![r] = "logged"]
    /\ IF loc[r] \in LogSubrequest THEN on_log_request_handler(r)
                                   ELSE UNCHANGED tracing_vars
    /\ UNCHANGED <<internal, loc, uri_changes>>

\* The main request ends when its subrequests have ended ...
FinalizeMain ==
    /\ Processing(Main)
    /\ \A r \in Subs : ~Processing(r)
    /\ phase' = [phase EXCEPT ![Main] = "logged"]
    /\ on_log_request_handler(Main)
    /\ UNCHANGED <<internal, loc, uri_changes>>

\* ... or is terminated: the client went away, a timeout or an error. The
\* subrequests under way are neither logged nor run again.
TerminateMain ==
    /\ Processing(Main)
    /\ \E r \in Subs : Processing(r)
    /\ phase' = [r \in Requests |-> IF r = Main THEN "logged"
                                   ELSE IF Processing(r) THEN "terminated"
                                   ELSE phase[r]]
    /\ on_log_request_handler(Main)
    /\ UNCHANGED <<internal, loc, uri_changes>>

\* Mutant: the cleanup handler deletes nothing.
DestroyPool_leaks ==
    /\ phase[Main] = "logged"
    /\ phase' = [r \in Requests |-> "freed"]
    /\ UNCHANGED <<internal, loc, uri_changes, tracing_vars>>

\* The pool of the main request is destroyed and runs its cleanup handlers:
\* cleanup_opentracing_context deletes each context still in its entry.
DestroyPool ==
    LET owned == Contexts \cap {cleanups[i] : i \in DOMAIN cleanups}
    IN  /\ phase[Main] = "logged"
        /\ phase' = [r \in Requests |-> "freed"]
        /\ cleanups' = <<>>
        /\ live' = live \ owned
        /\ traces' = [c \in Contexts |-> IF c \in owned THEN <<>> ELSE traces[c]]
        /\ spans' = DestroySpans(spans, UNION {OwnedSpans(c) : c \in owned})
        /\ UNCHANGED <<internal, loc, uri_changes, ctx, worker>>

-----------------------------------------------------------------------------
Next ==
    /\ worker = "up"
    /\ \/ \E r \in Requests :
            \/ Rewrite(r)
            \/ InternalRedirect(r)
            \/ CreateSubrequest(r)
            \/ \E l \in Locs : EnterBlock(r, l)
            \/ expand_opentracing_context_variable(r)
            \/ expand_opentracing_binary_context_variable(r)
            \/ FinalizeSubrequest(r)
       \/ FinalizeMain
       \/ TerminateMain
       \/ DestroyPool

Spec == Init /\ [][Next]_vars

\* nginx runs the handler of a request that is ready, and its timeouts end one
\* that is not: each request that has a URI to find finds it, ends, and the
\* main request's pool is destroyed. Nothing is promised about redirects,
\* rewrites, subrequests or variables.
Fairness ==
    /\ \A r \in Requests :
         /\ WF_vars(worker = "up" /\ \E l \in Locs : EnterBlock(r, l))
         /\ WF_vars(worker = "up" /\ FinalizeSubrequest(r))
    /\ WF_vars(worker = "up" /\ FinalizeMain)
    /\ WF_vars(worker = "up" /\ DestroyPool)

FairSpec == Spec /\ Fairness

-----------------------------------------------------------------------------
(* Properties of the context and of the pointers to it. *)

Phases == {"unborn", "find", "running", "logged", "terminated", "freed"}

\* Every variable has its type: the memory a handler may reach is a context's
\* number, a trace or a span that exists.
NginxTypeOK ==
    /\ phase \in [Requests -> Phases]
    /\ internal \in [Requests -> BOOLEAN]
    /\ loc \in [Requests -> Locs]
    /\ uri_changes \in [Requests -> 0 .. MaxUriChanges]

TracingTypeOK ==
    /\ ctx \in [Requests -> 0 .. Len(traces)]
    /\ cleanups \in Seq(0 .. Len(traces))
    /\ live \subseteq 1 .. Len(traces)
    /\ traces \in Seq(Seq(Trace))
    /\ spans \in Seq(Span)
    /\ worker \in {"up", "undefined"}

\* A context that exists has a trace: on_change_block takes traces_[0] of it.
LiveTraces == \A c \in live : traces[c] # <<>>

TypeOK == NginxTypeOK /\ TracingTypeOK /\ LiveTraces

\* Only the newest cleanup entry owns a context, the only one alive.
NewestEntryOwns ==
    /\ live = {CleanupData} \ {0}
    /\ \A i \in DOMAIN cleanups : i > 1 => cleanups[i] = 0

\* A subrequest may recover the context through that entry, and so may the
\* main request except in its first block, before which there is no entry.
SubsInternal == \A r \in Subs : Processing(r) => internal[r]

FirstBlock ==
    phase[Main] = "find" /\ ~internal[Main] =>
      /\ cleanups = <<>>
      /\ \A r \in Subs : phase[r] = "unborn"

\* Why a context is owned once, as an inductive invariant: whoever enters a
\* block and gets no context could have recovered one, so there is none.
ContextInv == NewestEntryOwns /\ SubsInternal /\ FirstBlock

\* Each context not deleted yet is the data of exactly one cleanup entry, and
\* every entry's data is null or a live context: the pool's cleanup frees every
\* context once, whatever was destroyed early (destroy_opentracing_context).
OwnedByOneCleanup ==
    /\ live = {cleanups[i] : i \in DOMAIN cleanups} \ {0}
    /\ \A i, j \in DOMAIN cleanups :
         cleanups[i] = cleanups[j] /\ cleanups[i] # 0 => i = j

\* The main request and its subrequests never have two contexts at a time, and
\* the one they have is where find_opentracing_cleanup looks first: recovering
\* it after an internal redirect cannot return an older one.
NewestCleanupOwnsIt == live \subseteq {CleanupData}

\* A ctx slot that a handler may still read is null or names a live context.
\* It holds as long as every span can be started.
CtxAlive ==
    phase[Main] # "freed" => \A r \in Requests : ctx[r] \in live \cup {0}

\* find_trace's first match is the only one: no request has two traces in a
\* context, so none is entered in one trace and logged in the other.
OneTracePerRequest ==
    \A c \in live : \A i, j \in DOMAIN traces[c] :
      traces[c][i].request = traces[c][j].request => i = j

-----------------------------------------------------------------------------
(* Properties of the spans. *)

\* The log phase has run for r, and finished the spans of its trace.
Logged(r) == phase[r] = "logged" /\ (r = Main \/ loc[r] \in LogSubrequest)

\* A trace's request span is open until its request is logged; its location
\* span, if it has one, hangs below it and is open as long as it is the active
\* one.
OwnsItsSpans(t) ==
    LET q == t.request_span.id
        s == t.span.id
    IN  /\ q \in DOMAIN spans
        /\ spans[q].kind = "request"
        /\ spans[q].request = t.request
        /\ spans[q].finishes = IF Logged(t.request) THEN 1 ELSE 0
        /\ ~spans[q].destroyed
        /\ s = 0 => t.conf \notin TraceLocations
        /\ s # 0 => /\ s \in DOMAIN spans
                    /\ spans[s].kind = "location"
                    /\ spans[s].request = t.request
                    /\ spans[s].parent = q
                    /\ spans[s].finishes =
                         IF t.conf \in TraceLocations /\ ~Logged(t.request)
                         THEN 0 ELSE 1
                    /\ ~spans[s].destroyed

\* The cached expansion is that of a span the trace still owns, or of one that
\* was freed since: then it is kept under an address the span active now has
\* only if a third span was allocated in between.
ExpansionKept(t) ==
    LET q == t.request_span
        s == t.span
        e == t.expansion
    IN  /\ q.addr # NoAddr
        /\ s.id # 0 => s.addr \notin {q.addr, NoAddr}
        /\ \/ e = 0
           \/ e = q.id /\ t.values_span = q.addr
           \/ e = s.id /\ t.values_span = s.addr
           \/ /\ e < s.id
              /\ t.values_span # q.addr
              /\ \/ t.values_span # s.addr
                 \/ \E k \in e + 1 .. s.id - 1 :
                      spans[k].kind = "location" /\ spans[k].request = t.request

\* A request that has a trace was created, has its pool and gets the context
\* the trace is in.
FindsItsContext(c, r) ==
    /\ phase[r] \notin {"unborn", "freed"}
    /\ ctx[r] = c \/ (ctx[r] = 0 /\ internal[r])

LiveTracesOwn ==
    \A c \in live : \A i \in DOMAIN traces[c] :
      /\ OwnsItsSpans(traces[c][i])
      /\ ExpansionKept(traces[c][i])
      /\ FindsItsContext(c, traces[c][i].request)

\* Every span object that exists is owned by a trace.
NoSpanLeaked ==
    \A i \in DOMAIN spans : ~spans[i].destroyed => \E c \in live : i \in OwnedSpans(c)

\* A location span is finished once its request span is, and freed unfinished
\* only with it.
LocationsNested ==
    \A i \in DOMAIN spans :
      LET p == spans[i].parent
      IN  spans[i].kind = "location" =>
            /\ p \in DOMAIN spans
            /\ spans[p].kind = "request"
            /\ spans[p].request = spans[i].request
            /\ spans[p].finishes > 0 => spans[i].finishes > 0
            /\ spans[i].destroyed /\ spans[i].finishes = 0 => spans[p].destroyed

MainOutlivesSubs == (\E r \in Subs : Processing(r)) => Processing(Main)

\* Who owns which span, and in which state, as an inductive invariant: every
\* span not freed is in one live trace, and open exactly while that trace's
\* handlers may still act on it.
SpanInv ==
    /\ LiveTracesOwn
    /\ NoSpanLeaked
    /\ LocationsNested
    /\ MainOutlivesSubs

\* A request being processed that has a trace has an active span to propagate:
\* one of its own, neither finished nor freed, as has its request span.
ActiveSpanOpen ==
    \A c \in live : \A i \in DOMAIN traces[c] :
      LET t == traces[c][i]
      IN  Processing(t.request) =>
            \A id \in {active_span(t).id, t.request_span.id} :
              /\ id # 0
              /\ spans[id].request = t.request
              /\ spans[id].finishes = 0
              /\ ~spans[id].destroyed

\* A request whose log phase ran has no span left open: each was finished, or
\* destroyed with a context that broke.
FinishedWhenLogged ==
    \A i \in DOMAIN spans :
      Logged(spans[i].request) => spans[i].finishes = 1 \/ spans[i].destroyed

\* A request span is finished after all of its location spans.
LocationsFinishFirst ==
    \A i \in DOMAIN spans :
      spans[i].kind = "location" /\ spans[spans[i].parent].finishes > 0
        => spans[i].finishes > 0

\* However often the main request and its subrequests are redirected, all
\* their spans are one tree: a second root means a context was not recovered.
OneRoot ==
    \A i, j \in DOMAIN spans :
      spans[i].parent \in {None, Remote} /\ spans[j].parent \in {None, Remote}
        => i = j

\* The querier compares addresses. When it takes another span's expansion for
\* the active span's, that span is at least two location blocks back: the one
\* of the block just left was still allocated when the active one was.
StaleExpansionIsOld ==
    \A c \in live : \A i \in DOMAIN traces[c] :
      LET t == traces[c][i]
          active == active_span(t).id
      IN  /\ t.values_span = active_span(t).addr
          /\ t.expansion \notin {0, active}
          => \E k \in t.expansion + 1 .. active - 1 :
               /\ spans[k].kind = "location"
               /\ spans[k].request = t.request

\* Nothing is done to a span after it was finished or freed: no tag, name or
\* second Finish.
ClosedSpansFinal ==
    [][\A i \in DOMAIN spans :
         spans[i].finishes > 0 \/ spans[i].destroyed
           => [spans'[i] EXCEPT !.destroyed = spans[i].destroyed] = spans[i]]_vars

\* A span is not started as the child of a closed span of the main request or
\* of its own request.
ParentStillOpen ==
    [][\A i \in DOMAIN spans' \ DOMAIN spans :
         LET p == spans'[i].parent
         IN  p > 0 /\ spans'[p].request \in {Main, spans'[i].request}
               => spans'[p].finishes = 0]_vars

\* As long as every span can be started, the only spans freed unfinished are
\* those of subrequests the main request's end cut off or whose last location
\* does not log subrequests.
NoneAbandoned ==
    [][\A i \in DOMAIN spans :
         /\ spans'[i].destroyed /\ ~spans[i].destroyed
         /\ spans'[i].finishes = 0
         => LET r == spans[i].request
            IN  r # Main /\ (phase[r] = "terminated" \/ loc[r] \notin LogSubrequest)]_vars

\* No span stays open for ever: it is finished, or freed with its context.
AllSpansEnd ==
    <>[](\A i \in DOMAIN spans : spans[i].finishes > 0 \/ spans[i].destroyed)

\* Unless the client request is terminated, every span is finished, those of
\* subrequests included where subrequests are logged.
AllSpansFinish ==
    (\A r \in Requests : [](phase[r] # "terminated" /\ loc[r] \in LogSubrequest))
      => <>[](\A i \in DOMAIN spans : spans[i].finishes = 1)

-----------------------------------------------------------------------------
(* The context implements the tree of spans that TraceTree specifies. *)

NodeState(s) == IF s.finishes > 0 THEN "closed"
                ELSE IF s.destroyed THEN "lost" ELSE "open"

SpanNodes ==
    [i \in DOMAIN spans |->
       [kind |-> spans[i].kind, request |-> spans[i].request,
        parent |-> IF spans[i].parent = Remote THEN 0 ELSE spans[i].parent,
        state |-> NodeState(spans[i])]]

Tree == INSTANCE TraceTree WITH nodes <- SpanNodes

\* Every handler's effect on the spans is one step of the tree, or none.
ImplementsTraceTree == Tree!Spec

-----------------------------------------------------------------------------
(* What comments and the documentation say, and the code does not do. *)

\* The active span context is the one propagated (doc/Reference.md): the
\* expansion that the next lookup serves is the active span's.
ExpansionIsActiveSpans ==
    \A c \in live : \A i \in DOMAIN traces[c] :
      LET t == traces[c][i]
      IN  t.values_span = active_span(t).addr
            => t.expansion \in {0, active_span(t).id}

\* A broken context is destroyed "so that we don't attempt to continue
\* tracing" (opentracing_handler.cpp): no handler uses it any more.
DestroyedNotUsed == worker = "up"

\* "Only trace subrequests if `log_subrequest` is enabled; otherwise the spans
\* won't be finished" (opentracing_handler.cpp): a subrequest's spans are.
TracedSubrequestsFinish ==
    \A i \in DOMAIN spans :
      phase[spans[i].request] = "logged"
        => spans[i].finishes = 1 \/ spans[i].destroyed

\* "default: The name of the first location block entered" (doc/Reference.md):
\* the operation name a request span is finished with.
DefaultNameIsFirstBlocks ==
    \A i \in DOMAIN spans :
      /\ spans[i].kind = "request"
      /\ spans[i].finishes > 0
      /\ spans[i].name[1] = "name"
      => spans[i].name[2] = spans[i].loc

=============================================================================
