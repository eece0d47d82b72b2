------------------------------- MODULE Worker -------------------------------
(***************************************************************************)
(* The life of tracing libraries in nginx's processes. The master loads    *)
(* one for each opentracing_load_tracer it parses, only to discover its    *)
(* keys (discover_span_context_keys.cpp); each worker loads its own when   *)
(* it starts and never unloads it (ngx_http_opentracing_module.cpp); both  *)
(* through load_tracer.cpp. Destructors of a library's objects are code    *)
(* of the library, so they must not outlive it.                            *)
(*                                                                         *)
(* nginx runs one worker at a time, beside those of earlier configurations *)
(* that are quitting. Lua scripts stand for the other modules that may     *)
(* hold on to spans.                                                       *)
(***************************************************************************)
EXTENDS Naturals

CONSTANTS
    Master,             \* the process that parses and forks
    Workers,            \* slots for worker processes
    MaxReloads          \* bound on the configurations read after the first

ASSUME WorkerAssumption == Master \notin Workers /\ MaxReloads \in Nat

Processes == Workers \cup {Master}

VARIABLES
    pc,                 \* what each process is doing
    held,               \* its local variables that hold something
    error,              \* the load is being left with an error
    kept,               \* opentracing_library_handle is set
    global,             \* Tracer::Global() holds the tracer
    lua,                \* Lua holds a span
    request,            \* a request holds its span
    quit,               \* the worker was told to finish its requests and exit
    tracer_library,     \* main_conf->tracer_library of the cycle is set
    parsed_library,     \* the same of the configuration being parsed
    reloads

vars == <<pc, held, error, kept, global, lua, request, quit, tracer_library,
          parsed_library, reloads>>
conf_vars == <<quit, tracer_library, parsed_library, reloads>>
object_vars == <<kept, global, lua, request>>

\* Where the variables of discover_span_context_keys or opentracing_init_worker
\* and, under a call of it, of load_tracer are on the stack.
DeclaredAt == [handle |-> 1, tracer |-> 2, handle_maybe |-> 3, tracer_maybe |-> 4,
               span |-> 5]
Locals == DOMAIN DeclaredAt

Init ==
    /\ pc = [p \in Processes |-> IF p = Master THEN "parsing" ELSE "gone"]
    /\ held = [p \in Processes |-> {}]
    /\ error = [p \in Processes |-> FALSE]
    /\ kept = [p \in Processes |-> FALSE]
    /\ global = [p \in Processes |-> FALSE]
    /\ lua = [p \in Processes |-> FALSE]
    /\ request = [p \in Processes |-> FALSE]
    /\ quit = [p \in Processes |-> FALSE]
    /\ tracer_library = [p \in Processes |-> FALSE]
    /\ parsed_library = FALSE
    /\ reloads = 0

Goto(p, step) == pc' = [pc EXCEPT ![p] = step]

-----------------------------------------------------------------------------
(* load_tracer, in either process. *)

Fail(p) ==
    /\ Goto(p, "unwinding")
    /\ error' = [error EXCEPT ![p] = TRUE]
    /\ UNCHANGED held

DynamicallyLoadTracingLibrary(p) ==
    /\ pc[p] = "opening"
    /\ \/ Fail(p)
       \/ /\ Goto(p, "loaded")
          /\ held' = [held EXCEPT ![p] = {"handle_maybe"}]
          /\ UNCHANGED error
    /\ UNCHANGED <<object_vars, conf_vars>>

\* With the reading of the configuration file before it, which fails alike.
MakeTracer(p) ==
    /\ pc[p] = "loaded"
    /\ \/ Fail(p)
       \/ /\ Goto(p, "made")
          /\ held' = [held EXCEPT ![p] = @ \cup {"tracer_maybe"}]
          /\ UNCHANGED error
    /\ UNCHANGED <<object_vars, conf_vars>>

\* Both are moved to the caller's variables.
load_tracer(p) ==
    /\ pc[p] = "made"
    /\ Goto(p, "returned")
    /\ held' = [held EXCEPT ![p] = {"handle", "tracer"}]
    /\ UNCHANGED <<error, object_vars, conf_vars>>

\* On the way out the variables are destroyed, the last declared first. A
\* handle unloads its library, a tracer or span runs the library's destructor.
Unwind(p) ==
    /\ pc[p] = "unwinding"
    /\ \E v \in held[p] :
         /\ \A u \in held[p] : DeclaredAt[u] <= DeclaredAt[v]
         /\ held' = [held EXCEPT ![p] = @ \ {v}]
    /\ UNCHANGED <<pc, error, object_vars, conf_vars>>

-----------------------------------------------------------------------------
(* The master. *)

\* An opentracing_load_tracer directive calls discover_span_context_keys.
set_tracer ==
    /\ pc[Master] = "parsing"
    /\ Goto(Master, "opening")
    /\ error' = [error EXCEPT ![Master] = FALSE]
    /\ parsed_library' = TRUE
    /\ UNCHANGED <<held, object_vars, quit, tracer_library, reloads>>

\* The dummy span is used without a test for null, and the process with it.
StartSpan ==
    /\ pc[Master] = "returned"
    /\ \/ Goto(Master, "injecting") /\ held' = [held EXCEPT ![Master] = @ \cup {"span"}]
       \/ Goto(Master, "gone") /\ held' = [held EXCEPT ![Master] = {}]
    /\ UNCHANGED <<error, object_vars, conf_vars>>

Inject ==
    /\ pc[Master] = "injecting"
    /\ \/ Fail(Master)
       \/ Goto(Master, "unwinding") /\ UNCHANGED <<held, error>>
    /\ UNCHANGED <<object_vars, conf_vars>>

\* Mutant: the library is left open for the workers.
discover_span_context_keys_leak ==
    /\ pc[Master] = "unwinding" /\ held[Master] \subseteq {"handle"}
    /\ Goto(Master, IF ~error[Master] THEN "parsing"
                    ELSE IF reloads = 0 THEN "gone" ELSE "running")
    /\ UNCHANGED <<held, error, object_vars, conf_vars>>

\* Its result: without keys the configuration is rejected, and nginx does not
\* start or goes on with the one it has.
discover_span_context_keys ==
    /\ pc[Master] = "unwinding" /\ held[Master] = {}
    /\ Goto(Master, IF ~error[Master] THEN "parsing"
                    ELSE IF reloads = 0 THEN "gone" ELSE "running")
    /\ UNCHANGED <<held, error, object_vars, conf_vars>>

Reload ==
    /\ pc[Master] = "running" /\ reloads < MaxReloads
    /\ Goto(Master, "parsing")
    /\ parsed_library' = FALSE
    /\ reloads' = reloads + 1
    /\ UNCHANGED <<held, error, object_vars, quit, tracer_library>>

\* The parsed configuration is taken into use and the workers told to quit.
ApplyConfiguration ==
    /\ pc[Master] = "parsing"
    /\ pc' = [p \in Processes |-> IF p = Master THEN "running"
                                  ELSE IF pc[p] = "failed" THEN "gone" ELSE pc[p]]
    /\ tracer_library' = [tracer_library EXCEPT ![Master] = parsed_library]
    /\ quit' = [p \in Processes |-> p \in Workers]
    /\ UNCHANGED <<held, error, object_vars, parsed_library, reloads>>

\* The worker has a copy of everything in the master.
Fork(w) ==
    /\ pc[Master] = "running"
    /\ pc[w] = "gone"
    /\ \A v \in Workers : pc[v] = "gone" \/ quit[v]
    /\ Goto(w, "starting")
    /\ held' = [held EXCEPT ![w] = held[Master]]
    /\ error' = [error EXCEPT ![w] = FALSE]
    /\ kept' = [kept EXCEPT ![w] = kept[Master]]
    /\ global' = [global EXCEPT ![w] = global[Master]]
    /\ quit' = [quit EXCEPT ![w] = FALSE]
    /\ tracer_library' = [tracer_library EXCEPT ![w] = tracer_library[Master]]
    /\ UNCHANGED <<lua, request, parsed_library, reloads>>

-----------------------------------------------------------------------------
(* A worker. *)

\* opentracing_init_worker without a tracer_library, or up to load_tracer.
opentracing_init_worker(w) ==
    /\ pc[w] = "starting"
    /\ Goto(w, IF tracer_library[w] THEN "opening" ELSE "serving")
    /\ UNCHANGED <<held, error, object_vars, conf_vars>>

\* The handle is released from its unique_ptr, the tracer moved.
InitGlobal(w) ==
    /\ pc[w] = "returned"
    /\ Goto(w, "serving")
    /\ kept' = [kept EXCEPT ![w] = TRUE]
    /\ global' = [global EXCEPT ![w] = TRUE]
    /\ held' = [held EXCEPT ![w] = {}]
    /\ UNCHANGED <<error, lua, request, conf_vars>>

\* The process is over, and all it has.
Gone(w, step) ==
    /\ Goto(w, step)
    /\ held' = [held EXCEPT ![w] = {}]
    /\ kept' = [kept EXCEPT ![w] = FALSE]
    /\ global' = [global EXCEPT ![w] = FALSE]
    /\ lua' = [lua EXCEPT ![w] = FALSE]
    /\ request' = [request EXCEPT ![w] = FALSE]
    /\ UNCHANGED <<error, conf_vars>>

\* Mutant: the error is not returned.
opentracing_init_worker_failed_ok(w) ==
    /\ pc[w] = "unwinding" /\ held[w] = {}
    /\ Goto(w, "serving")
    /\ UNCHANGED <<held, error, object_vars, conf_vars>>

\* opentracing_init_worker returns load_tracer's error. The worker exits with a
\* status that makes nginx not start it again.
opentracing_init_worker_failed(w) ==
    /\ pc[w] = "unwinding" /\ held[w] = {}
    /\ Gone(w, IF quit[w] THEN "gone" ELSE "failed")

StartRequest(w) ==
    /\ pc[w] = "serving" /\ global[w]
    /\ request' = [request EXCEPT ![w] = TRUE]
    /\ UNCHANGED <<pc, held, error, kept, global, lua, conf_vars>>

EndRequest(w) ==
    /\ pc[w] \in {"serving", "quitting"} /\ request[w]
    /\ request' = [request EXCEPT ![w] = FALSE]
    /\ UNCHANGED <<pc, held, error, kept, global, lua, conf_vars>>

\* A script starts a span with the global tracer, or drops the one it has.
Lua(w) ==
    /\ pc[w] \in {"serving", "quitting"} /\ global[w]
    /\ lua' = [lua EXCEPT ![w] = ~@]
    /\ UNCHANGED <<pc, held, error, kept, global, request, conf_vars>>

Quit(w) ==
    /\ pc[w] = "serving" /\ quit[w]
    /\ Goto(w, "quitting")
    /\ UNCHANGED <<held, error, object_vars, conf_vars>>

\* Mutant: the library is unloaded with the tracer.
opentracing_exit_worker_unloads(w) ==
    /\ Goto(w, "exiting")
    /\ global' = [global EXCEPT ![w] = FALSE]
    /\ kept' = [kept EXCEPT ![w] = FALSE]
    /\ UNCHANGED <<held, error, lua, request, conf_vars>>

\* Mutant: the tracer is closed when nothing else refers to it.
opentracing_exit_worker_waits(w) ==
    /\ ~lua[w]
    /\ Goto(w, "exiting")
    /\ global' = [global EXCEPT ![w] = FALSE]
    /\ UNCHANGED <<held, error, kept, lua, request, conf_vars>>

\* The global tracer is closed and released; the handle is not.
opentracing_exit_worker(w) ==
    /\ Goto(w, "exiting")
    /\ global' = [global EXCEPT ![w] = FALSE]
    /\ UNCHANGED <<held, error, kept, lua, request, conf_vars>>

\* A worker that quits has no requests left.
FinishQuitting(w) == pc[w] = "quitting" /\ ~request[w] /\ opentracing_exit_worker(w)

\* One that is terminated leaves its requests as they are.
Terminate(w) == pc[w] \in {"serving", "quitting"} /\ opentracing_exit_worker(w)

\* nginx destroys the cycle's pool, and with it what Lua still holds, and exits.
Exit(w) == pc[w] = "exiting" /\ Gone(w, "gone")

\* The worker is killed or crashes.
Die(w) == pc[w] \notin {"gone", "failed"} /\ Gone(w, "gone")

-----------------------------------------------------------------------------
LoadStep(p) ==
    \/ DynamicallyLoadTracingLibrary(p) \/ MakeTracer(p) \/ load_tracer(p) \/ Unwind(p)

MasterStep ==
    \/ LoadStep(Master)
    \/ set_tracer \/ StartSpan \/ Inject \/ discover_span_context_keys
    \/ Reload \/ ApplyConfiguration

\* What a worker does of its own accord.
WorkerStep(w) ==
    \/ LoadStep(w)
    \/ opentracing_init_worker(w) \/ InitGlobal(w) \/ opentracing_init_worker_failed(w)
    \/ Quit(w) \/ FinishQuitting(w) \/ Exit(w)

Next ==
    \/ MasterStep
    \/ \E w \in Workers :
         Fork(w) \/ WorkerStep(w) \/ StartRequest(w) \/ EndRequest(w) \/ Lua(w)
         \/ Terminate(w) \/ Die(w)

Spec == Init /\ [][Next]_vars

\* Workers run, and requests end when no new ones are taken. Lua scripts may
\* keep their spans for ever.
Fairness ==
    \A w \in Workers :
      WF_vars(WorkerStep(w)) /\ WF_vars(pc[w] = "quitting" /\ EndRequest(w))

FairSpec == Spec /\ Fairness

-----------------------------------------------------------------------------
(* Properties. *)

Mapped(p) == kept[p] \/ held[p] \cap {"handle", "handle_maybe"} # {}
HasObjects(p) ==
    \/ global[p] \/ lua[p] \/ request[p]
    \/ held[p] \cap {"tracer", "tracer_maybe", "span"} # {}

\* No tracer or span is left when its library is unloaded: not while a failed
\* load or a discovery is unwound, and not in Lua after opentracing_exit_worker
\* (the comment at opentracing_library_handle).
CodeMapped == \A p \in Processes : HasObjects(p) => Mapped(p)

\* The master has dropped what it loaded before it forks: no worker starts with
\* a copy of a tracer, whose threads it would not have, or of a library.
WorkersStartClean ==
    \A w \in Workers : pc[w] = "starting" => ~HasObjects(w) /\ ~Mapped(w)

\* A worker whose configuration loads a tracer never serves without one: it
\* fails to start when the library that the master loaded loads no more.
ServesTraced ==
    \A w \in Workers :
      pc[w] \in {"serving", "quitting"} /\ tracer_library[w] => global[w]

\* Whatever Lua holds, a worker told to quit exits once its requests have ended.
WorkersQuit == \A w \in Workers : quit[w] ~> pc[w] = "gone"
=============================================================================
