# Verification of nginx-opentracing

TLA+ models of the nginx module in `opentracing/src`, checked with TLC, and
theorems about them, checked with TLAPS. Paths below are relative to the
repository; files named without a directory are in `opentracing/src`.

## 1. The system

nginx parses its configuration, merges nested blocks, forks workers, and each
worker runs client requests in one event loop. The module hangs on to that in
three places: directives, merge functions and a module init while the file is
read, an init/exit pair per worker, and, per request, a handler in the rewrite
phase, a handler in the log phase and two variables.

| Component | State | Operations | Models |
|---|---|---|---|
| Request spans, `request_tracing.cpp` | a `RequestTracing`: `request_span_`, `span_`, `loc_conf_` | constructor, `on_change_block`, `on_exit_block`, `on_log_request`, `active_span` | `RequestTracing`, `SpanTags` |
| Querier, `span_context_querier.cpp` | `values_span_` and the expanded key/value pairs | `lookup_value`, `expand_span_context_values` | `RequestTracing`, `Propagation` |
| Context, `opentracing_context.cpp` | `traces_`; the request's ctx slot and the pool's cleanup list | `get_`, `set_`, `destroy_opentracing_context`, `find_trace`, `on_change_block`, `on_log_request`, the pool's cleanup | `TracingContext` |
| Phase handlers, `opentracing_handler.cpp` | none of their own | `on_enter_block`, `on_log_request` | `TracingContext` |
| Variables, `opentracing_variable.cpp` | none of their own | `expand_opentracing_context_variable`, `expand_opentracing_binary_context_variable` | `TracingContext`, `Propagation` |
| Incoming span context, `extract_span_context.cpp` | a loop over nginx's list of headers | `extract_span_context`, `for_each` | `Propagation`, `RequestTracing` |
| Configuration, `ngx_http_opentracing_module.cpp`, `opentracing_directive.cpp` | `opentracing_main_conf_t`, an `opentracing_loc_conf_t` per block | the directives, `merge_opentracing_loc_conf`, `opentracing_module_init` | `Configuration` |
| Propagation directives, `opentracing_directive.cpp`, `opentracing_conf_handler.cpp` | headers the upstream modules will send | `propagate_*opentracing_context`, `opentracing_conf_handler` | `Configuration`, `Propagation` |
| Tracer loading and worker life, `load_tracer.cpp`, `discover_span_context_keys.cpp` | the library's handle, the global tracer | `set_tracer`, `load_tracer`, `opentracing_init_worker`, `opentracing_exit_worker` | `Worker`, `Configuration` |
| Scripts, `ngx_script.cpp` | a compiled script | `compile`, `run` | `Configuration`, `SpanTags`, partly: the engine is nginx's |
| Helpers, `utility.cpp`, `utility.h` | none | conversions of strings and times, `for_each`, `header_transform` | `Propagation`, partly |
| Build, packaging, examples, nginx tests | no program state | | not modelled |

### How they interact

* `on_enter_block` looks the context up (`get_opentracing_context`): in the
  request's ctx slot, or, for an internal request whose slot is empty, in the
  data of the newest cleanup entry of the pool, which subrequests share with
  the main request. With none it creates one; otherwise it tells the context
  that the request entered a block, and the context's trace for that request
  exits the old block and starts a span for the new one.
* An exception while a span is started destroys the context for every request
  that shares it, but clears one request's slot.
* A variable read by another module reaches the same context and asks the
  trace's querier for the active span's context. The querier recognises the span
  it has expanded by the span's address.
* `on_log_request` is called for the main request when it ends and for a
  subrequest if `log_subrequest` is on where it ends. It finishes the spans.
* The pool's destruction calls `cleanup_opentracing_context` for each entry.
* While the file is read, `opentracing_load_tracer` loads the library in the
  master only to learn which header keys it injects; the propagation directives
  hand one `proxy_set_header` (`fastcgi_param`, `grpc_set_header`) per key back
  to nginx's own directive. The header's name is the key, its value a variable
  named after the key in lower case with underscores; at run time the variable
  is looked up among the pairs that the tracer injects, named the same way.
* Each worker loads the library again, and keeps it until the process ends,
  because other modules (Lua) may hold spans longer than the module does.

### What is hard about it

* One context, several requests, each redirected on its own: the ctx array is
  cleared by an internal redirect, kept by a rewrite, separate for a
  subrequest. Whether a second context can come to exist depends on sequences
  of redirects, subrequests and disabled locations.
* The context can be deleted early, by a failure in any of the requests, while
  the others and the pool still refer to it.
* The location whose directives count is asked for at different times: entering
  a block, exiting it, logging, and when nginx decides to log a subrequest.
* A client request can be terminated with subrequests under way.
* The cache keyed by an address outlives the object that had it; a failed
  injection leaves part of a context in it.
* Header keys are fixed when the file is read, in the master, and met again
  per request in whatever order and number the worker's tracer injects them.
* Merging shares arrays between blocks and writes into one of them, in the order
  of a hash table.
* What a directive does depends on which directives came before it.
* Objects of a library must go before the library, on every path out of a load,
  in a process that can be forked, told to quit, terminated or killed.

The hazards are listed one by one, at their lines, in `PROJECT.json`, with the
properties that speak of them.

### What makes each component correct

* Spans: every one is finished once, location spans before their request span,
  or freed with its context; nothing is done to a span afterwards; the spans of
  a client request are one tree; a new span has an open parent; a finished span
  carries the tags of its own locations.
* Context: at most one per client request; owned by one cleanup entry, the one
  the lookup reads; freed once; no slot in use names a deleted one; one trace
  per request.
* Propagation: the client's headers are read once each; the headers of one
  upstream request are of one span, each with its own key's value.
* Configuration: a block has the settings of the innermost block that gives
  them; merging a block changes no other; headers sent upstream are the keys of
  the tracer the worker runs.
* Processes: a library is never unloaded before its objects; no worker inherits
  a tracer; none serves untraced that should trace; one told to quit exits.

## 2. The modules

`RequestTracing` holds operators only: a trace is a record with the members of
a `RequestTracing` object, the tracer's spans are one sequence, and each method
is an operator from a trace and the spans to the trace or the spans after it. A
`unique_ptr<Span>` is a pair of the span's number and the address it lives at,
since the code compares addresses. Tags are layers (`default`, `location`,
`status`, `upstream`), in the order in which the calls set them. `finishes`
counts the calls of `Finish`, so that a second one is visible.

`TracingContext` is the state machine. Its variables are nginx's requests
(`phase`, `internal`, `loc`, `uri_changes`), the places the module keeps its
context in (`ctx`, `cleanups`, `live`, `traces`), and the tracer (`spans`). Its
actions:

| Action | Code |
|---|---|
| `EnterBlock(r, l)` | nginx finds location `l` for `r`; `on_enter_block` with all of its outcomes: not enabled, a new context, a new trace, a change of block, and the failure of each |
| `Rewrite(r)`, `InternalRedirect(r)` | nginx looks for a location again; the second clears the ctx array |
| `CreateSubrequest(r)` | `ngx_http_subrequest` |
| `expand_opentracing_context_variable(r)`, `..._binary_...(r)` | a variable is read, before or after the request was logged |
| `FinalizeSubrequest(r)`, `FinalizeMain`, `TerminateMain` | a request ends; `on_log_request` where nginx calls it |
| `DestroyPool` | the pool's cleanup handlers |

A worker is single-threaded and a handler does not yield, so a handler is one
step and the interleaving is that of the requests. `UseAfterDelete` is what a
handler does with a slot that names a deleted context: undefined behaviour,
after which the model stops (`worker = "undefined"`). `Faults` says which calls
may fail: starting either kind of span, allocating the cleanup entry, and
`Inject`. A definition with `_` and a suffix after the name of another, marked
"Mutant", is a deliberately wrong variant of it, for the mutation runs only.

`TraceTree` is the abstract specification: nodes of a tree that are open, closed
or lost, and six steps a request can make. A request node hangs below the root
of the tree under way, the newest node without a parent, whichever request that
is of; another root may start only when nothing is open. It knows nothing of
contexts, pointers or slots. `TracingContext` implements it under the mapping
`SpanNodes`, which forgets names, tags, addresses and the remote parent.

`SpanTags` extends `TracingContext`. It expands each layer of a span's tags to
the `SetTag` calls it stands for, with scripts that evaluate to a text or cannot
be run, and says what a backend that keeps the last value of a key shows. Its
`TagsInv` says, layer by layer, in which groups a span's tags come; the
properties of the values follow from it.

`Propagation` follows one request and the querier pair by pair. Keys are
sequences of characters, since what goes wrong is in them: `header_transform`,
`make_fastcgi_span_context_key`, and the list of pairs a tracer injects for each
span, in an order that may differ from that of the discovered keys. It also has
the loop of `for_each` over nginx's list of header arrays, one pass of the loop
per step; its `failures` only counts the callback's failures, so that a call
after the first would be seen. `StartRequest` and `ChangeBlock` are what of `TracingContext` the
querier can see: which span is active, and at which address.

`Configuration` is the file as a sequence of directives in nested blocks, the
merging of the blocks, `opentracing_module_init`, and a worker's start and exit.
A discovery gives keys or a null pointer, with which the file is rejected.
Its `arrays` are the `ngx_array_t`s of tags and `tags` the pointers to them,
because merging shares them. Its `written` only records the file, for the
properties to refer to. `opentracing_conf_handler` is the search of nginx's
commands for the borrowed directive, with the ways it can be refused.

`Worker` is the master and its workers as processes: `load_tracer` step by step
wherever it is called, the local variables of the functions on the stack and
the order in which they are destroyed, reloads, forks, requests and Lua scripts
that hold spans, and workers that quit, are terminated or die.

`MCTracing`, `MCTags`, `MCPropagation` and `MCConfiguration` give the constants
their values for TLC; `Worker` needs no values but model values.
`RequestTracing_proofs` holds lemmas about the operators of `RequestTracing`;
`TracingContext_proofs`, `SpanOwnership_proofs` and `SpanHistory_proofs`, each
of which extends the one before, the theorems about `TracingContext`;
`SpanTags_proofs`, `Propagation_proofs`, `Configuration_proofs` and
`Worker_proofs` those about the other modules.

## 3. The runs

| Run | Instance | What it shows |
|---|---|---|
| `blocks` | a main request, four locations with tags, four changes of URI, `Inject` may fail | the spans of a request that moves between traced, untraced and disabled locations: always an open active span, closed innermost first and once; a stale expansion is never that of the block just left; each finished span has the tags of its own locations, because its calls of `SetTag` come in whole groups (`TagsInv`) |
| `subs` | a main request and a subrequest, four locations, one change of URI each, `Inject` may fail | they share one context that is live as long as a slot names it; who was logged is finished, who is abandoned was terminated or not logged; the spans are one tree and implement `TraceTree` |
| `faults` | the same with three locations and failing spans and cleanup entries | the context is owned and freed once whatever fails; every span not freed is owned by one trace and open exactly while its handlers may act (`SpanInv`); the spans still implement `TraceTree` |
| `nested` | a main request and two subrequests, fairness | one tree; every span ends, and is finished unless the client request was terminated |
| `propagation` | up to three headers in parts of two, three spans at three addresses, keys that share a variable | headers are read in order, once each, none after the tracer failed at one; an upstream request gets one span's context, each header its own key's value; one injection per block, even a failed one |
| `configuration` | http, server and location, files of up to three directives, three libraries | the nearest setting and tag win, merging touches one block, a tracer loaded once has its own keys propagated |
| `worker` | a master, two worker slots, two reloads, fairness | no library is unloaded before its objects, no worker inherits one, none serves untraced, one told to quit exits |

Bounds. `MaxUriChanges` stands for nginx's limit of ten per request; four let a
request leave a location, enter two others and come back, which is what a
finished `span_`, a reused address and a stale expansion need; with a
subrequest one change each is enough for every order of redirect, subrequest and
end. `nested` has no changes of URI: its three requests are there for the order
in which they start and end. `Addr` has one address more than the traces of the run can hold at once, so
that the allocator can reuse an address and is never short of one; addresses
are symmetric, and no symmetry is used in the runs with liveness. Three requests
are a main request, its subrequest and a second one that either of them starts
(`CreateSubrequest` asks only for some running request, so siblings and
nesting are both there). A main request starts internal or not: a rewrite at
server level makes it internal before it finds its first location. The locations
differ in `Enabled`, `TraceLocations`, `LogSubrequest`, the two scripts,
`Trusting` and their tags, which override a default tag, repeat a key, or have a
script that cannot be run.

In `propagation`, three headers in parts of two make the loop cross a part, and
`MaxSpans = 3` is a request span and two location spans, enough for the second
to find the first one's expansion. The keys are two that become one variable and
one that does not. Three directives are the shortest file in which a duplicate,
an override in two blocks and a tracer between two propagations occur. In
`worker`, two slots hold the worker that serves and one that is quitting, and
two reloads let a library be added, and dropped again or refused, while the
worker of an earlier configuration is still there. `CHECK_DEADLOCK` is off in
every run, because a client request ends and so does a worker, a master whose
first configuration is refused exits, and a request in `propagation` has
finitely many blocks: there is nothing left to do.

Fairness. `FairSpec` of `TracingContext` makes weakly fair only what nginx's
event loop owes: a request with a URI finds a location, a request ends (its
timers see to that), and a pool whose request was logged is destroyed. Nothing
makes a redirect, a rewrite, a subrequest, a variable or a termination happen.
`FairSpec` of `Worker` makes weakly fair each worker's own steps, since the
operating system runs it, and the end of a request in a worker that is quitting,
which takes no new ones. Lua may keep a span for ever, and nobody has to
reload, terminate or kill.

### Where the code and its words differ

Each of these runs checks one statement of a comment or a document, and TLC
finds a behaviour of the code that contradicts it. The details and quotations are
in `PROJECT.json`.

| Run | Statement | What the code does |
|---|---|---|
| `stale_expansion` | the active span's context is propagated | a span allocated where an earlier, freed one was has that one's expansion served |
| `operation_name` | the default name is the first block's | the name is set again at the end, from the last location |
| `broken_context` | a broken context is destroyed so that tracing does not go on | another request's slot still names it, and its next handler uses it |
| `log_subrequest` | only subrequests that are logged are traced | enabled is asked in one location, logging in another |
| `tag_order` | the most specific tag comes last | the order is a hash table's, which matters for patterns that evaluate to one key |

Some behaviours are surprising without contradicting a sentence that says
otherwise, and are part of the models: a main request first traced after one of
its subrequests hangs below that subrequest's span; headers fixed before a second
`opentracing_load_tracer` keep the first tracer's keys, which is why
`LoadedOncePropagates` speaks of files with one; default tags give way to a
location's tags on a location span and override them on a request span
(`LocationSpansHaveTheirTags`, `RequestSpansKeepUntracedTags`).

## 4. The proofs

Every theorem is for any values of the constants that satisfy the named
assumptions of the modules, which TLC evaluates in the runs.

`TracingContext_proofs`, for any set of requests and locations, any directives,
addresses, bound and faults:

* `TypeCorrect`: `Spec => []TypeOK`. `TypeOK` carries `LiveTraces`: a live
  context has a first trace, which `on_change_block` dereferences untested. The
  lemmas, most of them in `RequestTracing_proofs`, give the type of what each
  operator of `RequestTracing` returns, then of each action.
* `ContextInvariant`, `NewestOwns` and `OneContext`: `ContextInv`,
  `NewestCleanupOwnsIt` and `OwnedByOneCleanup` are invariants. The last two are
  not inductive: a second context could appear if a request that should recover
  the first one did not look for it. `ContextInv` adds why each of them does: a
  subrequest being processed is internal (`SubsInternal`), and a main request
  that is not internal and still looks for its first location has seen no
  context created (`FirstBlock`). Then `NothingToRecover` says that whoever gets
  no context when it enters a block could have recovered one, so there is none,
  and a new one is the only one.
* `OneTrace`: `Spec => []OneTracePerRequest`, from `find_trace` being asked
  before a trace is added.
* `NoUseAfterDelete`: assuming that no span fails to start (`EverySpanStarts`),
  `CtxAlive` and `DestroyedNotUsed`. Without faults a context is deleted by the
  pool's cleanup only (`KeptUntilFreed`). The assumption is needed: the run
  `broken_context` is its counterexample. It is in the theorem's statement.

`SpanOwnership_proofs`, with no assumption about faults: what a state says of
the spans.

* `SpanInvariant`: `Spec => []SpanInv`. `ActiveSpanOpen`, say, is not inductive:
  the next step may reach the trace of another request, finish a span that two
  traces own, or find a `span_` that a failure left behind. `SpanInv` says who
  owns what. A live context's traces own the spans they name, different ones,
  and each is open exactly while the trace's handlers may still act on it
  (`LiveTracesOwn`, which also says how old a stale expansion can be, and that a
  request whose trace may still be used finds the context again). A span that is
  not freed is in some trace (`NoSpanLeaked`). A location span is finished no
  later than its request span (`LocationsNested`), and subrequests run within
  their main request (`MainOutlivesSubs`).
* The steps are analysed through effects, not through the code's definitions
  again and again. `Calls(before, after, F, D, T)` in `RequestTracing_proofs` says
  that `after` is `before` with the spans in `F` finished, those in `D` freed,
  those in `T` tagged or renamed and nothing else done, but for new spans at the
  end. One lemma per method (constructor, `on_change_block`, `on_exit_block`,
  `on_log_request`, the destructors) gives its sets and the trace it leaves.
* `ActiveOpen`, `LoggedFinished`, `LocationsFirst`, `StaleIsOld`: the invariants
  `ActiveSpanOpen`, `FinishedWhenLogged`, `LocationsFinishFirst` and
  `StaleExpansionIsOld` follow from `SpanInv`.

`SpanHistory_proofs`: what a step does to the spans.

* `ClosedFinal`, `ParentOpen`, `Abandoned`: the action properties. `Acts` says
  of each step that the spans it names, tags and finishes are open, that those it
  starts hang below open ones, and which it may free unfinished. `Abandoned`
  assumes `EverySpanStarts`: after a failure the context is destroyed on purpose,
  with the spans of requests that go on.
* `OneTree`: `Spec => []OneRoot`, assuming that only `Inject` may fail. A failed
  start, or a cleanup entry that cannot be allocated, leaves requests without the
  context that others had, and the next one starts a second root. Its invariant
  `RootInv` says why no other behaviour does: as long as a handler may run and
  there is no context, no span was ever started.
* `ImplementsTree`: `Spec => ImplementsTraceTree`, with all faults. The initial
  states map to initial states under `SpanNodes`, and each handler's effect, as
  `Calls` states it, is one step of the tree or a stutter. Where a request hangs
  needs an invariant of its own, `Rooted` (`AlwaysRooted`): the request span of
  the first trace of a live context is the newest span without a parent. A first
  traced block is `Begin`, or `FalseStart` if its context cannot be kept; the
  next one is `Enter`, or `BreakDown` if a span cannot be started; logging is
  `End`, and the cleanup `Teardown`.

`SpanTags_proofs`, for any tags, scripts and directives:

* `TagsInvariant`: `Spec => []TagsInv`: the span that a trace tags on leaving a
  block is that block's, and was not tagged before. `SpanInv` is needed for it:
  two traces with one span could tag it twice.
* `OwnTags`, `KeptTags`: from the layers to the values that a backend shows, by
  what the last value with a key in a concatenation of groups is.

`Propagation_proofs`, for any keys, alphabet, addresses and bounds:

* `SameVariable`, `SameParameter`: two keys share a variable, or a FastCGI
  parameter, exactly when they are alike up to case and dashes. This is what the
  others need of the two transformations.
* `HeadersReadOnce`: `Spec => []EachHeaderReadOnce`. `ReadInv` says that while the
  loop of `for_each` runs, its callback was called with the headers of the parts
  before, then those of the part up to the index, and that no part but the first
  is empty, which is what lets the loop go on to the next part without looking.
  The reference `FlattenSeq` is a recursive function: that it has values, and only
  those, is proved by the least index where one is missing or differs.
* `OneContextSent`, `HeadersCarryOwnContext`, `OneValuePerParameter`: what an
  upstream request is sent, from the invariant that the cached expansion is that
  of one span's list of keys (`IsExpansion`).
* `InjectedOncePerBlock`: from the querier holding the active span's address as
  soon as one injection was made in the block.

`Configuration_proofs`, for any nesting of blocks and any file:

* `TypeCorrect`. The lemmas about merging are the work: the map's keys are
  finite, a key's last tag exists, and what is written over an array is tags.
* `MergeLocal`: `Spec => MergeTouchesOneBlock`. Two blocks share an array only
  once both are merged (`SharedInv`), so the array that a merge writes into,
  that of a block not yet merged, is read by no other block.
* `NearestSlots`, `NearestTags`: `NearestSlotWins` and `NearestTagWins`. Merging
  looks at one block around another; the properties speak of all of them.
  `Enclosing(b)` is the smallest set with `b` that has the block around each of
  its members, so that it is `b` with `Enclosing(Around[b])` without an induction;
  no opened block is in the `Enclosing` of the one around it (`Nested`), so that
  the nearest of some places is one place. `SlotsInv` and `LocTagsInv` say that a
  block not yet merged has what it gives, a setting once and of each tag the
  last, and a merged one what is nearest. For tags, `TagsWritten` is the lemma
  that matters: the map is written over an array that may be longer, since tags
  may be given twice, and what is left at its end are the last tags of their
  keys, which are the ones in the map. `BlocksAssumption` says that no block is
  the value of a setting that is not given.
* `KeysOfTheTracer`: `Spec => []LoadedOncePropagates`. The property speaks of a
  serving worker; `SentInv` speaks of the file while it is read: nothing is
  propagated without a library, and as long as there is one directive for a
  tracer, the blocks that propagate send the known keys and no others. A second
  tracer directive is what breaks it, and what the property excludes.

`Worker_proofs`, for any number of workers and reloads:

* `LibraryOutlivesObjects`, `NothingInherited`, `NoUntracedWorker`: `CodeMapped`,
  `WorkersStartClean` and `ServesTraced`, from one invariant that says what each
  process's local variables hold at each step.

Model-checked only: the liveness properties `AllSpansEnd`, `AllSpansFinish` and
`WorkersQuit`, since TLAPS has no reasoning about fairness and `ENABLED`, and the
five statements that the code does not keep (section 3). Every invariant and
action property of a passing run is a theorem.

## 5. Not modelled

The text of names, values and logs, and times. What a tracer does with a span
beyond starting, tagging, injecting and finishing it, and what it makes of the
headers it is shown. Allocation failures while the file is parsed, and
exceptions thrown there by one. The script engine of nginx: a script compiles or
not, and evaluates to a text or cannot be run. The upstream modules' own
handling of the headers they are given. Characters of a key that nginx does not
allow in the name of a variable. The build, the packaging and the examples have no
program state.

## 6. Plan

Done: the models, the runs, and a theorem for each invariant and action property
they check. What is left:

1. theorems that say more than a run's property: under which conditions on the
   directives the statements of section 3 do hold (a file without two patterns
   for one key keeps the most specific tag; locations that all log subrequests
   finish all of them);
2. that `Propagation`'s steps are those of `TracingContext` as far as the querier
   sees them, so that what is proved of the headers is of the same active span;
3. the scripts' engine and the conversions of times, if a property needs them.
