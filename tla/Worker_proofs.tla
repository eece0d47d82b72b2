---------------------------- MODULE Worker_proofs ----------------------------
(***************************************************************************)
(* Theorems about Worker, for any number of workers and reloads. The       *)
(* inductive invariant says of each process what its local variables hold  *)
(* at each step, and when it has a kept handle.                            *)
(***************************************************************************)
EXTENDS Worker, TLAPS

Steps == {"parsing", "running", "opening", "loaded", "made", "returned",
          "injecting", "unwinding", "starting", "serving", "quitting", "exiting",
          "gone", "failed"}

TypeOK ==
    /\ pc \in [Processes -> Steps]
    /\ held \in [Processes -> SUBSET Locals]
    /\ error \in [Processes -> BOOLEAN]
    /\ kept \in [Processes -> BOOLEAN] /\ global \in [Processes -> BOOLEAN]
    /\ lua \in [Processes -> BOOLEAN] /\ request \in [Processes -> BOOLEAN]
    /\ tracer_library \in [Processes -> BOOLEAN]
    /\ parsed_library \in BOOLEAN

\* What a process holds in local variables. While it unwinds only this is
\* left: a handle is there as long as something that needs it.
LocalsInv(p) ==
    /\ pc[p] = "loaded" => held[p] = {"handle_maybe"}
    /\ pc[p] = "made" => held[p] = {"handle_maybe", "tracer_maybe"}
    /\ pc[p] = "returned" => held[p] = {"handle", "tracer"}
    /\ pc[p] = "injecting" => held[p] = {"handle", "tracer", "span"}
    /\ pc[p] = "unwinding" =>
         /\ "tracer" \in held[p] \/ "span" \in held[p] => "handle" \in held[p]
         /\ "tracer_maybe" \in held[p] => "handle_maybe" \in held[p]
    /\ pc[p] \notin {"loaded", "made", "returned", "injecting", "unwinding"} =>
         held[p] = {}

\* What it holds outside: nothing before a worker serves.
ObjectsInv(p) ==
    /\ global[p] \/ lua[p] \/ request[p] => kept[p]
    /\ kept[p] => p # Master /\ pc[p] \in {"serving", "quitting", "exiting"}

TracedInv(p) == 
    pc[p] \in {"serving", "quitting"} /\ tracer_library[p] => p = Master \/ global[p]

Inv == TypeOK /\ \A p \in Processes : LocalsInv(p) /\ ObjectsInv(p) /\ TracedInv(p)

\* The master starts with nothing.
LEMMA InitInv == Init => Inv
  BY WorkerAssumption
  DEF Init, Inv, TypeOK, LocalsInv, ObjectsInv, TracedInv, Processes, Steps, Locals

-----------------------------------------------------------------------------
\* The local variables, by name.
LEMMA LocalsAre ==
    Locals = {"handle", "tracer", "handle_maybe", "tracer_maybe", "span"}
  BY DEF Locals, DeclaredAt

(* One lemma for the steps of a load, one for those of the master, one for  *)
(* those of a worker.                                                       *)

\* load_tracer keeps it wherever it is called and however it ends,
LEMMA LoadInv ==
    ASSUME Inv, NEW p \in Processes, LoadStep(p)
    PROVE  Inv'
<1> USE DEF Inv, object_vars, conf_vars, Goto
<1>1. CASE DynamicallyLoadTracingLibrary(p)
  <2>1. TypeOK'
    <3>1. /\ pc' \in [Processes -> Steps] /\ error' \in [Processes -> BOOLEAN]
      BY <1>1 DEF DynamicallyLoadTracingLibrary, Fail, TypeOK, Steps
    <3>2. held' = held \/ \E h \in SUBSET Locals : held' = [held EXCEPT ![p] = h]
      BY <1>1, LocalsAre DEF DynamicallyLoadTracingLibrary, Fail, TypeOK
    <3>3. held' \in [Processes -> SUBSET Locals]
      BY <3>2 DEF TypeOK
    <3> QED BY <1>1, <3>1, <3>3 DEF DynamicallyLoadTracingLibrary, TypeOK
  <2>2. \A q \in Processes : LocalsInv(q)'
    BY <1>1 DEF DynamicallyLoadTracingLibrary, Fail, TypeOK, LocalsInv
  <2>3. \A q \in Processes : ObjectsInv(q)' /\ TracedInv(q)'
    BY <1>1 DEF DynamicallyLoadTracingLibrary, Fail, TypeOK, ObjectsInv, TracedInv
  <2> QED BY <2>1, <2>2, <2>3
<1>2. CASE MakeTracer(p)
  <2>1. TypeOK'
    <3>1. /\ pc' \in [Processes -> Steps] /\ error' \in [Processes -> BOOLEAN]
      BY <1>2 DEF MakeTracer, Fail, TypeOK, Steps
    <3>2. held' = held \/ \E h \in SUBSET Locals : held' = [held EXCEPT ![p] = h]
      BY <1>2, LocalsAre DEF MakeTracer, Fail, TypeOK
    <3>3. held' \in [Processes -> SUBSET Locals]
      BY <3>2 DEF TypeOK
    <3> QED BY <1>2, <3>1, <3>3 DEF MakeTracer, TypeOK
  <2>2. \A q \in Processes : LocalsInv(q)'
    BY <1>2 DEF MakeTracer, Fail, TypeOK, LocalsInv
  <2>3. \A q \in Processes : ObjectsInv(q)' /\ TracedInv(q)'
    BY <1>2 DEF MakeTracer, Fail, TypeOK, ObjectsInv, TracedInv
  <2> QED BY <2>1, <2>2, <2>3
<1>3. CASE load_tracer(p)
  BY <1>3, LocalsAre
  DEF load_tracer, TypeOK, LocalsInv, ObjectsInv, TracedInv, Steps
<1>4. CASE Unwind(p)
  <2>1. PICK v \in held[p] :
          /\ \A u \in held[p] : DeclaredAt[u] <= DeclaredAt[v]
          /\ held' = [held EXCEPT ![p] = @ \ {v}]
    BY <1>4 DEF Unwind
  <2>2. /\ DeclaredAt["handle"] = 1 /\ DeclaredAt["tracer"] = 2
        /\ DeclaredAt["handle_maybe"] = 3 /\ DeclaredAt["tracer_maybe"] = 4
        /\ DeclaredAt["span"] = 5
    BY DEF DeclaredAt
  <2>3. /\ "tracer" \in held[p] \/ "span" \in held[p] => v # "handle"
        /\ "tracer_maybe" \in held[p] => v # "handle_maybe"
    BY <2>1, <2>2
  <2>4. TypeOK'
    BY <1>4, <2>1 DEF Unwind, TypeOK
  <2>5. \A q \in Processes : LocalsInv(q)'
    BY <1>4, <2>1, <2>3 DEF Unwind, TypeOK, LocalsInv
  <2>6. \A q \in Processes : ObjectsInv(q)' /\ TracedInv(q)'
    BY <1>4 DEF Unwind, ObjectsInv, TracedInv
  <2> QED BY <2>4, <2>5, <2>6
<1> QED BY <1>1, <1>2, <1>3, <1>4 DEF LoadStep

\* so do the master's other steps,
LEMMA MasterInv ==
    ASSUME Inv, MasterStep
    PROVE  Inv'
<1> USE DEF Inv, object_vars, conf_vars, Goto
<1>0. Master \in Processes BY DEF Processes
<1>1. CASE LoadStep(Master)
  BY <1>0, <1>1, LoadInv
<1>2. CASE set_tracer
  BY <1>0, <1>2 DEF set_tracer, TypeOK, LocalsInv, ObjectsInv, TracedInv, Steps
<1>3. CASE StartSpan
  <2>1. TypeOK'
    BY <1>0, <1>3, LocalsAre DEF StartSpan, TypeOK, Steps
  <2>2. \A q \in Processes : LocalsInv(q)'
    BY <1>0, <1>3 DEF StartSpan, TypeOK, LocalsInv
  <2>3. \A q \in Processes : ObjectsInv(q)' /\ TracedInv(q)'
    BY <1>0, <1>3 DEF StartSpan, TypeOK, ObjectsInv, TracedInv
  <2> QED BY <2>1, <2>2, <2>3
<1>4. CASE Inject
  <2>1. TypeOK'
    BY <1>0, <1>4 DEF Inject, Fail, TypeOK, Steps
  <2>2. \A q \in Processes : LocalsInv(q)' /\ ObjectsInv(q)' /\ TracedInv(q)'
    BY <1>0, <1>4 DEF Inject, Fail, TypeOK, LocalsInv, ObjectsInv, TracedInv
  <2> QED BY <2>1, <2>2
<1>5. CASE discover_span_context_keys
  BY <1>0, <1>5 DEF discover_span_context_keys, TypeOK, LocalsInv, ObjectsInv,
                    TracedInv, Steps
<1>6. CASE Reload
  BY <1>0, <1>6 DEF Reload, TypeOK, LocalsInv, ObjectsInv, TracedInv, Steps
<1>7. CASE ApplyConfiguration
  BY <1>0, <1>7, WorkerAssumption
  DEF ApplyConfiguration, TypeOK, LocalsInv, ObjectsInv, TracedInv, Steps
<1> QED BY <1>1, <1>2, <1>3, <1>4, <1>5, <1>6, <1>7 DEF MasterStep

\* a fork, whose child starts with what the master has,
LEMMA ForkInv ==
    ASSUME Inv, NEW w \in Workers, Fork(w)
    PROVE  Inv'
<1>1. w \in Processes /\ Master \in Processes /\ w # Master
  BY WorkerAssumption DEF Processes
<1>2. /\ held[Master] = {} /\ ~kept[Master] /\ ~global[Master]
      /\ ~lua[w] /\ ~request[w]
  BY <1>1 DEF Inv, Fork, LocalsInv, ObjectsInv, TypeOK
<1>3. TypeOK'
  BY <1>1, <1>2 DEF Inv, TypeOK, Fork, Goto, Steps
<1>4. \A p \in Processes : LocalsInv(p)' /\ ObjectsInv(p)' /\ TracedInv(p)'
  BY <1>1, <1>2 DEF Inv, TypeOK, Fork, Goto, LocalsInv, ObjectsInv, TracedInv
<1> QED BY <1>3, <1>4 DEF Inv

\* and the steps of a worker and what happens to it.
LEMMA WorkerInv ==
    ASSUME Inv, NEW w \in Workers,
           \/ WorkerStep(w) \/ StartRequest(w) \/ EndRequest(w) \/ Lua(w)
           \/ Terminate(w) \/ Die(w)
    PROVE  Inv'
<1> USE DEF Inv, object_vars, conf_vars, Goto
<1>0. w \in Processes /\ w # Master BY WorkerAssumption DEF Processes
<1>1. CASE LoadStep(w)
  BY <1>0, <1>1, LoadInv
<1>2. CASE opentracing_init_worker(w)
  BY <1>0, <1>2 DEF opentracing_init_worker, TypeOK, LocalsInv, ObjectsInv,
                    TracedInv, Steps
<1>3. CASE InitGlobal(w)
  BY <1>0, <1>3 DEF InitGlobal, TypeOK, LocalsInv, ObjectsInv, TracedInv, Steps
<1>4. ASSUME NEW step \in {"gone", "failed"}, Gone(w, step)
      PROVE  Inv'
  BY <1>0, <1>4 DEF Gone, TypeOK, LocalsInv, ObjectsInv, TracedInv, Steps
<1>5. CASE opentracing_init_worker_failed(w) \/ Exit(w) \/ Die(w)
  BY <1>4, <1>5 DEF opentracing_init_worker_failed, Exit, Die
<1>6. CASE Quit(w)
  BY <1>0, <1>6 DEF Quit, TypeOK, LocalsInv, ObjectsInv, TracedInv, Steps
<1>7. CASE FinishQuitting(w) \/ Terminate(w)
  <2>1. pc[w] \in {"serving", "quitting"} /\ opentracing_exit_worker(w)
    BY <1>7 DEF FinishQuitting, Terminate
  <2>2. TypeOK'
    BY <1>0, <2>1 DEF opentracing_exit_worker, TypeOK, Steps
  <2>3. \A q \in Processes : LocalsInv(q)'
    BY <1>0, <2>1 DEF opentracing_exit_worker, TypeOK, LocalsInv
  <2>4. \A q \in Processes : ObjectsInv(q)' /\ TracedInv(q)'
    BY <1>0, <2>1 DEF opentracing_exit_worker, TypeOK, ObjectsInv, TracedInv
  <2> QED BY <2>2, <2>3, <2>4
<1>8. CASE StartRequest(w) \/ EndRequest(w)
  <2>1. PICK open \in BOOLEAN :
          /\ request' = [request EXCEPT ![w] = open]
          /\ open => global[w]
          /\ UNCHANGED <<pc, held, error, kept, global, lua, conf_vars>>
    BY <1>8 DEF StartRequest, EndRequest
  <2>2. TypeOK'
    BY <1>0, <2>1 DEF TypeOK
  <2>3. \A q \in Processes : LocalsInv(q)'
    BY <2>1 DEF LocalsInv
  <2>4. \A q \in Processes : ObjectsInv(q)' /\ TracedInv(q)'
    BY <1>0, <2>1 DEF TypeOK, ObjectsInv, TracedInv
  <2> QED BY <2>2, <2>3, <2>4
<1>9. CASE Lua(w)
  BY <1>0, <1>9 DEF Lua, TypeOK, LocalsInv, ObjectsInv, TracedInv
<1> QED BY <1>1, <1>2, <1>3, <1>5, <1>6, <1>7, <1>8, <1>9 DEF WorkerStep

\* Every step does; so the invariant holds for good.
LEMMA NextInv == Inv /\ [Next]_vars => Inv'
<1> SUFFICES ASSUME Inv, [Next]_vars PROVE Inv'
  OBVIOUS
<1>1. CASE MasterStep
  BY <1>1, MasterInv
<1>2. CASE \E w \in Workers : Fork(w)
  BY <1>2, ForkInv
<1>3. CASE \E w \in Workers : \/ WorkerStep(w) \/ StartRequest(w) \/ EndRequest(w)
                              \/ Lua(w) \/ Terminate(w) \/ Die(w)
  BY <1>3, WorkerInv
<1>4. CASE UNCHANGED vars
  BY <1>4 DEF vars, Inv, TypeOK, LocalsInv, ObjectsInv, TracedInv
<1> QED BY <1>1, <1>2, <1>3, <1>4 DEF Next

LEMMA InvHolds == Spec => []Inv
  BY InitInv, NextInv, PTL DEF Spec

-----------------------------------------------------------------------------
\* In every process, no tracer or span outlives the library it is of: neither
\* where a load that fails, or a discovery, is unwound, nor in a worker that
\* exits with spans still held by Lua or by requests.
THEOREM LibraryOutlivesObjects == Spec => []CodeMapped
<1>1. Inv => CodeMapped
  BY DEF Inv, CodeMapped, HasObjects, Mapped, LocalsInv, ObjectsInv, TypeOK, Steps
<1> QED BY <1>1, InvHolds, PTL

\* A worker starts without a copy of anything the master loaded.
THEOREM NothingInherited == Spec => []WorkersStartClean
<1>1. Inv => WorkersStartClean
  BY DEF Inv, WorkersStartClean, HasObjects, Mapped, LocalsInv, ObjectsInv, TypeOK,
         Processes
<1> QED BY <1>1, InvHolds, PTL

\* A worker that serves has the tracer its configuration asks for.
THEOREM NoUntracedWorker == Spec => []ServesTraced
<1>1. Inv => ServesTraced
  BY WorkerAssumption DEF Inv, ServesTraced, TracedInv, Processes
<1> QED BY <1>1, InvHolds, PTL
=============================================================================
