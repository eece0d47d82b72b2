------------------------ MODULE TracingContext_proofs ------------------------
(***************************************************************************)
(* Theorems about TracingContext, for any requests, locations, directives, *)
(* addresses, bounds and faults:                                           *)
(*                                                                         *)
(*   TypeCorrect       every variable keeps its type;                      *)
(*   ContextInvariant  whoever should recover the context does, so that it *)
(*                     is the only one;                                    *)
(*   NewestOwns        the lookup in the cleanup list finds it;            *)
(*   OneContext        it is owned by one cleanup entry, once;             *)
(*   OneTrace          no request has two traces in a context;             *)
(*   NoUseAfterDelete  as long as every span can be started, no handler    *)
(*                     meets a deleted context.                            *)
(***************************************************************************)
EXTENDS TracingContext, RequestTracing_proofs, WellFoundedInduction

-----------------------------------------------------------------------------
(* Sequences of traces. *)

\* Replacing a trace of a context replaces nothing else.
LEMMA UpdateTrace ==
  ASSUME NEW ts \in Seq(Seq(Trace)), NEW c \in 1 .. Len(ts), NEW i, NEW e,
         i \in DOMAIN ts[c] => e \in Trace
  PROVE  LET new == [ts EXCEPT ![c][i] = e]
         IN  /\ new \in Seq(Seq(Trace))
             /\ Len(new) = Len(ts)
             /\ \A d \in 1 .. Len(ts) :
                  /\ DOMAIN new[d] = DOMAIN ts[d]
                  /\ \A j \in DOMAIN ts[d] :
                       new[d][j] = IF d = c /\ j = i THEN e ELSE ts[d][j]
<1> DEFINE s == [ts[c] EXCEPT ![i] = e]
           new == [ts EXCEPT ![c] = s]
<1>1. ts[c] \in Seq(Trace)
  OBVIOUS
<1>2. Len(ts[c]) \in Nat /\ ts[c] \in [1 .. Len(ts[c]) -> Trace]
  BY <1>1, LenProperties
<1>3. s \in [1 .. Len(ts[c]) -> Trace]
  BY <1>2
<1>4. s \in Seq(Trace)
  BY <1>2, <1>3, FunctionIsSeq
<1>5. /\ new \in Seq(Seq(Trace))
      /\ Len(new) = Len(ts)
      /\ \A d \in 1 .. Len(ts) : new[d] = IF d = c THEN s ELSE ts[d]
  BY <1>4, ExceptSeq
<1>6. [ts EXCEPT ![c][i] = e] = new
  OBVIOUS
<1>7. /\ DOMAIN s = DOMAIN ts[c]
      /\ \A j \in DOMAIN ts[c] : s[j] = IF j = i THEN e ELSE ts[c][j]
  BY <1>2
<1> HIDE DEF s
<1>8. ASSUME NEW d \in 1 .. Len(ts)
      PROVE  /\ DOMAIN [ts EXCEPT ![c][i] = e][d] = DOMAIN ts[d]
             /\ \A j \in DOMAIN ts[d] :
                  [ts EXCEPT ![c][i] = e][d][j]
                    = IF d = c /\ j = i THEN e ELSE ts[d][j]
  <2>1. [ts EXCEPT ![c][i] = e][d] = IF d = c THEN s ELSE ts[d]
    BY <1>5, <1>6
  <2> QED
    BY <1>7, <2>1
<1>9. /\ [ts EXCEPT ![c][i] = e] \in Seq(Seq(Trace))
      /\ Len([ts EXCEPT ![c][i] = e]) = Len(ts)
  BY <1>5, <1>6
<1> QED
  BY <1>8, <1>9

\* A non-empty set of naturals has a least element, the one Min chooses.
LEMMA MinIsLeast ==
  ASSUME NEW S, S \subseteq Nat, S # {}
  PROVE  Min(S) \in S /\ \A y \in S : Min(S) <= y
<1>1. PICK x \in S : \A y \in S : ~ (<<y, x>> \in OpToRel(<, Nat))
  BY NatLessThanWellFounded, WFMin
<1>2. ASSUME NEW y \in S
      PROVE  x <= y
  <2>1. x \in Nat /\ y \in Nat
    OBVIOUS
  <2>2. ~ (<<y, x>> \in {ss \in Nat \X Nat : ss[1] < ss[2]})
    BY <1>1 DEF OpToRel
  <2>3. ~ (y < x)
    BY <2>1, <2>2
  <2> QED
    BY <2>1, <2>3
<1> QED
  BY <1>2 DEF Min

-----------------------------------------------------------------------------
(* Types. *)

TracingInv == TracingTypeOK /\ LiveTraces

\* The context a request gets is null or one that was created.
LEMMA ContextType ==
  ASSUME TracingTypeOK, NEW r \in Requests
  PROVE  /\ CleanupData \in 0 .. Len(traces)
         /\ get_opentracing_context(r) \in 0 .. Len(traces)
<1>1. CleanupData \in 0 .. Len(traces)
  BY HeadTailProperties DEF TracingTypeOK, CleanupData
<1> QED
  BY <1>1 DEF TracingTypeOK, get_opentracing_context

\* A new context has one trace, its request's, and a cleanup entry of its own.
LEMMA NewContextShape ==
  ASSUME TracingTypeOK, NEW r \in Requests, NEW l \in Locs, NewContext(r, l)
  PROVE  LET c == Len(traces) + 1
         IN  /\ \E t \in Trace :
                  /\ t.request = r
                  /\ traces' \in Seq(Seq(Trace))
                  /\ Len(traces') = c
                  /\ traces'[c] = <<t>>
                  /\ \A d \in 1 .. Len(traces) : traces'[d] = traces[d]
             /\ live' = live \cup {c}
             /\ cleanups' = <<c>> \o cleanups
             /\ ctx' = [ctx EXCEPT ![r] = c]
<1> DEFINE c == Len(traces) + 1
<1>1. PICK a \in FreeAddrs, b \in FreeAddrs :
        set_opentracing_context(r, NewTrace(spans, r, l, a, b))
  BY DEF NewContext
<1> DEFINE t == NewTrace(spans, r, l, a, b)
<1>2. a \in Addr /\ b \in Addr
  BY DEF FreeAddrs
<1>3. t \in Trace /\ t.request = r
  BY <1>2, TraceType DEF TracingTypeOK
<1>4. /\ traces' = Append(traces, <<t>>)
      /\ live' = live \cup {c}
      /\ cleanups' = <<c>> \o cleanups
      /\ ctx' = [ctx EXCEPT ![r] = c]
  BY <1>1 DEF set_opentracing_context
<1> HIDE DEF t
<1>5. <<t>> \in Seq(Trace)
  BY <1>3
<1>6. /\ traces' \in Seq(Seq(Trace))
      /\ Len(traces') = c
      /\ traces'[c] = <<t>>
      /\ \A d \in 1 .. Len(traces) : traces'[d] = traces[d]
  BY <1>4, <1>5, AppendProperties DEF TracingTypeOK
<1> HIDE DEF c
<1>7. \E u \in Trace :
        /\ u.request = r
        /\ traces' \in Seq(Seq(Trace))
        /\ Len(traces') = c
        /\ traces'[c] = <<u>>
        /\ \A d \in 1 .. Len(traces) : traces'[d] = traces[d]
  BY <1>3, <1>6
<1> QED
  BY <1>4, <1>7 DEF c

\* Creating a context keeps the types, whether it succeeds or not.
LEMMA NewContextType ==
  ASSUME TracingInv, NEW r \in Requests, NEW l \in Locs,
         NewContext(r, l) \/ NewContextFails(r, l)
  PROVE  TracingInv'
<1> USE DEF TracingInv, TracingTypeOK
<1>0. None \in Nat
  BY DEF None
<1>1. CASE NewContext(r, l)
  <2> DEFINE c == Len(traces) + 1
  <2>1. PICK t \in Trace :
          /\ traces' \in Seq(Seq(Trace))
          /\ Len(traces') = c
          /\ traces'[c] = <<t>>
          /\ \A d \in 1 .. Len(traces) : traces'[d] = traces[d]
    BY <1>1, NewContextShape
  <2>2. /\ live' = live \cup {c}
        /\ cleanups' = <<c>> \o cleanups
        /\ ctx' = [ctx EXCEPT ![r] = c]
    BY <1>1, NewContextShape
  <2>3. Len(traces) \in Nat
    BY LenProperties
  <2>4. ctx' \in [Requests -> 0 .. Len(traces')]
    BY <2>1, <2>2, <2>3
  <2>5. cleanups' \in Seq(0 .. Len(traces'))
    <3>1. <<c>> \in Seq(0 .. Len(traces'))
      BY <2>1, <2>3
    <3>2. cleanups \in Seq(0 .. Len(traces'))
      BY <2>1, <2>3, SeqMonotonic
    <3> QED
      BY <2>2, <3>1, <3>2, ConcatProperties
  <2>6. spans' \in Seq(Span)
    BY <1>0, <1>1, StartTraceType DEF NewContext
  <2>7. LiveTraces'
    <3>1. \A u \in Trace : <<u>> # <<>>
      OBVIOUS
    <3> QED
      BY <2>1, <2>2, <3>1 DEF LiveTraces
  <2>8. live' \subseteq 1 .. Len(traces')
    <3>1. live \subseteq 1 .. Len(traces)
      OBVIOUS
    <3>2. 1 .. c = 1 .. Len(traces')
      BY <2>1
    <3>3. \A n \in Nat : 1 .. n \subseteq 1 .. n + 1 /\ n + 1 \in 1 .. n + 1
      OBVIOUS
    <3>4. live \cup {c} \subseteq 1 .. c
      BY <2>3, <3>1, <3>3
    <3> QED
      BY <2>2, <3>2, <3>4
  <2> QED
    BY <1>1, <2>1, <2>4, <2>5, <2>6, <2>7, <2>8 DEF NewContext
<1>2. CASE NewContextFails(r, l)
  <2>1. spans' \in Seq(Span)
    <3>1. RequestSpan(r, l, None) \in Span
      BY <1>0, StartedSpanType
    <3>2. Append(spans, RequestSpan(r, l, None)) \in Seq(Span)
      BY <3>1
    <3>3. StartTrace(spans, r, l, None) \in Seq(Span)
      BY <1>0, StartTraceType
    <3> QED
      BY <1>0, <1>2, <3>2, <3>3, TracerCallsType DEF NewContextFails
  <2> QED
    BY <1>2, <2>1 DEF NewContextFails, LiveTraces
<1> QED
  BY <1>1, <1>2

\* find_trace returns a trace of the request, when there is one.
LEMMA FoundTrace ==
  ASSUME TracingTypeOK, NEW r \in Requests, NEW c \in live, HasTrace(c, r)
  PROVE  /\ c \in 1 .. Len(traces)
         /\ traces[c] \in Seq(Trace)
         /\ find_trace(c, r) \in DOMAIN traces[c]
         /\ traces[c][find_trace(c, r)] \in Trace
         /\ traces[c][find_trace(c, r)].request = r
<1>1. c \in 1 .. Len(traces) /\ traces \in Seq(Seq(Trace))
  BY DEF TracingTypeOK
<1>2. traces[c] \in Seq(Trace)
  BY <1>1
<1>3. TracesOf(c, r) \subseteq Nat /\ TracesOf(c, r) # {}
  BY <1>2 DEF TracesOf, HasTrace
<1>4. find_trace(c, r) \in TracesOf(c, r)
  BY <1>3, MinIsLeast DEF find_trace
<1> QED
  BY <1>1, <1>2, <1>4 DEF TracesOf

\* A live context has a first trace.
LEMMA RootTrace ==
  ASSUME TracingInv, NEW c \in live
  PROVE  /\ c \in 1 .. Len(traces)
         /\ traces[c] \in Seq(Trace)
         /\ traces[c][1] \in Trace
         /\ traces[c][1].request_span.id \in Nat
<1>1. /\ c \in 1 .. Len(traces)
      /\ traces \in Seq(Seq(Trace))
      /\ traces[c] # <<>>
  BY DEF TracingInv, TracingTypeOK, LiveTraces
<1>2. traces[c] \in Seq(Trace)
  BY <1>1
<1>3. traces[c][1] \in Trace
  BY <1>1, <1>2, EmptySeq
<1> QED
  BY <1>1, <1>2, <1>3 DEF Trace, Ptr

\* A trace moved to another block, or one added, keeps the types.
LEMMA ChangeType ==
  ASSUME TracingInv, NEW r \in Requests, NEW l \in Locs, NEW c \in live,
         ChangeBlock(r, l, c) \/ AddTrace(r, l, c)
  PROVE  TracingInv'
<1>1. CASE ChangeBlock(r, l, c)
  <2> DEFINE i == find_trace(c, r)
  <2>1. /\ c \in 1 .. Len(traces)
        /\ traces[c] \in Seq(Trace)
        /\ i \in DOMAIN traces[c]
        /\ traces[c][i] \in Trace
    BY <1>1, FoundTrace DEF ChangeBlock, TracingInv
  <2>2. PICK a \in FreeAddrs :
          traces' = [traces EXCEPT ![c][i] = on_change_block(spans, @, l, a)]
    BY <1>1 DEF ChangeBlock
  <2> DEFINE e == on_change_block(spans, traces[c][i], l, a)
  <2>3. e \in Trace
    BY <2>1, <2>2, TraceType DEF FreeAddrs, TracingInv, TracingTypeOK
  <2>4. traces' = [traces EXCEPT ![c][i] = e]
    BY <2>2
  <2>5. spans' = on_change_block_spans(spans, traces[c][i], l)
    BY <1>1 DEF ChangeBlock
  <2> HIDE DEF i, e
  <2>6. /\ traces' \in Seq(Seq(Trace))
        /\ Len(traces') = Len(traces)
        /\ \A d \in 1 .. Len(traces) : DOMAIN traces'[d] = DOMAIN traces[d]
    BY <2>1, <2>3, <2>4, UpdateTrace DEF TracingInv, TracingTypeOK
  <2>7. spans' \in Seq(Span)
    BY <2>1, <2>5, TraceCallsType DEF TracingInv, TracingTypeOK
  <2>8. TracingTypeOK'
    <3>1. ctx' \in [Requests -> 0 .. Len(traces)]
      BY <1>1, <2>1 DEF ChangeBlock, TracingInv, TracingTypeOK
    <3> QED
      BY <1>1, <2>6, <2>7, <3>1 DEF ChangeBlock, TracingInv, TracingTypeOK
  <2>9. LiveTraces'
    <3>1. ASSUME NEW d \in live
          PROVE  traces'[d] # <<>>
      <4>1. /\ d \in 1 .. Len(traces)
            /\ traces[d] \in Seq(Trace)
            /\ traces[d] # <<>>
        BY DEF TracingInv, TracingTypeOK, LiveTraces
      <4>2. Len(traces[d]) \in Nat \ {0} /\ DOMAIN traces[d] = 1 .. Len(traces[d])
        BY <4>1, EmptySeq, LenProperties
      <4>3. 1 \in DOMAIN traces'[d]
        BY <2>6, <4>1, <4>2
      <4>4. 1 \notin DOMAIN <<>>
        OBVIOUS
      <4> QED
        BY <4>3, <4>4
    <3> QED
      BY <1>1, <3>1 DEF ChangeBlock, LiveTraces
  <2> QED
    BY <2>8, <2>9 DEF TracingInv
<1>2. CASE AddTrace(r, l, c)
  <2>1. /\ c \in 1 .. Len(traces)
        /\ traces[c] \in Seq(Trace)
        /\ traces[c][1].request_span.id \in Nat
    BY RootTrace
  <2>2. PICK a \in FreeAddrs, b \in FreeAddrs :
          traces' = [traces EXCEPT ![c] = Append(@, NewTrace(spans, r, l, a, b))]
    BY <1>2 DEF AddTrace
  <2> DEFINE t == NewTrace(spans, r, l, a, b)
  <2>3. t \in Trace
    BY <2>2, TraceType DEF FreeAddrs, TracingInv, TracingTypeOK
  <2> HIDE DEF t
  <2>4. Append(traces[c], t) \in Seq(Trace) /\ Append(traces[c], t) # <<>>
    BY <2>1, <2>3, AppendProperties
  <2>5. traces' = [traces EXCEPT ![c] = Append(traces[c], t)]
    BY <2>2 DEF t
  <2>6. /\ traces' \in Seq(Seq(Trace))
        /\ Len(traces') = Len(traces)
        /\ \A d \in 1 .. Len(traces) :
             traces'[d] = IF d = c THEN Append(traces[c], t) ELSE traces[d]
    BY <2>1, <2>4, <2>5, ExceptSeq DEF TracingInv, TracingTypeOK
  <2>7. spans' \in Seq(Span)
    BY <1>2, <2>1, StartTraceType DEF AddTrace, TracingInv, TracingTypeOK
  <2>8. TracingTypeOK'
    <3>1. ctx' \in [Requests -> 0 .. Len(traces)]
      BY <1>2, <2>1 DEF AddTrace, TracingInv, TracingTypeOK
    <3> QED
      BY <1>2, <2>6, <2>7, <3>1 DEF AddTrace, TracingInv, TracingTypeOK
  <2>9. LiveTraces'
    BY <1>2, <2>4, <2>6 DEF AddTrace, TracingInv, TracingTypeOK, LiveTraces
  <2> QED
    BY <2>8, <2>9 DEF TracingInv
<1> QED
  BY <1>1, <1>2

\* Destroying the context keeps the types.
LEMMA DestroyType ==
  ASSUME TracingInv, NEW r \in Requests, NEW sp \in Seq(Span),
         destroy_opentracing_context(r, sp)
  PROVE  TracingInv'
<1> DEFINE d == CleanupData
<1>1. d \in 0 .. Len(traces)
  BY ContextType DEF TracingInv
<1>2. <<>> \in Seq(Trace)
  OBVIOUS
<1>3. /\ traces' \in Seq(Seq(Trace))
      /\ Len(traces') = Len(traces)
      /\ \A c \in 1 .. Len(traces) : c # d => traces'[c] = traces[c]
  <2>1. CASE d = 0
    BY <2>1 DEF destroy_opentracing_context, TracingInv, TracingTypeOK
  <2>2. CASE d # 0
    <3>1. traces' = [traces EXCEPT ![d] = <<>>] /\ d \in 1 .. Len(traces)
      BY <1>1, <2>2 DEF destroy_opentracing_context
    <3> QED
      BY <1>2, <3>1, ExceptSeq DEF TracingInv, TracingTypeOK
  <2> QED
    BY <2>1, <2>2
<1>4. live' = live \ {d}
  BY <1>1 DEF destroy_opentracing_context, TracingInv, TracingTypeOK
<1>5. spans' \in Seq(Span)
  BY TracerCallsType DEF destroy_opentracing_context
<1>6. ctx' \in [Requests -> 0 .. Len(traces)]
  <2>1. Len(traces) \in Nat
    BY LenProperties DEF TracingInv, TracingTypeOK
  <2>2. ctx' = ctx \/ ctx' = [ctx EXCEPT ![r] = 0]
    BY DEF destroy_opentracing_context
  <2>3. ctx \in [Requests -> 0 .. Len(traces)] /\ 0 \in 0 .. Len(traces)
    BY <2>1 DEF TracingInv, TracingTypeOK
  <2> QED
    BY <2>2, <2>3
<1>7. cleanups' \in Seq(0 .. Len(traces))
  <2>1. CASE cleanups = <<>>
    BY <2>1 DEF destroy_opentracing_context, TracingInv, TracingTypeOK
  <2>2. CASE cleanups # <<>>
    <3>1. Len(traces) \in Nat
      BY LenProperties DEF TracingInv, TracingTypeOK
    <3>2. 1 \in 1 .. Len(cleanups) /\ cleanups \in Seq(0 .. Len(traces))
      BY <2>2, EmptySeq DEF TracingInv, TracingTypeOK
    <3>3. cleanups' = [cleanups EXCEPT ![1] = 0]
      BY <2>2 DEF destroy_opentracing_context
    <3> QED
      BY <3>1, <3>2, <3>3, ExceptSeq
  <2> QED
    BY <2>1, <2>2
<1> HIDE DEF d
<1>8. TracingTypeOK'
  BY <1>3, <1>4, <1>5, <1>6, <1>7
  DEF destroy_opentracing_context, TracingInv, TracingTypeOK
<1>9. LiveTraces'
  BY <1>3, <1>4 DEF TracingInv, TracingTypeOK, LiveTraces
<1> QED
  BY <1>8, <1>9 DEF TracingInv

\* So does a change of block that fails.
LEMMA ChangeFailsType ==
  ASSUME TracingInv, NEW r \in Requests, NEW l \in Locs, NEW c \in live,
         ChangeBlockFails(r, l, c)
  PROVE  TracingInv'
<1> DEFINE i == find_trace(c, r)
           root == traces[c][1].request_span.id
<1>1. PICK sp \in Seq(Span) : destroy_opentracing_context(r, sp)
  <2>0. spans \in Seq(Span)
    BY DEF TracingInv, TracingTypeOK
  <2>1. CASE HasTrace(c, r) /\ destroy_opentracing_context(
                                 r, on_exit_block(spans, traces[c][i]))
    <3>1. traces[c][i] \in Trace
      BY <2>1, FoundTrace DEF TracingInv
    <3>2. on_exit_block(spans, traces[c][i]) \in Seq(Span)
      BY <2>0, <3>1, TraceCallsType
    <3> QED
      BY <2>1, <3>2
  <2>2. CASE destroy_opentracing_context(r, spans)
    BY <2>0, <2>2
  <2>3. CASE destroy_opentracing_context(
               r, DestroySpans(Append(spans, RequestSpan(r, l, root)),
                               {Len(spans) + 1}))
    <3>1. root \in Nat
      BY RootTrace
    <3>2. RequestSpan(r, l, root) \in Span
      BY <3>1, StartedSpanType
    <3> HIDE DEF root
    <3>3. Append(spans, RequestSpan(r, l, root)) \in Seq(Span)
      BY <2>0, <3>2
    <3>4. DestroySpans(Append(spans, RequestSpan(r, l, root)), {Len(spans) + 1})
            \in Seq(Span)
      BY <3>1, <3>3, TracerCallsType
    <3> QED
      BY <2>3, <3>4
  <2> QED
    BY <2>1, <2>2, <2>3 DEF ChangeBlockFails
<1> QED
  BY <1>1, DestroyType

\* Entering a block keeps the types.
LEMMA EnterType ==
  ASSUME TracingInv, NEW r \in Requests, NEW l \in Locs, on_enter_block(r, l)
  PROVE  TracingInv'
<1> DEFINE c == get_opentracing_context(r)
<1>1. CASE UNCHANGED tracing_vars
  BY <1>1 DEF tracing_vars, TracingInv, TracingTypeOK, LiveTraces
<1>2. CASE NewContext(r, l) \/ NewContextFails(r, l)
  BY <1>2, NewContextType
<1>3. CASE c \in live /\ (ChangeBlock(r, l, c) \/ AddTrace(r, l, c))
  BY <1>3, ChangeType
<1>4. CASE c \in live /\ ChangeBlockFails(r, l, c)
  BY <1>4, ChangeFailsType
<1>5. CASE UseAfterDelete
  BY <1>5 DEF UseAfterDelete, TracingInv, TracingTypeOK, LiveTraces
<1> QED
  BY <1>1, <1>2, <1>3, <1>4, <1>5 DEF on_enter_block

\* A request's ctx slot may be set to the context it got.
LEMMA SlotType ==
  ASSUME TracingTypeOK, NEW r \in Requests
  PROVE  [ctx EXCEPT ![r] = get_opentracing_context(r)]
           \in [Requests -> 0 .. Len(traces)]
<1>1. get_opentracing_context(r) \in 0 .. Len(traces)
  BY ContextType
<1>2. ctx \in [Requests -> 0 .. Len(traces)]
  BY DEF TracingTypeOK
<1> QED
  BY <1>1, <1>2

\* Reading a variable keeps the types.
LEMMA VariableType ==
  ASSUME TracingInv, NEW r \in Requests,
         \/ expand_opentracing_context_variable(r)
         \/ expand_opentracing_binary_context_variable(r)
  PROVE  TracingInv'
<1> DEFINE c == get_opentracing_context(r)
           i == find_trace(c, r)
<1>1. [ctx EXCEPT ![r] = c] \in [Requests -> 0 .. Len(traces)]
  BY SlotType DEF TracingInv
<1>2. CASE /\ c \in live
           /\ HasTrace(c, r)
           /\ \E injected \in BOOLEAN :
                traces' = [traces EXCEPT ![c][i] =
                             lookup_span_context_value(@, injected)]
           /\ ctx' = [ctx EXCEPT ![r] = c]
           /\ UNCHANGED <<cleanups, live, spans, worker>>
  <2>1. PICK injected \in BOOLEAN :
          traces' = [traces EXCEPT ![c][i] =
                       lookup_span_context_value(@, injected)]
    BY <1>2
  <2> DEFINE e == lookup_span_context_value(traces[c][i], injected)
  <2>2. /\ c \in 1 .. Len(traces)
        /\ i \in DOMAIN traces[c]
        /\ traces[c][i] \in Trace
    BY <1>2, FoundTrace DEF TracingInv
  <2>3. e \in Trace
    BY <2>2, LookupType
  <2>4. traces' = [traces EXCEPT ![c][i] = e]
    BY <2>1
  <2> HIDE DEF c, i, e
  <2>5. /\ traces' \in Seq(Seq(Trace))
        /\ Len(traces') = Len(traces)
        /\ \A d \in 1 .. Len(traces) : DOMAIN traces'[d] = DOMAIN traces[d]
    BY <2>2, <2>3, <2>4, UpdateTrace DEF TracingInv, TracingTypeOK
  <2>6. TracingTypeOK'
    BY <1>1, <1>2, <2>5 DEF TracingInv, TracingTypeOK
  <2>7. LiveTraces'
    <3>1. ASSUME NEW d \in live
          PROVE  traces'[d] # <<>>
      <4>1. /\ d \in 1 .. Len(traces)
            /\ traces[d] \in Seq(Trace)
            /\ traces[d] # <<>>
        BY DEF TracingInv, TracingTypeOK, LiveTraces
      <4>2. Len(traces[d]) \in Nat \ {0} /\ DOMAIN traces[d] = 1 .. Len(traces[d])
        BY <4>1, EmptySeq, LenProperties
      <4>3. 1 \in DOMAIN traces'[d]
        BY <2>5, <4>1, <4>2
      <4>4. 1 \notin DOMAIN <<>>
        OBVIOUS
      <4> QED
        BY <4>3, <4>4
    <3> QED
      BY <1>2, <3>1 DEF LiveTraces
  <2> QED
    BY <2>6, <2>7 DEF TracingInv
<1>3. CASE /\ ctx' = [ctx EXCEPT ![r] = c]
           /\ UNCHANGED <<cleanups, live, traces, spans, worker>>
  BY <1>1, <1>3 DEF TracingInv, TracingTypeOK, LiveTraces
<1>4. CASE UseAfterDelete
  BY <1>4 DEF UseAfterDelete, TracingInv, TracingTypeOK, LiveTraces
<1> QED
  BY <1>2, <1>3, <1>4
  DEF expand_opentracing_context_variable,
      expand_opentracing_binary_context_variable

\* Logging a request keeps the types.
LEMMA LogType ==
  ASSUME TracingInv, NEW r \in Requests, loc[r] \in Locs,
         on_log_request_handler(r)
  PROVE  TracingInv'
<1> DEFINE c == get_opentracing_context(r)
           i == find_trace(c, r)
<1>1. CASE UNCHANGED tracing_vars
  BY <1>1 DEF tracing_vars, TracingInv, TracingTypeOK, LiveTraces
<1>2. CASE /\ c \in live
           /\ spans' = IF HasTrace(c, r)
                       THEN on_log_request(spans, traces[c][i], loc[r])
                       ELSE spans
           /\ ctx' = [ctx EXCEPT ![r] = c]
           /\ UNCHANGED <<cleanups, live, traces, worker>>
  <2>1. [ctx EXCEPT ![r] = c] \in [Requests -> 0 .. Len(traces)]
    BY SlotType DEF TracingInv
  <2>2. HasTrace(c, r) => traces[c][i] \in Trace
    BY <1>2, FoundTrace DEF TracingInv
  <2>3. spans' \in Seq(Span)
    BY <1>2, <2>2, TraceCallsType DEF TracingInv, TracingTypeOK
  <2> HIDE DEF c, i
  <2> QED
    BY <1>2, <2>1, <2>3 DEF TracingInv, TracingTypeOK, LiveTraces
<1>3. CASE UseAfterDelete
  BY <1>3 DEF UseAfterDelete, TracingInv, TracingTypeOK, LiveTraces
<1> QED
  BY <1>1, <1>2, <1>3 DEF on_log_request_handler

\* Destroying the pool keeps the types.
LEMMA PoolType ==
  ASSUME TracingInv, DestroyPool
  PROVE  TracingInv'
<1> DEFINE owned == Contexts \cap {cleanups[i] : i \in DOMAIN cleanups}
<1>1. Len(traces) \in Nat /\ Contexts = 1 .. Len(traces)
  BY LenProperties DEF TracingInv, TracingTypeOK, Contexts
<1>2. traces' = [c \in Contexts |-> IF c \in owned THEN <<>> ELSE traces[c]]
  BY DEF DestroyPool
<1>3. live' = live \ owned
  BY DEF DestroyPool
<1>4. /\ cleanups' = <<>> /\ ctx' = ctx /\ worker' = worker
      /\ spans' = DestroySpans(spans, UNION {OwnedSpans(c) : c \in owned})
  BY DEF DestroyPool
<1> HIDE DEF owned
<1>5. traces' \in [1 .. Len(traces) -> Seq(Trace)]
  <2>1. \A c \in 1 .. Len(traces) : traces[c] \in Seq(Trace)
    BY DEF TracingInv, TracingTypeOK
  <2>2. <<>> \in Seq(Trace)
    OBVIOUS
  <2> QED
    BY <1>1, <1>2, <2>1, <2>2
<1>6. traces' \in Seq(Seq(Trace)) /\ Len(traces') = Len(traces)
  BY <1>1, <1>5, FunctionIsSeq
<1>7. spans' \in Seq(Span)
  BY <1>4, TracerCallsType DEF TracingInv, TracingTypeOK
<1>8. TracingTypeOK'
  <2>1. cleanups' \in Seq(0 .. Len(traces'))
    BY <1>4, <1>6
  <2> QED
    BY <1>3, <1>4, <1>6, <1>7, <2>1 DEF TracingInv, TracingTypeOK
<1>9. LiveTraces'
  BY <1>1, <1>2, <1>3 DEF TracingInv, TracingTypeOK, LiveTraces
<1> QED
  BY <1>8, <1>9 DEF TracingInv

\* No action gives nginx's own variables another type.
LEMMA NginxType ==
  ASSUME NginxTypeOK, Next
  PROVE  NginxTypeOK'
<1> USE DEF NginxTypeOK, Phases
<1>1. ASSUME NEW r \in Requests, FindAgain(r)
      PROVE  NginxTypeOK'
  <2>1. uri_changes'  \in [Requests -> 0 .. MaxUriChanges]
    BY <1>1, MaxUriChangesAssumption DEF FindAgain
  <2>2. ServerLoc \in Locs
    BY LocsAssumption
  <2> QED
    BY <1>1, <2>1, <2>2 DEF FindAgain
<1>2. ASSUME NEW r \in Requests, CreateSubrequest(r)
      PROVE  NginxTypeOK'
  BY <1>2 DEF CreateSubrequest
<1>3. ASSUME NEW r \in Requests, NEW l \in Locs, EnterBlock(r, l)
      PROVE  NginxTypeOK'
  BY <1>3 DEF EnterBlock
<1>4. ASSUME NEW r \in Requests,
             \/ expand_opentracing_context_variable(r)
             \/ expand_opentracing_binary_context_variable(r)
      PROVE  NginxTypeOK'
  BY <1>4 DEF expand_opentracing_context_variable,
              expand_opentracing_binary_context_variable, nginx_vars
<1>5. ASSUME NEW r \in Requests, FinalizeSubrequest(r)
      PROVE  NginxTypeOK'
  BY <1>5 DEF FinalizeSubrequest
<1>6. CASE FinalizeMain
  BY <1>6 DEF FinalizeMain
<1>7. CASE TerminateMain
  BY <1>7 DEF TerminateMain
<1>8. CASE DestroyPool
  BY <1>8 DEF DestroyPool
<1> QED
  BY <1>1, <1>2, <1>3, <1>4, <1>5, <1>6, <1>7, <1>8
  DEF Next, Rewrite, InternalRedirect

\* Nor the module's variables.
LEMMA TracingType ==
  ASSUME NginxTypeOK, TracingInv, Next
  PROVE  TracingInv'
<1>1. ASSUME NEW r \in Requests, Rewrite(r) \/ CreateSubrequest(r)
      PROVE  TracingInv'
  BY <1>1 DEF Rewrite, CreateSubrequest, tracing_vars, TracingInv, TracingTypeOK,
              LiveTraces
<1>2. ASSUME NEW r \in Requests, InternalRedirect(r)
      PROVE  TracingInv'
  <2>1. Len(traces) \in Nat
    BY LenProperties DEF TracingInv, TracingTypeOK
  <2>2. ctx' \in [Requests -> 0 .. Len(traces)]
    BY <1>2, <2>1 DEF InternalRedirect, TracingInv, TracingTypeOK
  <2> QED
    BY <1>2, <2>2 DEF InternalRedirect, TracingInv, TracingTypeOK, LiveTraces
<1>3. ASSUME NEW r \in Requests, NEW l \in Locs, EnterBlock(r, l)
      PROVE  TracingInv'
  BY <1>3, EnterType DEF EnterBlock
<1>4. ASSUME NEW r \in Requests,
             \/ expand_opentracing_context_variable(r)
             \/ expand_opentracing_binary_context_variable(r)
      PROVE  TracingInv'
  BY <1>4, VariableType
<1>5. ASSUME NEW r \in Requests, FinalizeSubrequest(r)
      PROVE  TracingInv'
  <2>1. CASE on_log_request_handler(r)
    BY <2>1, LogType DEF NginxTypeOK
  <2>2. CASE UNCHANGED tracing_vars
    BY <2>2 DEF tracing_vars, TracingInv, TracingTypeOK, LiveTraces
  <2> QED
    BY <1>5, <2>1, <2>2 DEF FinalizeSubrequest
<1>6. CASE FinalizeMain \/ TerminateMain
  <2>1. on_log_request_handler(Main) /\ Main \in Requests
    BY <1>6, RequestsAssumption DEF FinalizeMain, TerminateMain
  <2> QED
    BY <2>1, LogType DEF NginxTypeOK
<1>7. CASE DestroyPool
  BY <1>7, PoolType
<1> QED
  BY <1>1, <1>2, <1>3, <1>4, <1>5, <1>6, <1>7 DEF Next

\* Every variable keeps its type, in every behaviour: no handler takes a trace
\* or a span that does not exist, and a context that exists has a first trace,
\* which on_change_block of opentracing_context.cpp takes without a test.
THEOREM TypeCorrect == Spec => []TypeOK
<1>1. Init => TypeOK
  <2> SUFFICES ASSUME Init PROVE TypeOK
    OBVIOUS
  <2>1. NginxTypeOK
    BY LocsAssumption, MaxUriChangesAssumption DEF Init, NginxTypeOK, Phases
  <2>2. TracingTypeOK /\ LiveTraces
    BY EmptySeq DEF Init, TracingTypeOK, LiveTraces
  <2> QED
    BY <2>1, <2>2 DEF TypeOK
<1>2. TypeOK /\ [Next]_vars => TypeOK'
  <2> SUFFICES ASSUME TypeOK, [Next]_vars PROVE TypeOK'
    OBVIOUS
  <2>1. CASE Next
    BY <2>1, NginxType, TracingType DEF TypeOK, TracingInv
  <2>2. CASE UNCHANGED vars
    BY <2>2 DEF vars, TypeOK, NginxTypeOK, TracingTypeOK, LiveTraces
  <2> QED
    BY <2>1, <2>2
<1> QED
  BY <1>1, <1>2, PTL DEF Spec

-----------------------------------------------------------------------------
(* One context at a time. *)

\* A request that enters a block without a context finds none to recover.
LEMMA NothingToRecover ==
  ASSUME TypeOK, ContextInv, NEW r \in Requests, phase[r] = "find",
         get_opentracing_context(r) = 0
  PROVE  CleanupData = 0
<1>1. CASE internal[r]
  BY <1>1 DEF get_opentracing_context, TypeOK, NginxTypeOK
<1>2. CASE ~internal[r]
  <2>1. r = Main
    BY <1>2 DEF ContextInv, SubsInternal, Subs, Processing
  <2> QED
    BY <1>2, <2>1 DEF ContextInv, FirstBlock, CleanupData
<1> QED
  BY <1>1, <1>2

\* The newest entry owns the only context after a handler that leaves live and
\* the entries alone ...
LEMMA SameOwner ==
  ASSUME NewestEntryOwns, UNCHANGED <<cleanups, live>>
  PROVE  NewestEntryOwns'
BY DEF NewestEntryOwns, CleanupData

\* ... after one that makes a context when there is none ...
LEMMA NewOwner ==
  ASSUME TypeOK, NewestEntryOwns, CleanupData = 0,
         NEW r \in Requests, NEW l \in Locs, NewContext(r, l)
  PROVE  NewestEntryOwns'
<1> DEFINE c == Len(traces) + 1
<1>1. live' = live \cup {c} /\ cleanups' = <<c>> \o cleanups
  BY NewContextShape DEF TypeOK
<1>2. /\ Len(traces) \in Nat
      /\ cleanups \in Seq(0 .. Len(traces))
      /\ traces \in Seq(Seq(Trace))
  BY LenProperties DEF TypeOK, TracingTypeOK
<1>3. c \in Nat \ {0} /\ cleanups \in Seq(Nat)
  BY <1>2, SeqMonotonic
<1> HIDE DEF c
<1>4. <<c>> \in Seq(Nat) /\ Len(<<c>>) = 1 /\ <<c>>[1] = c
  BY <1>3
<1>5. /\ cleanups' \in Seq(Nat)
      /\ Len(cleanups') = 1 + Len(cleanups)
      /\ \A i \in 1 .. 1 + Len(cleanups) :
           cleanups'[i] = IF i = 1 THEN c ELSE cleanups[i - 1]
  BY <1>1, <1>3, <1>4, ConcatProperties
<1>6. \A i \in DOMAIN cleanups : cleanups[i] = 0
  BY <1>3 DEF NewestEntryOwns, CleanupData
<1>7. Len(cleanups) \in Nat /\ DOMAIN cleanups = 1 .. Len(cleanups)
  BY <1>3, LenProperties
<1>8. \A i \in DOMAIN cleanups' : i > 1 => cleanups'[i] = 0
  BY <1>5, <1>6, <1>7
<1>9. CleanupData' = c
  BY <1>5, <1>7, EmptySeq DEF CleanupData
<1> QED
  BY <1>1, <1>3, <1>8, <1>9 DEF NewestEntryOwns

\* ... after one that destroys the context ...
LEMMA NoOwner ==
  ASSUME TypeOK, NewestEntryOwns, NEW r, NEW sp, destroy_opentracing_context(r, sp)
  PROVE  NewestEntryOwns'
<1>1. CASE cleanups = <<>>
  <2>1. CleanupData = 0
    BY <1>1 DEF CleanupData
  <2> QED
    BY <1>1, <2>1, SameOwner DEF destroy_opentracing_context
<1>2. CASE cleanups # <<>>
  <2>1. /\ cleanups \in Seq(0 .. Len(traces))
        /\ Len(cleanups) \in Nat \ {0}
        /\ 0 \in 0 .. Len(traces)
    BY <1>2, EmptySeq, LenProperties DEF TypeOK, TracingTypeOK
  <2>2. cleanups' = [cleanups EXCEPT ![1] = 0]
    BY <1>2 DEF destroy_opentracing_context
  <2>3. /\ cleanups' \in Seq(0 .. Len(traces))
        /\ Len(cleanups') = Len(cleanups)
        /\ \A i \in 1 .. Len(cleanups) :
             cleanups'[i] = IF i = 1 THEN 0 ELSE cleanups[i]
    BY <2>1, <2>2, ExceptSeq
  <2>4. \A i \in DOMAIN cleanups' : cleanups'[i] = 0
    BY <2>1, <2>3, LenProperties DEF NewestEntryOwns
  <2>5. CleanupData' = 0
    <3>1. cleanups' # <<>>
      BY <2>1, <2>3, EmptySeq
    <3>2. cleanups'[1] = 0
      BY <2>1, <2>3
    <3> QED
      BY <2>3, <3>1, <3>2 DEF CleanupData
  <2>6. live' = {}
    BY DEF NewestEntryOwns, destroy_opentracing_context
  <2> QED
    BY <2>4, <2>5, <2>6 DEF NewestEntryOwns
<1> QED
  BY <1>1, <1>2

\* ... and after the pool is destroyed.
LEMMA NoneLeft ==
  ASSUME TypeOK, NewestEntryOwns, DestroyPool
  PROVE  NewestEntryOwns' /\ live' = {}
<1> DEFINE owned == Contexts \cap {cleanups[i] : i \in DOMAIN cleanups}
<1>1. live' = live \ owned /\ cleanups' = <<>>
  BY DEF DestroyPool
<1>2. live \subseteq owned
  <2>1. live \subseteq Contexts
    BY LenProperties DEF TypeOK, TracingTypeOK, Contexts
  <2>2. CASE cleanups = <<>>
    BY <2>2 DEF NewestEntryOwns, CleanupData
  <2>3. CASE cleanups # <<>>
    <3>1. cleanups \in Seq(0 .. Len(traces)) /\ 1 \in DOMAIN cleanups
      BY <2>3, EmptySeq, LenProperties DEF TypeOK, TracingTypeOK
    <3>2. CleanupData = cleanups[1]
      BY <2>3, <3>1 DEF CleanupData
    <3> QED
      BY <2>1, <3>1, <3>2 DEF NewestEntryOwns
  <2> QED
    BY <2>2, <2>3
<1> QED
  BY <1>1, <1>2 DEF NewestEntryOwns, CleanupData

\* Entering a block leaves at most one context, in the newest entry.
LEMMA EnterOwner ==
  ASSUME TypeOK, ContextInv, NEW r \in Requests, NEW l \in Locs,
         EnterBlock(r, l)
  PROVE  NewestEntryOwns'
<1> DEFINE c == get_opentracing_context(r)
<1>1. phase[r] = "find" /\ on_enter_block(r, l) /\ NewestEntryOwns
  BY DEF EnterBlock, ContextInv
<1>2. CASE c = 0 /\ NewContext(r, l)
  BY <1>1, <1>2, NothingToRecover, NewOwner
<1>3. CASE ChangeBlockFails(r, l, c)
  BY <1>1, <1>3, NoOwner DEF ChangeBlockFails
<1>4. CASE UNCHANGED <<cleanups, live>>
  BY <1>1, <1>4, SameOwner
<1> QED
  BY <1>1, <1>2, <1>3, <1>4
  DEF on_enter_block, tracing_vars, NewContextFails, ChangeBlock, AddTrace,
      UseAfterDelete

\* The context invariant is inductive.
LEMMA ContextStep ==
  ASSUME TypeOK, ContextInv, Next
  PROVE  ContextInv'
<1>0. /\ phase \in [Requests -> Phases] /\ internal \in [Requests -> BOOLEAN]
      /\ Main \in Requests /\ Main \notin Subs /\ Subs \subseteq Requests
  BY RequestsAssumption DEF TypeOK, NginxTypeOK, Subs
<1>1. ASSUME NEW r \in Requests, Rewrite(r) \/ InternalRedirect(r)
      PROVE  ContextInv'
  <2>1. FindAgain(r) /\ UNCHANGED <<cleanups, live>>
    BY <1>1 DEF Rewrite, InternalRedirect, tracing_vars
  <2>2. NewestEntryOwns'
    BY <2>1, SameOwner DEF ContextInv
  <2>3. SubsInternal'
    BY <1>0, <2>1 DEF FindAgain, ContextInv, SubsInternal, Processing
  <2>4. FirstBlock'
    BY <1>0, <2>1 DEF FindAgain, ContextInv, FirstBlock, Processing, Subs
  <2> QED
    BY <2>2, <2>3, <2>4 DEF ContextInv
<1>2. ASSUME NEW r \in Requests, CreateSubrequest(r)
      PROVE  ContextInv'
  <2>1. NewestEntryOwns'
    BY <1>2, SameOwner DEF CreateSubrequest, tracing_vars, ContextInv
  <2>2. SubsInternal'
    BY <1>0, <1>2 DEF CreateSubrequest, ContextInv, SubsInternal, Processing
  <2>3. FirstBlock'
    BY <1>0, <1>2 DEF CreateSubrequest, ContextInv, FirstBlock, Subs
  <2> QED
    BY <2>1, <2>2, <2>3 DEF ContextInv
<1>3. ASSUME NEW r \in Requests, NEW l \in Locs, EnterBlock(r, l)
      PROVE  ContextInv'
  <2>1. NewestEntryOwns'
    BY <1>3, EnterOwner
  <2>2. SubsInternal'
    BY <1>0, <1>3 DEF EnterBlock, ContextInv, SubsInternal, Processing
  <2>3. FirstBlock'
    BY <1>0, <1>3 DEF EnterBlock, ContextInv, FirstBlock, Subs
  <2> QED
    BY <2>1, <2>2, <2>3 DEF ContextInv
<1>4. ASSUME NEW r \in Requests,
             \/ expand_opentracing_context_variable(r)
             \/ expand_opentracing_binary_context_variable(r)
      PROVE  ContextInv'
  <2>1. UNCHANGED <<cleanups, live, phase, internal>>
    BY <1>4 DEF expand_opentracing_context_variable, nginx_vars,
                expand_opentracing_binary_context_variable, UseAfterDelete
  <2> QED
    BY <2>1, SameOwner DEF ContextInv, SubsInternal, FirstBlock, Processing
<1>5. ASSUME NEW r \in Requests,
             \/ FinalizeSubrequest(r)
             \/ FinalizeMain
             \/ TerminateMain
      PROVE  ContextInv'
  <2>1. UNCHANGED <<cleanups, live, internal>>
    BY <1>5 DEF FinalizeSubrequest, FinalizeMain, TerminateMain, tracing_vars,
                on_log_request_handler, UseAfterDelete
  <2>2. NewestEntryOwns'
    BY <2>1, SameOwner DEF ContextInv
  <2>3. \A q \in Requests :
          phase'[q] # phase[q] => /\ phase'[q] \in {"logged", "terminated"}
                                 /\ Processing(q)
    <3>1. CASE FinalizeSubrequest(r)
      BY <1>0, <3>1 DEF FinalizeSubrequest, Processing
    <3>2. CASE FinalizeMain
      BY <1>0, <3>2 DEF FinalizeMain, Processing
    <3>3. CASE TerminateMain
      BY <1>0, <3>3 DEF TerminateMain, Processing
    <3> QED
      BY <1>5, <3>1, <3>2, <3>3
  <2>4. SubsInternal' /\ FirstBlock'
    BY <1>0, <2>1, <2>3 DEF ContextInv, SubsInternal, FirstBlock, Processing
  <2> QED
    BY <2>2, <2>4 DEF ContextInv
<1>6. CASE DestroyPool
  <2>1. NewestEntryOwns'
    BY <1>6, NoneLeft DEF ContextInv
  <2>2. SubsInternal' /\ FirstBlock'
    BY <1>0, <1>6 DEF DestroyPool, SubsInternal, FirstBlock, Processing
  <2> QED
    BY <2>1, <2>2 DEF ContextInv
<1> QED
  BY <1>0, <1>1, <1>2, <1>3, <1>4, <1>5, <1>6 DEF Next

\* A request that enters a traced block and has no context in its ctx slot
\* either recovers the one there is from the cleanup list
\* (get_opentracing_context, opentracing_context.cpp) or is the first of all.
THEOREM ContextInvariant == Spec => []ContextInv
<1>1. Init => ContextInv
  BY RequestsAssumption
  DEF Init, ContextInv, NewestEntryOwns, CleanupData, SubsInternal, Subs,
      Processing, FirstBlock
<1>2. TypeOK /\ ContextInv /\ [Next]_vars => ContextInv'
  <2> SUFFICES ASSUME TypeOK, ContextInv, [Next]_vars PROVE ContextInv'
    OBVIOUS
  <2>1. CASE UNCHANGED vars
    BY <2>1, SameOwner
    DEF vars, ContextInv, SubsInternal, FirstBlock, Processing
  <2> QED
    BY <2>1, ContextStep
<1> QED
  BY <1>1, <1>2, TypeCorrect, PTL DEF Spec

\* The newest cleanup entry, at which find_opentracing_cleanup stops, has the
\* one live context.
THEOREM NewestOwns == Spec => []NewestCleanupOwnsIt
<1>1. TypeOK /\ ContextInv => NewestCleanupOwnsIt
  BY DEF ContextInv, NewestEntryOwns, NewestCleanupOwnsIt
<1> QED
  BY <1>1, TypeCorrect, ContextInvariant, PTL

\* The main request and its subrequests never have two contexts, and the one
\* they have is in one cleanup entry alone: cleanup_opentracing_context frees
\* it once, also when a failure has destroyed an earlier one.
THEOREM OneContext == Spec => []OwnedByOneCleanup
<1>1. TypeOK /\ ContextInv => OwnedByOneCleanup
  <2> SUFFICES ASSUME TypeOK, ContextInv PROVE OwnedByOneCleanup
    OBVIOUS
  <2>1. /\ cleanups \in Seq(0 .. Len(traces))
        /\ DOMAIN cleanups = 1 .. Len(cleanups)
        /\ Len(cleanups) \in Nat
    BY LenProperties DEF TypeOK, TracingTypeOK
  <2>2. \A i \in DOMAIN cleanups : i > 1 => cleanups[i] = 0
    BY DEF ContextInv, NewestEntryOwns
  <2>3. CASE cleanups = <<>>
    BY <2>3 DEF OwnedByOneCleanup, ContextInv, NewestEntryOwns, CleanupData
  <2>4. CASE cleanups # <<>>
    <3>1. CleanupData = cleanups[1] /\ 1 \in DOMAIN cleanups
      BY <2>1, <2>4, EmptySeq DEF CleanupData
    <3>2. {cleanups[i] : i \in DOMAIN cleanups} \ {0} = {CleanupData} \ {0}
      BY <2>1, <2>2, <3>1
    <3>3. live = {cleanups[i] : i \in DOMAIN cleanups} \ {0}
      BY <3>2 DEF ContextInv, NewestEntryOwns
    <3>4. \A i \in DOMAIN cleanups : cleanups[i] # 0 => i = 1
      BY <2>1, <2>2
    <3> QED
      BY <3>3, <3>4 DEF OwnedByOneCleanup
  <2> QED
    BY <2>3, <2>4
<1> QED
  BY <1>1, TypeCorrect, ContextInvariant, PTL

-----------------------------------------------------------------------------
(* One trace per request. *)

\* Traces that stay in their places and keep their requests stay apart.
LEMMA SameTraces ==
  ASSUME OneTracePerRequest, live' \subseteq live,
         \A c \in live' :
           /\ DOMAIN traces'[c] = DOMAIN traces[c]
           /\ \A i \in DOMAIN traces[c] :
                traces'[c][i].request = traces[c][i].request
  PROVE  OneTracePerRequest'
BY DEF OneTracePerRequest

\* A handler that replaces the trace it found by one of the same request keeps
\* the traces apart.
LEMMA ReplacedTrace ==
  ASSUME TypeOK, OneTracePerRequest, NEW r \in Requests, NEW c \in live,
         HasTrace(c, r), NEW e \in Trace, e.request = r, live' = live,
         traces' = [traces EXCEPT ![c][find_trace(c, r)] = e]
  PROVE  OneTracePerRequest'
<1> DEFINE i == find_trace(c, r)
<1>1. /\ c \in 1 .. Len(traces)
      /\ i \in DOMAIN traces[c]
      /\ traces[c][i].request = r
      /\ live \subseteq 1 .. Len(traces)
      /\ traces \in Seq(Seq(Trace))
  BY FoundTrace DEF TypeOK, TracingTypeOK
<1>2. traces' = [traces EXCEPT ![c][i] = e]
  OBVIOUS
<1> HIDE DEF i
<1>3. \A d \in 1 .. Len(traces) :
        /\ DOMAIN traces'[d] = DOMAIN traces[d]
        /\ \A j \in DOMAIN traces[d] :
             traces'[d][j] = IF d = c /\ j = i THEN e ELSE traces[d][j]
  BY <1>1, <1>2, UpdateTrace
<1>4. \A d \in live' :
        /\ DOMAIN traces'[d] = DOMAIN traces[d]
        /\ \A j \in DOMAIN traces[d] :
             traces'[d][j].request = traces[d][j].request
  BY <1>1, <1>3
<1> QED
  BY <1>4, SameTraces

\* A context that is destroyed takes no part, and the others keep their traces.
LEMMA DestroyedTraces ==
  ASSUME TypeOK, OneTracePerRequest, NEW r, NEW sp,
         destroy_opentracing_context(r, sp)
  PROVE  OneTracePerRequest'
<1> DEFINE d == CleanupData
<1>1. traces \in Seq(Seq(Trace)) /\ live \subseteq 1 .. Len(traces)
  BY DEF TypeOK, TracingTypeOK
<1>2. live' = live \ {d}
  BY <1>1 DEF destroy_opentracing_context
<1>3. traces' = traces \/ traces' = [traces EXCEPT ![d] = <<>>]
  BY DEF destroy_opentracing_context
<1> HIDE DEF d
<1>4. \A c \in live' : traces'[c] = traces[c]
  BY <1>1, <1>2, <1>3
<1> QED
  BY <1>2, <1>4, SameTraces

\* Entering a block adds a trace only for a request that has none.
LEMMA EnterTraces ==
  ASSUME TypeOK, OneTracePerRequest, NEW r \in Requests, NEW l \in Locs,
         on_enter_block(r, l)
  PROVE  OneTracePerRequest'
<1> DEFINE c == get_opentracing_context(r)
<1>1. CASE NewContext(r, l)
  <2> DEFINE new == Len(traces) + 1
  <2>1. PICK t \in Trace :
          /\ traces'[new] = <<t>>
          /\ \A d \in 1 .. Len(traces) : traces'[d] = traces[d]
    BY <1>1, NewContextShape DEF TypeOK
  <2>2. live' = live \cup {new} /\ live \subseteq 1 .. Len(traces)
    BY <1>1, NewContextShape DEF TypeOK, TracingTypeOK
  <2>3. \A d \in live : traces'[d] = traces[d]
    BY <2>1, <2>2
  <2>4. \A i, j \in DOMAIN traces'[new] : i = j
    BY <2>1
  <2> HIDE DEF new
  <2> QED
    BY <2>2, <2>3, <2>4 DEF OneTracePerRequest
<1>2. CASE c \in live /\ ChangeBlock(r, l, c)
  <2>1. HasTrace(c, r) /\ live' = live
    BY <1>2 DEF ChangeBlock
  <2>2. PICK a \in FreeAddrs :
          traces' = [traces EXCEPT ![c][find_trace(c, r)] =
                       on_change_block(spans, @, l, a)]
    BY <1>2 DEF ChangeBlock
  <2> DEFINE t == traces[c][find_trace(c, r)]
             e == on_change_block(spans, t, l, a)
  <2>3. t \in Trace /\ t.request = r
    BY <1>2, <2>1, FoundTrace DEF TypeOK
  <2>4. e \in Trace /\ e.request = r
    BY <2>2, <2>3, TraceType DEF FreeAddrs, TypeOK, TracingTypeOK
  <2>5. traces' = [traces EXCEPT ![c][find_trace(c, r)] = e]
    BY <2>2
  <2> HIDE DEF c, e
  <2> QED
    BY <1>2, <2>1, <2>4, <2>5, ReplacedTrace
<1>3. CASE c \in live /\ AddTrace(r, l, c)
  <2>1. PICK a \in FreeAddrs, b \in FreeAddrs :
          traces' = [traces EXCEPT ![c] = Append(@, NewTrace(spans, r, l, a, b))]
    BY <1>3 DEF AddTrace
  <2> DEFINE t == NewTrace(spans, r, l, a, b)
  <2>2. t \in Trace /\ t.request = r
    BY <2>1, TraceType DEF FreeAddrs, TypeOK, TracingTypeOK
  <2>3. /\ c \in 1 .. Len(traces)
        /\ traces[c] \in Seq(Trace)
        /\ traces \in Seq(Seq(Trace))
        /\ live \subseteq 1 .. Len(traces)
    BY <1>3, RootTrace DEF TypeOK, TracingInv, TracingTypeOK
  <2>4. \A i \in DOMAIN traces[c] : traces[c][i].request # r
    BY <1>3 DEF AddTrace, HasTrace, TracesOf
  <2>5. traces' = [traces EXCEPT ![c] = Append(traces[c], t)] /\ live' = live
    BY <1>3, <2>1 DEF AddTrace
  <2> HIDE DEF c, t
  <2>6. /\ Append(traces[c], t) \in Seq(Trace)
        /\ DOMAIN Append(traces[c], t) = DOMAIN traces[c] \cup {Len(traces[c]) + 1}
        /\ \A i \in DOMAIN traces[c] : Append(traces[c], t)[i] = traces[c][i]
        /\ Append(traces[c], t)[Len(traces[c]) + 1] = t
    BY <2>2, <2>3, AppendProperties, LenProperties
  <2>7. \A d \in live : traces'[d] = IF d = c THEN Append(traces[c], t)
                                              ELSE traces[d]
    BY <2>3, <2>5
  <2>8. ASSUME NEW d \in live
        PROVE  \A i, j \in DOMAIN traces'[d] :
                 traces'[d][i].request = traces'[d][j].request => i = j
    <3>1. CASE d = c
      <4> DEFINE s == Append(traces[c], t)
                 n == Len(traces[c]) + 1
      <4>1. traces'[d] = s
        BY <2>7, <3>1
      <4>2. /\ DOMAIN s = DOMAIN traces[c] \cup {n}
            /\ \A i \in DOMAIN traces[c] :
                 s[i].request = traces[c][i].request /\ s[i].request # s[n].request
        BY <2>2, <2>4, <2>6
      <4> HIDE DEF s, n
      <4> QED
        BY <1>3, <4>1, <4>2 DEF OneTracePerRequest, c
    <3>2. CASE d # c
      BY <2>7, <3>2 DEF OneTracePerRequest
    <3> QED
      BY <3>1, <3>2
  <2> QED
    BY <2>5, <2>8 DEF OneTracePerRequest
<1>4. CASE ChangeBlockFails(r, l, c)
  BY <1>4, DestroyedTraces DEF ChangeBlockFails
<1>5. CASE UNCHANGED <<live, traces>>
  BY <1>5, SameTraces
<1> QED
  BY <1>1, <1>2, <1>3, <1>4, <1>5
  DEF on_enter_block, tracing_vars, NewContextFails, UseAfterDelete

\* Reading a variable adds no trace.
LEMMA VariableTraces ==
  ASSUME TypeOK, OneTracePerRequest, NEW r \in Requests,
         expand_opentracing_context_variable(r)
  PROVE  OneTracePerRequest'
<1> DEFINE c == get_opentracing_context(r)
<1>1. CASE /\ c \in live
           /\ HasTrace(c, r)
           /\ live' = live
           /\ \E injected \in BOOLEAN :
                traces' = [traces EXCEPT ![c][find_trace(c, r)] =
                             lookup_span_context_value(@, injected)]
  <2>1. PICK injected \in BOOLEAN :
          traces' = [traces EXCEPT ![c][find_trace(c, r)] =
                       lookup_span_context_value(@, injected)]
    BY <1>1
  <2> DEFINE t == traces[c][find_trace(c, r)]
             e == lookup_span_context_value(t, injected)
  <2>2. t \in Trace /\ t.request = r
    BY <1>1, FoundTrace DEF TypeOK
  <2>3. e \in Trace /\ e.request = r
    BY <2>2, LookupType
  <2>4. traces' = [traces EXCEPT ![c][find_trace(c, r)] = e]
    BY <2>1
  <2> HIDE DEF c, e
  <2> QED
    BY <1>1, <2>3, <2>4, ReplacedTrace
<1>2. CASE UNCHANGED <<live, traces>>
  BY <1>2, SameTraces
<1> QED
  BY <1>1, <1>2 DEF expand_opentracing_context_variable, UseAfterDelete

\* No request has two traces in a context: find_trace of opentracing_context.cpp
\* finds the trace the request was last entered in, and the one that is logged.
THEOREM OneTrace == Spec => []OneTracePerRequest
<1>1. Init => OneTracePerRequest
  BY DEF Init, OneTracePerRequest
<1>2. TypeOK /\ OneTracePerRequest /\ [Next]_vars => OneTracePerRequest'
  <2> SUFFICES ASSUME TypeOK, OneTracePerRequest, [Next]_vars
               PROVE  OneTracePerRequest'
    OBVIOUS
  <2>1. ASSUME NEW r \in Requests, NEW l \in Locs, EnterBlock(r, l)
        PROVE  OneTracePerRequest'
    BY <2>1, EnterTraces DEF EnterBlock
  <2>2. ASSUME NEW r \in Requests, expand_opentracing_context_variable(r)
        PROVE  OneTracePerRequest'
    BY <2>2, VariableTraces
  <2>3. CASE DestroyPool
    <3>1. /\ live' \subseteq live
          /\ live \subseteq Contexts
          /\ \A c \in live' : traces'[c] = traces[c]
      BY <2>3, LenProperties DEF DestroyPool, TypeOK, TracingTypeOK, Contexts
    <3> QED
      BY <3>1, SameTraces
  <2>4. CASE UNCHANGED <<live, traces>>
    BY <2>4, SameTraces
  <2> QED
    BY <2>1, <2>2, <2>3, <2>4
    DEF Next, vars, Rewrite, InternalRedirect, CreateSubrequest, tracing_vars,
        expand_opentracing_binary_context_variable, FinalizeSubrequest,
        FinalizeMain, TerminateMain, on_log_request_handler, UseAfterDelete
<1> QED
  BY <1>1, <1>2, TypeCorrect, PTL DEF Spec

-----------------------------------------------------------------------------
(* No deleted context is used, as long as every span can be started. *)

\* Nothing deletes a context before the pool is destroyed, after which no
\* handler runs.
KeptUntilFreed ==
    /\ phase[Main] # "freed" => live = Contexts
    /\ phase[Main] = "freed" => \A r \in Requests : phase[r] = "freed"
    /\ worker = "up"

EverySpanStarts == Faults \cap {"request_span", "location_span"} = {}

\* A context that a request gets exists, or is null.
LEMMA ContextKept ==
  ASSUME TypeOK, live = Contexts, NEW r \in Requests
  PROVE  get_opentracing_context(r) \in live \cup {0}
<1>1. Contexts = 1 .. Len(traces) /\ Len(traces) \in Nat
  BY LenProperties DEF TypeOK, TracingTypeOK, Contexts
<1>2. get_opentracing_context(r) \in 0 .. Len(traces)
  BY ContextType DEF TypeOK
<1> QED
  BY <1>1, <1>2

\* A handler that runs before the pool is destroyed deletes no context.
LEMMA KeptByHandlers ==
  ASSUME EverySpanStarts, TypeOK, live = Contexts, NEW r \in Requests,
         \/ \E l \in Locs : on_enter_block(r, l)
         \/ expand_opentracing_context_variable(r)
         \/ expand_opentracing_binary_context_variable(r)
         \/ on_log_request_handler(r)
  PROVE  live' = Contexts' /\ worker' = worker
<1> DEFINE c == get_opentracing_context(r)
<1>1. c \in live \cup {0}
  BY ContextKept
<1>2. /\ Contexts = 1 .. Len(traces)
      /\ Len(traces) \in Nat
      /\ traces \in Seq(Seq(Trace))
  BY LenProperties DEF TypeOK, TracingTypeOK, Contexts
<1>3. ASSUME NEW l \in Locs, on_enter_block(r, l)
      PROVE  live' = Contexts' /\ worker' = worker
  <2>1. CASE NewContext(r, l)
    <3>1. /\ traces' \in Seq(Seq(Trace))
          /\ Len(traces') = Len(traces) + 1
          /\ live' = live \cup {Len(traces) + 1}
      BY <2>1, NewContextShape DEF TypeOK
    <3>2. Contexts' = 1 .. Len(traces) + 1
      BY <3>1, LenProperties DEF Contexts
    <3>3. \A n \in Nat : 1 .. n + 1 = 1 .. n \cup {n + 1}
      OBVIOUS
    <3> QED
      BY <1>2, <2>1, <3>1, <3>2, <3>3 DEF NewContext
  <2>2. CASE c \in live /\ (ChangeBlock(r, l, c) \/ AddTrace(r, l, c))
    <3>1. DOMAIN traces' = DOMAIN traces
      BY <2>2 DEF ChangeBlock, AddTrace
    <3> QED
      BY <2>2, <3>1 DEF ChangeBlock, AddTrace, Contexts
  <2>3. CASE UNCHANGED <<live, traces, worker>>
    BY <2>3 DEF Contexts
  <2>4. ~ChangeBlockFails(r, l, c)
    BY DEF EverySpanStarts, ChangeBlockFails
  <2> QED
    BY <1>1, <1>3, <2>1, <2>2, <2>3, <2>4
    DEF on_enter_block, tracing_vars, NewContextFails
<1>4. CASE \/ expand_opentracing_context_variable(r)
           \/ expand_opentracing_binary_context_variable(r)
  <2>1. live' = live /\ worker' = worker /\ DOMAIN traces' = DOMAIN traces
    BY <1>1, <1>4 DEF expand_opentracing_context_variable,
                      expand_opentracing_binary_context_variable
  <2> QED
    BY <2>1 DEF Contexts
<1>5. CASE on_log_request_handler(r)
  BY <1>1, <1>5 DEF on_log_request_handler, tracing_vars, Contexts
<1> QED
  BY <1>3, <1>4, <1>5

\* The destruction of the pool is the end of every request.
LEMMA KeptByNext ==
  ASSUME EverySpanStarts, TypeOK, KeptUntilFreed, Next
  PROVE  KeptUntilFreed'
<1>0. Main \in Requests /\ phase \in [Requests -> Phases]
  BY RequestsAssumption DEF TypeOK, NginxTypeOK
<1>1. CASE DestroyPool
  BY <1>0, <1>1 DEF DestroyPool, KeptUntilFreed
<1>2. CASE ~DestroyPool
  <2>1. phase[Main] # "freed" /\ phase'[Main] # "freed"
    BY <1>0, <1>2
    DEF KeptUntilFreed, Next, Rewrite, InternalRedirect, FindAgain,
        CreateSubrequest, EnterBlock, expand_opentracing_context_variable,
        expand_opentracing_binary_context_variable, Readable, Processing,
        FinalizeSubrequest, FinalizeMain, TerminateMain, nginx_vars
  <2>2. live = Contexts
    BY <2>1 DEF KeptUntilFreed
  <2>3. live' = Contexts' /\ worker' = worker
    <3>1. CASE UNCHANGED <<live, traces, worker>>
      BY <2>2, <3>1 DEF Contexts
    <3> QED
      BY <1>0, <1>2, <2>2, <3>1, KeptByHandlers
      DEF Next, Rewrite, InternalRedirect, CreateSubrequest, tracing_vars,
          EnterBlock, FinalizeSubrequest, FinalizeMain, TerminateMain
  <2> QED
    BY <2>1, <2>3 DEF KeptUntilFreed
<1> QED
  BY <1>1, <1>2

\* As long as every span can be started, a ctx slot that a handler may still
\* read is null or names a live context, and no handler uses a deleted one:
\* destroy_opentracing_context of opentracing_context.cpp is the only way to a
\* dangling slot.
THEOREM NoUseAfterDelete ==
  ASSUME EverySpanStarts
  PROVE  Spec => [](CtxAlive /\ DestroyedNotUsed)
<1>1. Init => KeptUntilFreed
  BY RequestsAssumption DEF Init, KeptUntilFreed, Contexts
<1>2. TypeOK /\ KeptUntilFreed /\ [Next]_vars => KeptUntilFreed'
  BY KeptByNext DEF vars, KeptUntilFreed, Contexts
<1>3. TypeOK /\ KeptUntilFreed => CtxAlive /\ DestroyedNotUsed
  <2> SUFFICES ASSUME TypeOK, KeptUntilFreed PROVE CtxAlive /\ DestroyedNotUsed
    OBVIOUS
  <2>1. Contexts = 1 .. Len(traces) /\ ctx \in [Requests -> 0 .. Len(traces)]
    BY LenProperties DEF TypeOK, TracingTypeOK, Contexts
  <2> QED
    BY <2>1 DEF KeptUntilFreed, CtxAlive, DestroyedNotUsed
<1> QED
  BY <1>1, <1>2, <1>3, TypeCorrect, PTL DEF Spec

=============================================================================
