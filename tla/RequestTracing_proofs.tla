------------------------ MODULE RequestTracing_proofs ------------------------
(***************************************************************************)
(* Lemmas about the operators of RequestTracing. What each makes of the    *)
(* spans and of a trace has the right type, whatever trace it is given;    *)
(* and it is the effect of calls on known spans: which are finished, which *)
(* freed, which named or tagged, and which are new (Calls).                *)
(***************************************************************************)
EXTENDS RequestTracing, SequenceTheorems, TLAPS

\* An operation name is a script's value or a location's name.
LEMMA NameType ==
  ASSUME NEW core \in Locs, NEW l \in Locs
  PROVE  /\ get_request_operation_name(core, l) \in Name
         /\ get_loc_operation_name(core, l) \in Name
BY DEF get_request_operation_name, get_loc_operation_name, Name

\* A span just started is a span.
LEMMA NewSpanType ==
  ASSUME NEW kind \in {"request", "location"}, NEW r \in Requests, NEW l \in Locs,
         NEW parent \in {Remote} \cup Nat, NEW name \in Name
  PROVE  NewSpan(kind, r, l, parent, name) \in Span
<1>1. <<>> \in Seq(TagLayer)
  OBVIOUS
<1> QED
  BY <1>1 DEF NewSpan, Span

\* The spans that the constructor and on_change_block start are spans.
LEMMA StartedSpanType ==
  ASSUME NEW r \in Requests, NEW l \in Locs, NEW parent \in Nat
  PROVE  /\ RequestSpan(r, l, parent) \in Span
         /\ LocationSpan(r, l, parent) \in Span
<1>1. ParentOf(l, parent) \in {Remote} \cup Nat
  BY DEF ParentOf, extract_span_context, Remote, None
<1>2. /\ get_request_operation_name(l, l) \in Name
      /\ get_loc_operation_name(l, l) \in Name
  BY NameType
<1> QED
  BY <1>1, <1>2, NewSpanType DEF RequestSpan, LocationSpan

\* The constructor adds one span, or two, to those there are.
LEMMA StartTraceType ==
  ASSUME NEW sp \in Seq(Span), NEW r \in Requests, NEW l \in Locs,
         NEW parent \in Nat
  PROVE  StartTrace(sp, r, l, parent) \in Seq(Span)
<1>1. Len(sp) + 1 \in Nat
  BY LenProperties
<1>2. /\ RequestSpan(r, l, parent) \in Span
      /\ LocationSpan(r, l, Len(sp) + 1) \in Span
  BY <1>1, StartedSpanType
<1>3. <<RequestSpan(r, l, parent), LocationSpan(r, l, Len(sp) + 1)>> \in Seq(Span)
  BY <1>2
<1>4. Append(sp, RequestSpan(r, l, parent)) \in Seq(Span)
  BY <1>2
<1> QED
  BY <1>3, <1>4, ConcatProperties DEF StartTrace

\* A function on the first n naturals is a sequence.
LEMMA FunctionIsSeq ==
  ASSUME NEW S, NEW n \in Nat, NEW f \in [1 .. n -> S]
  PROVE  f \in Seq(S)
BY SeqDef

\* Setting tags, naming, finishing and destroying keep the spans spans, even
\* with an id that no span has.
LEMMA TracerCallsType ==
  ASSUME NEW sp \in Seq(Span), NEW id \in Nat
  PROVE  /\ \A layers \in Seq(TagLayer) : SetTags(sp, id, layers) \in Seq(Span)
         /\ \A name \in Name : NameAndFinish(sp, id, name) \in Seq(Span)
         /\ \A ids : DestroySpans(sp, ids) \in Seq(Span)
<1>1. ASSUME NEW layers \in Seq(TagLayer)
      PROVE  SetTags(sp, id, layers) \in Seq(Span)
  <2>1. CASE id \in 1 .. Len(sp)
    <3> DEFINE s == [sp[id] EXCEPT !.tags = @ \o layers]
    <3>1. sp[id] \in Span
      BY <2>1
    <3>2. sp[id].tags \o layers \in Seq(TagLayer)
      BY <3>1, ConcatProperties DEF Span
    <3>3. s \in Span
      BY <3>1, <3>2 DEF Span
    <3>4. [sp EXCEPT ![id] = s] \in Seq(Span)
      BY <2>1, <3>3, ExceptSeq
    <3> QED
      BY <3>4 DEF SetTags
  <2>2. CASE id \notin 1 .. Len(sp)
    <3>1. Len(sp) \in Nat /\ sp \in [1 .. Len(sp) -> Span]
      BY LenProperties
    <3>2. SetTags(sp, id, layers) \in [1 .. Len(sp) -> Span]
      BY <2>2, <3>1 DEF SetTags
    <3> QED
      BY <3>1, <3>2, FunctionIsSeq
  <2> QED
    BY <2>1, <2>2
<1>2. ASSUME NEW name \in Name
      PROVE  NameAndFinish(sp, id, name) \in Seq(Span)
  <2>1. CASE id \in 1 .. Len(sp)
    <3> DEFINE s == [sp[id] EXCEPT !.name = name, !.finishes = @ + 1]
    <3>1. sp[id] \in Span
      BY <2>1
    <3>2. s \in Span
      <4>1. sp[id].finishes + 1 \in Nat
        BY <3>1 DEF Span
      <4> QED
        BY <3>1, <4>1 DEF Span
    <3>3. [sp EXCEPT ![id] = s] \in Seq(Span)
      BY <2>1, <3>2, ExceptSeq
    <3>4. NameAndFinish(sp, id, name) = [sp EXCEPT ![id] = s]
      BY <2>1 DEF NameAndFinish
    <3> QED
      BY <3>3, <3>4
  <2>2. CASE id \notin 1 .. Len(sp)
    <3>1. Len(sp) \in Nat /\ sp \in [1 .. Len(sp) -> Span]
      BY LenProperties
    <3>2. NameAndFinish(sp, id, name) \in [1 .. Len(sp) -> Span]
      BY <2>2, <3>1 DEF NameAndFinish
    <3> QED
      BY <3>1, <3>2, FunctionIsSeq
  <2> QED
    BY <2>1, <2>2
<1>3. ASSUME NEW ids
      PROVE  DestroySpans(sp, ids) \in Seq(Span)
  <2>1. ASSUME NEW i \in 1 .. Len(sp)
        PROVE  [sp[i] EXCEPT !.destroyed = @ \/ i \in ids] \in Span
    <3>1. sp[i] \in Span
      OBVIOUS
    <3>2. (sp[i].destroyed \/ i \in ids) \in BOOLEAN
      OBVIOUS
    <3> QED
      BY <3>1, <3>2 DEF Span
  <2>2. DestroySpans(sp, ids)
          = [i \in 1 .. Len(sp) |-> [sp[i] EXCEPT !.destroyed = @ \/ i \in ids]]
    BY LenProperties DEF DestroySpans
  <2>3. Len(sp) \in Nat
    BY LenProperties
  <2>4. DestroySpans(sp, ids) \in [1 .. Len(sp) -> Span]
    BY <2>1, <2>2
  <2> QED
    BY <2>3, <2>4, FunctionIsSeq
<1> QED
  BY <1>1, <1>2, <1>3

\* Leaving a block, entering the next one and logging keep the spans spans.
LEMMA TraceCallsType ==
  ASSUME NEW sp \in Seq(Span), NEW t \in Trace, NEW l \in Locs
  PROVE  /\ on_exit_block(sp, t) \in Seq(Span)
         /\ on_change_block_spans(sp, t, l) \in Seq(Span)
         /\ on_log_request(sp, t, l) \in Seq(Span)
<1>1. /\ t.conf \in Locs /\ t.request \in Requests
      /\ t.span.id \in Nat /\ t.request_span.id \in Nat
  BY DEF Trace, Ptr
<1>2. \A from \in {"default", "status", "upstream", "location"} :
        Layer(from, t.conf) \in TagLayer
  BY <1>1 DEF Layer, TagLayer
<1>3. on_exit_block(sp, t) \in Seq(Span)
  <2>1. <<Layer("default", t.conf), Layer("location", t.conf),
          Layer("status", t.conf), Layer("upstream", t.conf)>> \in Seq(TagLayer)
    BY <1>2
  <2>2. <<Layer("location", t.conf)>> \in Seq(TagLayer)
    BY <1>2
  <2>3. get_loc_operation_name(t.conf, t.conf) \in Name
    BY <1>1, NameType
  <2> QED
    BY <1>1, <2>1, <2>2, <2>3, TracerCallsType DEF on_exit_block
<1>4. on_change_block_spans(sp, t, l) \in Seq(Span)
  <2>1. LocationSpan(t.request, l, t.request_span.id) \in Span
    BY <1>1, StartedSpanType
  <2>2. Append(on_exit_block(sp, t), LocationSpan(t.request, l, t.request_span.id))
          \in Seq(Span)
    BY <1>3, <2>1
  <2> QED
    BY <1>1, <1>3, <2>2, TracerCallsType DEF on_change_block_spans
<1>5. on_log_request(sp, t, l) \in Seq(Span)
  <2>1. <<Layer("status", t.conf), Layer("default", t.conf),
          Layer("upstream", t.conf)>> \in Seq(TagLayer)
    BY <1>2
  <2>2. get_request_operation_name(l, t.conf) \in Name
    BY <1>1, NameType
  <2> QED
    BY <1>1, <1>3, <2>1, <2>2, TracerCallsType DEF on_log_request
<1> QED
  BY <1>3, <1>4, <1>5

\* A trace just made, moved to another block or asked for a value is a trace,
\* and it stays the trace of its request.
LEMMA TraceType ==
  ASSUME NEW sp \in Seq(Span), NEW l \in Locs, NEW a \in Addr
  PROVE  /\ \A r \in Requests, b \in Addr :
              /\ NewTrace(sp, r, l, a, b) \in Trace
              /\ NewTrace(sp, r, l, a, b).request = r
         /\ \A t \in Trace :
              /\ on_change_block(sp, t, l, a) \in Trace
              /\ on_change_block(sp, t, l, a).request = t.request
<1>1. Len(sp) \in Nat
  BY LenProperties
<1>2. \A n \in Nat, b \in Addr : [id |-> n, addr |-> b] \in Ptr
  BY DEF Ptr
<1>3. Null \in Ptr
  BY DEF Null, Ptr
<1>4. ASSUME NEW r \in Requests, NEW b \in Addr
      PROVE  /\ NewTrace(sp, r, l, a, b) \in Trace
             /\ NewTrace(sp, r, l, a, b).request = r
  <2>1. /\ Len(sp) + 1 \in Nat
        /\ Len(sp) + 2 \in Nat
    BY <1>1
  <2> QED
    BY <1>2, <1>3, <2>1 DEF NewTrace, Trace
<1>5. ASSUME NEW t \in Trace
      PROVE  /\ on_change_block(sp, t, l, a) \in Trace
             /\ on_change_block(sp, t, l, a).request = t.request
  <2>1. Len(sp) + 1 \in Nat
    BY <1>1
  <2> QED
    BY <1>2, <2>1 DEF on_change_block, Trace
<1> QED
  BY <1>4, <1>5

\* A lookup leaves a trace the trace of its request.
LEMMA LookupType ==
  ASSUME NEW t \in Trace, NEW injected \in BOOLEAN
  PROVE  /\ lookup_span_context_value(t, injected) \in Trace
         /\ lookup_span_context_value(t, injected).request = t.request
BY DEF lookup_span_context_value, active_span, Trace, Ptr

-----------------------------------------------------------------------------
(* What a handler does to each span there is. *)

\* new is sp after calls on its spans: those of F were finished once, those of
\* D were freed, and of the others only those of T were named or given tags.
\* More spans may have been started.
Calls(sp, new, F, D, T) ==
    /\ new \in Seq(Span)
    /\ Len(sp) <= Len(new)
    /\ \A i \in 1 .. Len(sp) :
         /\ new[i].kind = sp[i].kind
         /\ new[i].request = sp[i].request
         /\ new[i].loc = sp[i].loc
         /\ new[i].parent = sp[i].parent
         /\ new[i].finishes = IF i \in F THEN sp[i].finishes + 1 ELSE sp[i].finishes
         /\ new[i].destroyed <=> sp[i].destroyed \/ i \in D
         /\ i \notin T => new[i].name = sp[i].name /\ new[i].tags = sp[i].tags

\* Calls made one after the other.
LEMMA CallsCompose ==
  ASSUME NEW sp \in Seq(Span), NEW mid, NEW new,
         NEW F1, NEW D1, NEW T1, NEW F2, NEW D2, NEW T2,
         Calls(sp, mid, F1, D1, T1), Calls(mid, new, F2, D2, T2), F1 \cap F2 = {}
  PROVE  Calls(sp, new, F1 \cup F2, D1 \cup D2, T1 \cup T2)
<1>1. /\ mid \in Seq(Span) /\ new \in Seq(Span)
      /\ Len(sp) \in Nat /\ Len(mid) \in Nat /\ Len(new) \in Nat
      /\ Len(sp) <= Len(mid) /\ Len(mid) <= Len(new)
  BY LenProperties DEF Calls
<1>2. ASSUME NEW i \in 1 .. Len(sp)
      PROVE  /\ new[i].kind = sp[i].kind
             /\ new[i].request = sp[i].request
             /\ new[i].loc = sp[i].loc
             /\ new[i].parent = sp[i].parent
             /\ new[i].finishes = IF i \in F1 \cup F2 THEN sp[i].finishes + 1
                                                     ELSE sp[i].finishes
             /\ new[i].destroyed <=> sp[i].destroyed \/ i \in D1 \cup D2
             /\ i \notin T1 \cup T2 =>
                  new[i].name = sp[i].name /\ new[i].tags = sp[i].tags
  <2>1. i \in 1 .. Len(mid)
    BY <1>1
  <2> QED
    BY <2>1 DEF Calls
<1> QED
  BY <1>1, <1>2 DEF Calls

\* No call changes nothing.
LEMMA NoCall ==
  ASSUME NEW sp \in Seq(Span)
  PROVE  Calls(sp, sp, {}, {}, {})
<1>1. Len(sp) \in Nat /\ \A i \in 1 .. Len(sp) : sp[i] \in Span
  BY LenProperties
<1> QED
  BY <1>1 DEF Calls, Span

\* SetTag acts on the one span, and finishes none.
LEMMA SetTagsCall ==
  ASSUME NEW sp \in Seq(Span), NEW id \in Nat, NEW layers \in Seq(TagLayer)
  PROVE  /\ Calls(sp, SetTags(sp, id, layers), {}, {}, {id})
         /\ Len(SetTags(sp, id, layers)) = Len(sp)
<1> DEFINE new == SetTags(sp, id, layers)
<1>1. new \in Seq(Span)
  BY TracerCallsType
<1>2. DOMAIN new = DOMAIN sp
  BY DEF SetTags
<1>3. Len(new) = Len(sp) /\ Len(sp) \in Nat /\ DOMAIN sp = 1 .. Len(sp)
  BY <1>1, <1>2, LenProperties
<1>4. ASSUME NEW i \in 1 .. Len(sp)
      PROVE  /\ new[i].kind = sp[i].kind
             /\ new[i].request = sp[i].request
             /\ new[i].loc = sp[i].loc
             /\ new[i].parent = sp[i].parent
             /\ new[i].finishes = sp[i].finishes
             /\ new[i].destroyed <=> sp[i].destroyed
             /\ i # id => new[i].name = sp[i].name /\ new[i].tags = sp[i].tags
  <2>1. new[i] = IF i = id
                 THEN [sp[i] EXCEPT !.tags = @ \o layers]
                 ELSE sp[i]
    BY <1>3 DEF SetTags
  <2>2. sp[i] \in Span
    OBVIOUS
  <2> HIDE DEF new
  <2> QED
    BY <2>1, <2>2 DEF Span
<1> HIDE DEF new
<1>5. Calls(sp, new, {}, {}, {id})
  BY <1>1, <1>3, <1>4 DEF Calls
<1> QED
  BY <1>3, <1>5 DEF new

\* SetOperationName and Finish act on one span, and finish it.
LEMMA NameAndFinishCall ==
  ASSUME NEW sp \in Seq(Span), NEW id \in Nat, NEW name \in Name
  PROVE  /\ Calls(sp, NameAndFinish(sp, id, name), {id}, {}, {id})
         /\ Len(NameAndFinish(sp, id, name)) = Len(sp)
<1> DEFINE new == NameAndFinish(sp, id, name)
<1>1. new \in Seq(Span)
  BY TracerCallsType
<1>2. DOMAIN new = DOMAIN sp
  BY DEF NameAndFinish
<1>3. Len(new) = Len(sp) /\ Len(sp) \in Nat /\ DOMAIN sp = 1 .. Len(sp)
  BY <1>1, <1>2, LenProperties
<1>4. ASSUME NEW i \in 1 .. Len(sp)
      PROVE  /\ new[i].kind = sp[i].kind
             /\ new[i].request = sp[i].request
             /\ new[i].loc = sp[i].loc
             /\ new[i].parent = sp[i].parent
             /\ new[i].finishes = IF i = id THEN sp[i].finishes + 1 ELSE sp[i].finishes
             /\ new[i].destroyed <=> sp[i].destroyed
             /\ i # id => new[i].name = sp[i].name /\ new[i].tags = sp[i].tags
  <2>1. new[i] = IF i = id
                 THEN [sp[i] EXCEPT !.name = name, !.finishes = @ + 1]
                 ELSE sp[i]
    BY <1>3 DEF NameAndFinish
  <2>2. sp[i] \in Span
    OBVIOUS
  <2> HIDE DEF new
  <2> QED
    BY <2>1, <2>2 DEF Span
<1> HIDE DEF new
<1>5. Calls(sp, new, {id}, {}, {id})
  BY <1>1, <1>3, <1>4 DEF Calls
<1> QED
  BY <1>3, <1>5 DEF new

\* Destructors free the spans they run on, and do nothing else to them.
LEMMA DestroySpansCall ==
  ASSUME NEW sp \in Seq(Span), NEW ids
  PROVE  /\ Calls(sp, DestroySpans(sp, ids), {}, ids, {})
         /\ Len(DestroySpans(sp, ids)) = Len(sp)
<1> DEFINE new == DestroySpans(sp, ids)
<1>1. new \in Seq(Span)
  <2>1. 0 \in Nat
    OBVIOUS
  <2> QED
    BY <2>1, TracerCallsType
<1>2. DOMAIN new = DOMAIN sp
  BY DEF DestroySpans
<1>3. Len(new) = Len(sp) /\ Len(sp) \in Nat /\ DOMAIN sp = 1 .. Len(sp)
  BY <1>1, <1>2, LenProperties
<1>4. ASSUME NEW i \in 1 .. Len(sp)
      PROVE  /\ new[i].kind = sp[i].kind
             /\ new[i].request = sp[i].request
             /\ new[i].loc = sp[i].loc
             /\ new[i].parent = sp[i].parent
             /\ new[i].finishes = sp[i].finishes
             /\ new[i].destroyed <=> sp[i].destroyed \/ i \in ids
             /\ new[i].name = sp[i].name
             /\ new[i].tags = sp[i].tags
  <2>1. new[i] = [sp[i] EXCEPT !.destroyed = @ \/ i \in ids] /\ sp[i] \in Span
    BY <1>3 DEF DestroySpans
  <2> HIDE DEF new
  <2> QED
    BY <2>1 DEF Span
<1> HIDE DEF new
<1>5. Calls(sp, new, {}, ids, {})
  BY <1>1, <1>3, <1>4 DEF Calls
<1> QED
  BY <1>3, <1>5 DEF new

\* StartSpan adds a span and acts on no other.
LEMMA StartCall ==
  ASSUME NEW sp \in Seq(Span), NEW s \in Span
  PROVE  /\ Calls(sp, Append(sp, s), {}, {}, {})
         /\ Len(Append(sp, s)) = Len(sp) + 1
         /\ Append(sp, s)[Len(sp) + 1] = s
<1>1. /\ Append(sp, s) \in Seq(Span)
      /\ Len(Append(sp, s)) = Len(sp) + 1
      /\ Append(sp, s)[Len(sp) + 1] = s
      /\ \A i \in 1 .. Len(sp) : Append(sp, s)[i] = sp[i]
  BY AppendProperties
<1>2. Len(sp) \in Nat /\ \A i \in 1 .. Len(sp) : sp[i] \in Span
  BY LenProperties
<1> QED
  BY <1>1, <1>2 DEF Calls, Span

\* The span that leaving the block finishes, if it has one.
Left(t) == IF t.conf \in TraceLocations THEN {t.span.id} ELSE {}

\* Leaving a block acts on the active span alone.
LEMMA ExitEffect ==
  ASSUME NEW sp \in Seq(Span), NEW t \in Trace
  PROVE  /\ Calls(sp, on_exit_block(sp, t), Left(t), {}, {active_span(t).id})
         /\ Len(on_exit_block(sp, t)) = Len(sp)
<1>1. /\ t.conf \in Locs /\ t.span.id \in Nat /\ t.request_span.id \in Nat
  BY DEF Trace, Ptr
<1>2. \A from \in {"default", "status", "upstream", "location"} :
        Layer(from, t.conf) \in TagLayer
  BY <1>1 DEF Layer, TagLayer
<1>3. CASE t.conf \in TraceLocations
  <2> DEFINE layers == <<Layer("default", t.conf), Layer("location", t.conf),
                         Layer("status", t.conf), Layer("upstream", t.conf)>>
             mid == SetTags(sp, t.span.id, layers)
             name == get_loc_operation_name(t.conf, t.conf)
  <2>1. layers \in Seq(TagLayer)
    BY <1>2
  <2>2. name \in Name
    BY <1>1, NameType
  <2>3. on_exit_block(sp, t) = NameAndFinish(mid, t.span.id, name)
    BY <1>3 DEF on_exit_block
  <2> HIDE DEF layers, name
  <2>4. Calls(sp, mid, {}, {}, {t.span.id}) /\ Len(mid) = Len(sp)
    BY <1>1, <2>1, SetTagsCall
  <2>5. mid \in Seq(Span)
    BY <2>4 DEF Calls
  <2> HIDE DEF mid
  <2>6. /\ Calls(mid, on_exit_block(sp, t), {t.span.id}, {}, {t.span.id})
        /\ Len(on_exit_block(sp, t)) = Len(mid)
    BY <1>1, <2>2, <2>3, <2>5, NameAndFinishCall
  <2>7. Calls(sp, on_exit_block(sp, t), {} \cup {t.span.id}, {} \cup {},
              {t.span.id} \cup {t.span.id})
    BY <2>4, <2>6, CallsCompose
  <2>8. /\ {} \cup {t.span.id} = Left(t)
        /\ {} \cup {} = {}
        /\ {t.span.id} \cup {t.span.id} = {active_span(t).id}
    BY <1>3 DEF Left, active_span
  <2> QED
    BY <2>4, <2>6, <2>7, <2>8
<1>4. CASE t.conf \notin TraceLocations
  <2>1. <<Layer("location", t.conf)>> \in Seq(TagLayer)
    BY <1>2
  <2>2. on_exit_block(sp, t)
          = SetTags(sp, t.request_span.id, <<Layer("location", t.conf)>>)
    BY <1>4 DEF on_exit_block
  <2>3. Left(t) = {} /\ active_span(t) = t.request_span
    BY <1>4 DEF Left, active_span
  <2> QED
    BY <1>1, <2>1, <2>2, <2>3, SetTagsCall
<1> QED
  BY <1>3, <1>4

\* Logging acts on the active span and the request span, and finishes both.
LEMMA LogEffect ==
  ASSUME NEW sp \in Seq(Span), NEW t \in Trace, NEW l \in Locs,
         t.span.id # t.request_span.id
  PROVE  /\ Calls(sp, on_log_request(sp, t, l), Left(t) \cup {t.request_span.id}, {},
                  {active_span(t).id, t.request_span.id})
         /\ Len(on_log_request(sp, t, l)) = Len(sp)
<1> DEFINE q == t.request_span.id
           exited == on_exit_block(sp, t)
           layers == <<Layer("status", t.conf), Layer("default", t.conf),
                       Layer("upstream", t.conf)>>
           tagged == SetTags(exited, q, layers)
           name == get_request_operation_name(l, t.conf)
           a == active_span(t).id
<1>1. t.conf \in Locs /\ q \in Nat
  BY DEF Trace, Ptr
<1>2. Calls(sp, exited, Left(t), {}, {a}) /\ Len(exited) = Len(sp)
  BY ExitEffect
<1>3. layers \in Seq(TagLayer)
  BY <1>1 DEF Layer, TagLayer
<1>4. name \in Name
  BY <1>1, NameType
<1>5. on_log_request(sp, t, l) = NameAndFinish(tagged, q, name)
  BY DEF on_log_request
<1> HIDE DEF exited, layers, name
<1>6. exited \in Seq(Span)
  BY <1>2 DEF Calls
<1>7. Calls(exited, tagged, {}, {}, {q}) /\ Len(tagged) = Len(exited)
  BY <1>1, <1>3, <1>6, SetTagsCall
<1>8. tagged \in Seq(Span)
  BY <1>7 DEF Calls
<1> HIDE DEF tagged
<1>9. /\ Calls(tagged, on_log_request(sp, t, l), {q}, {}, {q})
      /\ Len(on_log_request(sp, t, l)) = Len(tagged)
  BY <1>1, <1>4, <1>5, <1>8, NameAndFinishCall
<1>10. Calls(exited, on_log_request(sp, t, l), {} \cup {q}, {} \cup {}, {q} \cup {q})
  BY <1>6, <1>7, <1>9, CallsCompose
<1>11. Calls(sp, on_log_request(sp, t, l), Left(t) \cup ({} \cup {q}),
             {} \cup ({} \cup {}), {a} \cup ({q} \cup {q}))
  <2>1. Left(t) \cap ({} \cup {q}) = {}
    BY DEF Left
  <2> QED
    BY <1>2, <1>10, <2>1, CallsCompose
<1>12. /\ Left(t) \cup ({} \cup {q}) = Left(t) \cup {q}
       /\ {} \cup ({} \cup {}) = {}
       /\ {a} \cup ({q} \cup {q}) = {a, q}
  OBVIOUS
<1> QED
  BY <1>2, <1>7, <1>9, <1>11, <1>12

\* Changing the block leaves the old one and, if the new one wants a span,
\* starts it and frees the span there was.
LEMMA ChangeEffect ==
  ASSUME NEW sp \in Seq(Span), NEW t \in Trace, NEW l \in Locs,
         t.span.id <= Len(sp)
  PROVE  /\ Calls(sp, on_change_block_spans(sp, t, l), Left(t),
                  IF l \in TraceLocations THEN {t.span.id} ELSE {},
                  {active_span(t).id})
         /\ Len(on_change_block_spans(sp, t, l)) =
              IF l \in TraceLocations THEN Len(sp) + 1 ELSE Len(sp)
         /\ l \in TraceLocations =>
              LET new == on_change_block_spans(sp, t, l)[Len(sp) + 1]
                  started == LocationSpan(t.request, l, t.request_span.id)
              IN  /\ new.kind = started.kind
                  /\ new.request = started.request
                  /\ new.loc = started.loc
                  /\ new.parent = started.parent
                  /\ new.name = started.name
                  /\ new.tags = started.tags
                  /\ new.finishes = started.finishes
                  /\ ~new.destroyed
<1> DEFINE exited == on_exit_block(sp, t)
           s == LocationSpan(t.request, l, t.request_span.id)
           more == Append(exited, s)
           a == active_span(t).id
           n == Len(sp) + 1
<1>1. /\ t.request \in Requests /\ t.conf \in Locs
      /\ t.span.id \in Nat /\ t.request_span.id \in Nat
      /\ Len(sp) \in Nat
  BY LenProperties DEF Trace, Ptr
<1>2. Calls(sp, exited, Left(t), {}, {a}) /\ Len(exited) = Len(sp)
  BY ExitEffect
<1>3. exited \in Seq(Span)
  BY <1>2 DEF Calls
<1>4. CASE l \notin TraceLocations
  BY <1>2, <1>4 DEF on_change_block_spans
<1>5. CASE l \in TraceLocations
  <2>1. s \in Span
    BY <1>1, StartedSpanType
  <2>2. ~s.destroyed
    BY DEF LocationSpan, NewSpan
  <2>3. on_change_block_spans(sp, t, l) = DestroySpans(more, {t.span.id})
    BY <1>5 DEF on_change_block_spans
  <2> HIDE DEF exited, s
  <2>4. /\ Calls(exited, more, {}, {}, {})
        /\ Len(more) = n
        /\ more[n] = s
    BY <1>2, <1>3, <2>1, StartCall
  <2>5. more \in Seq(Span)
    BY <2>4 DEF Calls
  <2> HIDE DEF more
  <2> DEFINE new == on_change_block_spans(sp, t, l)
  <2>6. Calls(more, new, {}, {t.span.id}, {}) /\ Len(new) = n
    BY <1>1, <2>3, <2>4, <2>5, DestroySpansCall
  <2> HIDE DEF new
  <2>7. Calls(exited, new, {} \cup {}, {} \cup {t.span.id}, {} \cup {})
    BY <1>3, <2>4, <2>6, CallsCompose
  <2>8. Calls(sp, new, Left(t) \cup ({} \cup {}), {} \cup ({} \cup {t.span.id}),
              {a} \cup ({} \cup {}))
    <3>1. Left(t) \cap ({} \cup {}) = {}
      OBVIOUS
    <3> QED
      BY <1>2, <2>7, <3>1, CallsCompose
  <2>9. /\ Left(t) \cup ({} \cup {}) = Left(t)
        /\ {} \cup ({} \cup {t.span.id}) = {t.span.id}
        /\ {a} \cup ({} \cup {}) = {a}
    OBVIOUS
  <2>10. Calls(sp, new, Left(t), {t.span.id}, {a})
    BY <2>8, <2>9
  <2>11. /\ new[n].kind = s.kind
         /\ new[n].request = s.request
         /\ new[n].loc = s.loc
         /\ new[n].parent = s.parent
         /\ new[n].name = s.name
         /\ new[n].tags = s.tags
         /\ new[n].finishes = s.finishes
         /\ ~new[n].destroyed
    <3>1. n \in 1 .. Len(more) /\ n \notin {t.span.id}
      BY <1>1, <2>4
    <3> QED
      BY <2>2, <2>4, <2>6, <3>1 DEF Calls
  <2> QED
    BY <1>5, <2>6, <2>10, <2>11 DEF new, s
<1> QED
  BY <1>4, <1>5

\* The constructor starts the request span and, if the block wants one, a
\* location span, and touches no other.
LEMMA StartEffect ==
  ASSUME NEW sp \in Seq(Span), NEW r \in Requests, NEW l \in Locs,
         NEW parent \in Nat
  PROVE  /\ Calls(sp, StartTrace(sp, r, l, parent), {}, {}, {})
         /\ Len(StartTrace(sp, r, l, parent)) =
              IF l \in TraceLocations THEN Len(sp) + 2 ELSE Len(sp) + 1
         /\ StartTrace(sp, r, l, parent)[Len(sp) + 1] = RequestSpan(r, l, parent)
         /\ l \in TraceLocations =>
              StartTrace(sp, r, l, parent)[Len(sp) + 2]
                = LocationSpan(r, l, Len(sp) + 1)
<1> DEFINE n == Len(sp) + 1
           q == RequestSpan(r, l, parent)
           s == LocationSpan(r, l, n)
           one == Append(sp, q)
           two == Append(one, s)
<1>1. Len(sp) \in Nat /\ n \in Nat
  BY LenProperties
<1>2. q \in Span /\ s \in Span
  BY <1>1, StartedSpanType
<1>3. l \in TraceLocations => StartTrace(sp, r, l, parent) = sp \o <<q, s>>
  BY DEF StartTrace
<1>4. l \notin TraceLocations => StartTrace(sp, r, l, parent) = one
  BY DEF StartTrace
<1> HIDE DEF q, s
<1>5. sp \o <<q, s>> = two
  BY <1>2
<1>6. /\ Calls(sp, one, {}, {}, {})
      /\ Len(one) = n
      /\ one[n] = q
  BY <1>2, StartCall
<1>7. one \in Seq(Span)
  BY <1>6 DEF Calls
<1>8. two[n] = one[n]
  BY <1>1, <1>2, <1>6, <1>7, AppendProperties
<1> HIDE DEF one
<1>9. /\ Calls(one, two, {}, {}, {})
      /\ Len(two) = n + 1
      /\ two[n + 1] = s
  BY <1>2, <1>6, <1>7, StartCall
<1>10. Calls(sp, two, {}, {}, {})
  <2>1. Calls(sp, two, {} \cup {}, {} \cup {}, {} \cup {})
    BY <1>6, <1>9, CallsCompose
  <2>2. {} \cup {} = {}
    OBVIOUS
  <2> QED
    BY <2>1, <2>2
<1> HIDE DEF two
<1>11. n + 1 = Len(sp) + 2
  BY <1>1
<1> QED
  BY <1>3, <1>4, <1>5, <1>6, <1>8, <1>9, <1>10, <1>11 DEF q, s
=============================================================================
