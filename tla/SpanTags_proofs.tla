--------------------------- MODULE SpanTags_proofs ---------------------------
(***************************************************************************)
(* Theorems about the tags of the spans that TracingContext leaves behind, *)
(* for any tags, scripts, locations and directives:                        *)
(*                                                                         *)
(*   TagsInvariant   in which groups the tags of a span come;              *)
(*   OwnTags         a location span ends with its own location's tags and *)
(*                   the default tags that these do not override;          *)
(*   KeptTags        a request span ends with the default tags, and with   *)
(*                   those of its last location if that has no span.       *)
(***************************************************************************)
EXTENDS SpanTags, SpanOwnership_proofs

-----------------------------------------------------------------------------
(* What the calls on the spans do to their tags. *)

\* Tags set on one span come after those it has.
LEMMA SetTagsTags ==
  ASSUME NEW sp \in Seq(Span), NEW id \in 1 .. Len(sp), NEW layers
  PROVE  SetTags(sp, id, layers)[id].tags = sp[id].tags \o layers
<1>1. DOMAIN sp = 1 .. Len(sp) /\ sp[id] \in Span
  BY LenProperties
<1>2. SetTags(sp, id, layers)[id] = [sp[id] EXCEPT !.tags = @ \o layers]
  BY <1>1 DEF SetTags
<1> QED
  BY <1>1, <1>2 DEF Span

\* A name and an end change no tags.
LEMMA NameAndFinishTags ==
  ASSUME NEW sp \in Seq(Span), NEW id \in 1 .. Len(sp), NEW name
  PROVE  NameAndFinish(sp, id, name)[id].tags = sp[id].tags
<1>1. DOMAIN sp = 1 .. Len(sp) /\ sp[id] \in Span
  BY LenProperties
<1>2. NameAndFinish(sp, id, name)[id]
        = [sp[id] EXCEPT !.name = name, !.finishes = @ + 1]
  BY <1>1 DEF NameAndFinish
<1> QED
  BY <1>1, <1>2 DEF Span

\* The groups of calls made on a span are groups.
LEMMA LayersType ==
  ASSUME NEW l \in Locs
  PROVE  /\ LocationLayers(l) \in Seq(TagLayer)
         /\ <<Layer("location", l)>> \in Seq(TagLayer)
         /\ <<Layer("status", l), Layer("default", l), Layer("upstream", l)>>
              \in Seq(TagLayer)
<1>1. \A from \in {"default", "status", "upstream", "location"} :
        Layer(from, l) \in TagLayer
  BY DEF Layer, TagLayer
<1> QED
  BY <1>1 DEF LocationLayers

\* What leaving a block adds to the span of the block, or to the request span.
LEMMA ExitTags ==
  ASSUME NEW sp \in Seq(Span), NEW t \in Trace,
         t.conf \in TraceLocations => t.span.id \in 1 .. Len(sp),
         t.request_span.id \in 1 .. Len(sp)
  PROVE  IF t.conf \in TraceLocations
         THEN on_exit_block(sp, t)[t.span.id].tags
                = sp[t.span.id].tags \o LocationLayers(t.conf)
         ELSE on_exit_block(sp, t)[t.request_span.id].tags
                = sp[t.request_span.id].tags \o <<Layer("location", t.conf)>>
<1>1. t.conf \in Locs
  BY DEF Trace
<1>2. CASE t.conf \in TraceLocations
  <2>0. PICK s \in 1 .. Len(sp) : s = t.span.id
    BY <1>2
  <2>1. PICK layers \in Seq(TagLayer) : layers = LocationLayers(t.conf)
    BY <1>1, LayersType
  <2>2. PICK mid : mid = SetTags(sp, s, layers)
    OBVIOUS
  <2>3. s \in Nat
    OBVIOUS
  <2>4. Calls(sp, mid, {}, {}, {s}) /\ Len(mid) = Len(sp)
    BY <2>2, <2>3, SetTagsCall
  <2>5. mid[s].tags = sp[s].tags \o layers
    BY <2>2, SetTagsTags
  <2>6. mid \in Seq(Span) /\ s \in 1 .. Len(mid)
    BY <2>4 DEF Calls
  <2>7. on_exit_block(sp, t)
          = NameAndFinish(mid, s, get_loc_operation_name(t.conf, t.conf))
    BY <1>2, <2>0, <2>1, <2>2 DEF on_exit_block, LocationLayers
  <2>8. on_exit_block(sp, t)[s].tags = mid[s].tags
    BY <2>6, <2>7, NameAndFinishTags
  <2> QED
    BY <1>2, <2>0, <2>1, <2>5, <2>8
<1>3. CASE t.conf \notin TraceLocations
  BY <1>3, SetTagsTags DEF on_exit_block
<1> QED
  BY <1>2, <1>3

\* The groups of calls that a request span has when it was logged.
LEMMA LogTags ==
  ASSUME NEW sp \in Seq(Span), NEW t \in Trace, NEW l,
         t.conf \in TraceLocations => t.span.id \in 1 .. Len(sp),
         t.request_span.id \in 1 .. Len(sp)
  PROVE  EndsTagged(on_log_request(sp, t, l)[t.request_span.id].tags, t.conf)
<1>0. PICK q \in 1 .. Len(sp) : q = t.request_span.id
  OBVIOUS
<1>1. PICK exited : exited = on_exit_block(sp, t)
  OBVIOUS
<1>2. exited \in Seq(Span) /\ Len(exited) = Len(sp)
  BY <1>1, ExitEffect DEF Calls
<1>3. PICK front : front = exited[q].tags
  OBVIOUS
<1>4. front \in Seq(TagLayer)
  <2>1. exited[q] \in Span
    BY <1>0, <1>2
  <2> QED
    BY <1>3, <2>1 DEF Span
<1>5. t.conf \notin TraceLocations =>
        \E before \in Seq(TagLayer) : front = before \o <<Layer("location", t.conf)>>
  <2>1. sp[q].tags \in Seq(TagLayer)
    <3>1. sp[q] \in Span
      BY <1>0
    <3> QED
      BY <3>1 DEF Span
  <2>2. t.conf \notin TraceLocations =>
          front = sp[q].tags \o <<Layer("location", t.conf)>>
    BY <1>0, <1>1, <1>3, ExitTags
  <2> QED
    BY <2>1, <2>2
<1>6. PICK layers \in Seq(TagLayer) :
        layers = <<Layer("status", t.conf), Layer("default", t.conf),
                   Layer("upstream", t.conf)>>
  BY LayersType DEF Trace
<1>7. PICK mid : mid = SetTags(exited, q, layers)
  OBVIOUS
<1>8. /\ mid \in Seq(Span)
      /\ Len(mid) = Len(sp)
      /\ mid[q].tags = front \o layers
  <2>1. q \in Nat /\ q \in 1 .. Len(exited)
    BY <1>0, <1>2
  <2>2. Calls(exited, mid, {}, {}, {q}) /\ Len(mid) = Len(exited)
    BY <1>2, <1>7, <2>1, SetTagsCall
  <2>3. mid[q].tags = exited[q].tags \o layers
    BY <1>2, <1>7, <2>1, SetTagsTags
  <2> QED
    BY <1>2, <1>3, <2>2, <2>3 DEF Calls
<1>9. PICK name : on_log_request(sp, t, l) = NameAndFinish(mid, q, name)
  BY <1>0, <1>1, <1>6, <1>7 DEF on_log_request
<1>10. on_log_request(sp, t, l)[q].tags = front \o layers
  <2>1. q \in 1 .. Len(mid)
    BY <1>8
  <2>2. NameAndFinish(mid, q, name)[q].tags = mid[q].tags
    BY <1>8, <2>1, NameAndFinishTags
  <2> QED
    BY <1>8, <1>9, <2>2
<1>11. EndsTagged(front \o layers, t.conf)
  <2>1. PICK m \in Nat : m = Len(front)
    BY <1>4, LenProperties
  <2>2. /\ Len(layers) = 3
        /\ layers[1] = Layer("status", t.conf)
        /\ layers[2] = Layer("default", t.conf)
        /\ layers[3] = Layer("upstream", t.conf)
    BY <1>6
  <2>3. /\ Len(front \o layers) = m + 3
        /\ (front \o layers)[m + 1] = layers[1]
        /\ (front \o layers)[m + 2] = layers[2]
        /\ (front \o layers)[m + 3] = layers[3]
        /\ m > 0 => (front \o layers)[m] = front[m]
    BY <1>4, <1>6, <2>1, <2>2, ConcatProperties
  <2>4. t.conf \notin TraceLocations => m > 0 /\ front[m] = Layer("location", t.conf)
    <3> SUFFICES ASSUME t.conf \notin TraceLocations
                 PROVE  m > 0 /\ front[m] = Layer("location", t.conf)
      OBVIOUS
    <3>1. PICK before \in Seq(TagLayer) :
            front = before \o <<Layer("location", t.conf)>>
      BY <1>5
    <3>2. <<Layer("location", t.conf)>> \in Seq(TagLayer)
      BY LayersType DEF Trace
    <3>3. Len(before) \in Nat
      BY LenProperties
    <3> QED
      BY <2>1, <3>1, <3>2, <3>3, ConcatProperties
  <2>5. PICK tags : tags = front \o layers
    OBVIOUS
  <2>6. /\ Len(tags) = m + 3
        /\ m + 3 - 2 = m + 1 /\ m + 3 - 1 = m + 2 /\ m + 3 - 3 = m
        /\ m + 3 >= 3
        /\ m > 0 => m + 3 > 3
    BY <2>1, <2>3, <2>5
  <2> QED
    BY <2>2, <2>3, <2>4, <2>5, <2>6 DEF EndsTagged
<1> QED
  BY <1>0, <1>10, <1>11

-----------------------------------------------------------------------------
(* Spans and traces that a step leaves alone. *)

\* A span stays tagged as it is when calls are made on others.
LEMMA LocationKept ==
  ASSUME NEW sp \in Seq(Span), NEW new, NEW F, NEW D, NEW T,
         Calls(sp, new, F, D, T), NEW k \in 1 .. Len(sp),
         k \notin F \cup T \/ sp[k].kind # "location",
         LocationTagged(sp, k)
  PROVE  LocationTagged(new, k)
BY DEF Calls, LocationTagged, Finished

\* What the invariant says of the spans.
AllTagged(sp) == \A k \in 1 .. Len(sp) : LocationTagged(sp, k)

\* ... and of those just started.
NewTagged(sp, new) ==
    \A k \in 1 .. Len(new) : k \notin 1 .. Len(sp) => LocationTagged(new, k)

\* So do all of them when spans are only started.
LEMMA LocationsKept ==
  ASSUME NEW sp \in Seq(Span), AllTagged(sp),
         NEW new, Calls(sp, new, {}, {}, {}), NewTagged(sp, new)
  PROVE  new \in Seq(Span) /\ AllTagged(new)
<1>1. ASSUME NEW k \in 1 .. Len(new) PROVE LocationTagged(new, k)
  <2>1. CASE k \in 1 .. Len(sp)
    <3>1. LocationTagged(sp, k) /\ k \notin {} \cup {}
      BY <2>1 DEF AllTagged
    <3> QED
      BY <2>1, <3>1, LocationKept
  <2>2. CASE k \notin 1 .. Len(sp)
    BY <2>2 DEF NewTagged
  <2> QED
    BY <2>1, <2>2
<1> QED
  BY <1>1 DEF AllTagged, Calls

\* A trace's spans stay tagged as they are when calls are made on others.
LEMMA TraceKept ==
  ASSUME spans \in Seq(Span), NEW t \in Trace, OwnsItsSpans(t),
         NEW sp, NEW F, NEW D, NEW T, Calls(spans, sp, F, D, T),
         \A id \in OwnedIds(t) : id # 0 => id \notin F \cup T,
         TraceTagged(spans, t)
  PROVE  TraceTagged(sp, t)
<1>1. PICK q \in 1 .. Len(spans) : q = t.request_span.id
  BY LenProperties DEF OwnsItsSpans
<1>2. q \notin F \cup T
  BY <1>1, LenProperties DEF OwnedIds
<1>3. sp[q].finishes = spans[q].finishes /\ sp[q].tags = spans[q].tags
  BY <1>2 DEF Calls
<1>4. t.conf \in TraceLocations => sp[t.span.id].loc = spans[t.span.id].loc
  <2>1. t.conf \in TraceLocations => t.span.id \in 1 .. Len(spans)
    BY LenProperties DEF OwnsItsSpans
  <2> QED
    BY <2>1 DEF Calls
<1> QED
  BY <1>1, <1>3, <1>4 DEF TraceTagged, Finished

\* The spans a constructor starts have no tags yet.
LEMMA StartTagged ==
  ASSUME NEW sp \in Seq(Span), NEW r \in Requests, NEW l \in Locs,
         NEW parent \in Nat, NEW new, new = StartTrace(sp, r, l, parent)
  PROVE  /\ Calls(sp, new, {}, {}, {})
         /\ NewTagged(sp, new)
         /\ new[Len(sp) + 1].finishes = 0
         /\ l \in TraceLocations => new[Len(sp) + 2].loc = l
<1> DEFINE n == Len(sp) + 1
<1>1. /\ Calls(sp, new, {}, {}, {})
      /\ Len(new) = IF l \in TraceLocations THEN Len(sp) + 2 ELSE n
      /\ new[n] = RequestSpan(r, l, parent)
      /\ l \in TraceLocations => new[Len(sp) + 2] = LocationSpan(r, l, n)
  BY StartEffect
<1>2. Len(sp) \in Nat
  BY LenProperties
<1>3. ASSUME NEW k \in 1 .. Len(new), k \notin 1 .. Len(sp)
      PROVE  LocationTagged(new, k)
  <2>1. k = n \/ (l \in TraceLocations /\ k = Len(sp) + 2)
    BY <1>1, <1>2, <1>3
  <2>2. new[k].kind = "request" \/ (new[k].tags = <<>> /\ new[k].finishes = 0)
    BY <1>1, <2>1 DEF RequestSpan, LocationSpan, NewSpan
  <2> QED
    BY <2>2 DEF LocationTagged, Finished
<1> QED
  BY <1>1, <1>3 DEF RequestSpan, LocationSpan, NewSpan, NewTagged

\* Freed spans keep their tags.
LEMMA DestroyTagged ==
  ASSUME NEW sp \in Seq(Span), AllTagged(sp),
         NEW ids, NEW new, new = DestroySpans(sp, ids)
  PROVE  new \in Seq(Span) /\ AllTagged(new)
<1>1. Calls(sp, new, {}, ids, {}) /\ Len(new) = Len(sp)
  BY DestroySpansCall
<1>2. ASSUME NEW k \in 1 .. Len(sp) PROVE LocationTagged(new, k)
  <2>1. LocationTagged(sp, k) /\ k \notin {} \cup {}
    BY DEF AllTagged
  <2> QED
    BY <1>1, <2>1, LocationKept
<1> QED
  BY <1>1, <1>2 DEF AllTagged, Calls

\* A request span that is started is no location span.
LEMMA RequestSpanTagged ==
  ASSUME NEW sp \in Seq(Span), AllTagged(sp), NEW r \in Requests, NEW l \in Locs,
         NEW parent \in Nat, NEW new, new = Append(sp, RequestSpan(r, l, parent))
  PROVE  new \in Seq(Span) /\ AllTagged(new)
<1>1. PICK s \in Span : s = RequestSpan(r, l, parent) /\ s.kind = "request"
  BY StartedSpanType DEF RequestSpan, NewSpan
<1>2. /\ Calls(sp, new, {}, {}, {})
      /\ Len(new) = Len(sp) + 1
      /\ new[Len(sp) + 1] = s
  BY <1>1, StartCall
<1>3. NewTagged(sp, new)
  BY <1>1, <1>2, LenProperties DEF LocationTagged, NewTagged
<1> QED
  BY <1>2, <1>3, LocationsKept

\* Tagging, naming and finishing a request span tags no location span.
LEMMA RequestSpanKept ==
  ASSUME NEW sp \in Seq(Span), AllTagged(sp),
         NEW q \in 1 .. Len(sp), sp[q].kind = "request",
         NEW layers \in Seq(TagLayer), NEW name \in Name,
         NEW new, new = NameAndFinish(SetTags(sp, q, layers), q, name)
  PROVE  AllTagged(new)
<1>1. PICK mid : mid = SetTags(sp, q, layers)
  OBVIOUS
<1>2. q \in Nat
  OBVIOUS
<1>3. Calls(sp, mid, {}, {}, {q}) /\ Len(mid) = Len(sp)
  BY <1>1, <1>2, SetTagsCall
<1>4. mid \in Seq(Span) /\ mid[q].kind = "request"
  BY <1>3 DEF Calls
<1>5. Calls(mid, new, {q}, {}, {q}) /\ Len(new) = Len(mid)
  BY <1>1, <1>2, <1>4, NameAndFinishCall
<1>6. ASSUME NEW k \in 1 .. Len(sp) PROVE LocationTagged(new, k)
  <2>1. CASE k = q
    BY <1>3, <1>4, <1>5, <2>1 DEF Calls, LocationTagged
  <2>2. CASE k # q
    <3>1. LocationTagged(mid, k)
      BY <1>3, <2>2, LocationKept DEF AllTagged
    <3> QED
      BY <1>3, <1>4, <1>5, <2>2, <3>1, LocationKept
  <2> QED
    BY <2>1, <2>2
<1> QED
  BY <1>3, <1>5, <1>6 DEF AllTagged

\* A block that is left gives its span its tags, all of them.
LEMMA ExitTagged ==
  ASSUME Inv, TagsInv, NEW c \in live, NEW i \in DOMAIN traces[c],
         ~Logged(traces[c][i].request), NEW t \in Trace, t = traces[c][i],
         NEW sp, sp = on_exit_block(spans, t)
  PROVE  AllTagged(sp)
<1>1. /\ spans \in Seq(Span) /\ DOMAIN spans = 1 .. Len(spans)
      /\ OwnsItsSpans(t)
      /\ t.request_span.id \in 1 .. Len(spans)
      /\ t.span.id \in 0 .. Len(spans)
      /\ TraceTagged(spans, t)
      /\ AllTagged(spans)
  BY OwnedTrace, LenProperties DEF Inv, TypeOK, TracingTypeOK, TagsInv, AllTagged
<1>2. Calls(spans, sp, Left(t), {}, {active_span(t).id}) /\ Len(sp) = Len(spans)
  BY <1>1, ExitEffect
<1>3. CASE t.conf \in TraceLocations
  <2>1. PICK s \in 1 .. Len(spans) : s = t.span.id
    BY <1>1, <1>3 DEF OwnsItsSpans
  <2>2. /\ spans[s].kind = "location"
        /\ spans[s].finishes = 0
        /\ spans[s].loc = t.conf
    BY <1>1, <1>3, <2>1 DEF OwnsItsSpans, TraceTagged
  <2>3. spans[s].tags = <<>>
    BY <1>1, <2>2 DEF AllTagged, LocationTagged, Finished
  <2>4. sp[s].tags = <<>> \o LocationLayers(t.conf)
    BY <1>1, <1>3, <2>1, <2>3, ExitTags
  <2>5. LocationLayers(t.conf) \in Seq(TagLayer)
    BY LayersType DEF Trace
  <2>6. sp[s].tags = LocationLayers(t.conf)
    BY <2>4, <2>5
  <2>7. sp[s].loc = t.conf /\ sp[s].finishes = 1
    BY <1>2, <1>3, <2>1, <2>2 DEF Calls, Left
  <2>8. LocationTagged(sp, s)
    BY <2>6, <2>7 DEF LocationTagged, Finished
  <2>9. \A k \in 1 .. Len(spans) : k # s => k \notin Left(t) \cup {active_span(t).id}
    BY <1>3, <2>1 DEF Left, active_span
  <2>10. \A k \in 1 .. Len(spans) : k # s => LocationTagged(sp, k)
    BY <1>1, <1>2, <2>9, LocationKept DEF AllTagged
  <2> QED
    BY <1>2, <2>8, <2>10 DEF AllTagged
<1>4. CASE t.conf \notin TraceLocations
  <2>1. \A k \in 1 .. Len(spans) :
          k \in Left(t) \cup {active_span(t).id} => spans[k].kind # "location"
    BY <1>1, <1>4 DEF Left, active_span, OwnsItsSpans
  <2>2. \A k \in 1 .. Len(spans) : LocationTagged(sp, k)
    BY <1>1, <1>2, <2>1, LocationKept DEF AllTagged
  <2> QED
    BY <1>2, <2>2 DEF AllTagged
<1> QED
  BY <1>3, <1>4

-----------------------------------------------------------------------------
(* The steps of TracingContext. *)

\* A step that leaves the spans and the traces' blocks alone leaves the tags.
LEMMA SameTagged ==
  ASSUME TagsInv, spans' = spans, live' = live,
         \A c \in live :
           /\ DOMAIN traces'[c] = DOMAIN traces[c]
           /\ \A i \in DOMAIN traces[c] :
                /\ traces'[c][i].conf = traces[c][i].conf
                /\ traces'[c][i].request_span = traces[c][i].request_span
                /\ traces'[c][i].span = traces[c][i].span
  PROVE  TagsInv'
BY DEF TagsInv, TraceTagged, LocationTagged

\* When no context is left, only the location spans matter.
LEMMA GoneTagged ==
  ASSUME live' = {}, spans' \in Seq(Span), AllTagged(spans')
  PROVE  TagsInv'
BY LenProperties DEF TagsInv, AllTagged

\* What the invariant says of the state before a step.
LEMMA TagsBefore ==
  ASSUME Inv, TagsInv
  PROVE  spans \in Seq(Span) /\ AllTagged(spans)
BY LenProperties DEF Inv, TypeOK, TracingTypeOK, TagsInv, AllTagged

\* A new context's trace has its block's span, without tags.
LEMMA NewContextTagged ==
  ASSUME Inv, TagsInv, live = {}, NEW r \in Requests, NEW l \in Locs,
         NewContext(r, l)
  PROVE  TagsInv'
<1>0. PICK c \in Nat : c = Len(traces) + 1
  BY LenProperties DEF Inv, TypeOK, TracingTypeOK
<1>1. PICK a \in FreeAddrs, b \in FreeAddrs :
        set_opentracing_context(r, NewTrace(spans, r, l, a, b))
  BY DEF NewContext
<1>2. PICK e : e = NewTrace(spans, r, l, a, b)
  OBVIOUS
<1>3. live' = {c} /\ traces' = Append(traces, <<e>>)
  BY <1>0, <1>1, <1>2 DEF set_opentracing_context
<1>4. DOMAIN traces'[c] = {1} /\ traces'[c][1] = e
  BY <1>0, <1>3 DEF Inv, TypeOK, TracingTypeOK
<1>5. spans' = StartTrace(spans, r, l, None) /\ None \in Nat
  BY DEF NewContext, None
<1>6. /\ Calls(spans, spans', {}, {}, {})
      /\ NewTagged(spans, spans')
      /\ spans'[Len(spans) + 1].finishes = 0
      /\ l \in TraceLocations => spans'[Len(spans) + 2].loc = l
  BY <1>5, TagsBefore, StartTagged
<1>7. AllTagged(spans') /\ DOMAIN spans' = 1 .. Len(spans')
  BY <1>6, TagsBefore, LocationsKept, LenProperties
<1>8. TraceTagged(spans', e)
  <2>1. /\ e.conf = l
        /\ e.request_span.id = Len(spans) + 1
        /\ l \in TraceLocations => e.span.id = Len(spans) + 2
    BY <1>2 DEF NewTrace
  <2> QED
    BY <1>6, <2>1 DEF TraceTagged, Finished
<1> QED
  BY <1>3, <1>4, <1>7, <1>8 DEF TagsInv, AllTagged

\* A constructor that fails leaves no tags.
LEMMA NewContextFailsTagged ==
  ASSUME Inv, TagsInv, live = {}, NEW r \in Requests, NEW l \in Locs,
         NewContextFails(r, l)
  PROVE  TagsInv'
<1>1. /\ spans \in Seq(Span) /\ AllTagged(spans) /\ None \in Nat
      /\ live' = {}
  BY TagsBefore DEF NewContextFails, None
<1>2. PICK one : one = Append(spans, RequestSpan(r, l, None))
  OBVIOUS
<1>3. PICK mid : mid = StartTrace(spans, r, l, None)
  OBVIOUS
<1>4. one \in Seq(Span) /\ AllTagged(one)
  BY <1>1, <1>2, RequestSpanTagged
<1>5. mid \in Seq(Span) /\ AllTagged(mid)
  <2>1. /\ Calls(spans, mid, {}, {}, {})
        /\ NewTagged(spans, mid)
    BY <1>1, <1>3, StartTagged
  <2> QED
    BY <1>1, <2>1, LocationsKept
<1>6. \/ spans' = spans
      \/ \E ids : spans' = DestroySpans(one, ids)
      \/ \E ids : spans' = DestroySpans(mid, ids)
  BY <1>2, <1>3 DEF NewContextFails
<1>7. spans' \in Seq(Span) /\ AllTagged(spans')
  BY <1>1, <1>4, <1>5, <1>6, DestroyTagged
<1> QED
  BY <1>1, <1>7, GoneTagged

\* A trace that is added has its block's span, and the others keep theirs.
LEMMA AddTagged ==
  ASSUME Inv, TagsInv, NEW r \in Requests, NEW l \in Locs, NEW c \in live,
         AddTrace(r, l, c)
  PROVE  TagsInv'
<1>1. PICK a \in FreeAddrs, b \in FreeAddrs :
        traces' = [traces EXCEPT ![c] = Append(@, NewTrace(spans, r, l, a, b))]
  BY DEF AddTrace
<1>2. PICK e \in Trace : e = NewTrace(spans, r, l, a, b)
  BY TraceType DEF FreeAddrs, Inv, TypeOK, TracingTypeOK
<1>3. /\ c \in 1 .. Len(traces)
      /\ traces \in Seq(Seq(Trace))
      /\ traces[c] \in Seq(Trace)
      /\ live' = {c} /\ live = {c}
  BY RootTrace, OneLive DEF AddTrace, Inv, TypeOK, TracingTypeOK, TracingInv
<1>4. PICK m \in Nat : m = Len(traces[c]) + 1
  BY <1>3, LenProperties
<1>5. /\ DOMAIN traces'[c] = DOMAIN traces[c] \cup {m}
      /\ \A j \in DOMAIN traces[c] : traces'[c][j] = traces[c][j]
      /\ traces'[c][m] = e
  <2>1. traces'[c] = Append(traces[c], e)
    BY <1>1, <1>2, <1>3
  <2>2. DOMAIN traces[c] = 1 .. Len(traces[c]) /\ Len(traces[c]) \in Nat
    BY <1>3, LenProperties
  <2>3. /\ Append(traces[c], e) \in Seq(Trace)
        /\ Len(Append(traces[c], e)) = m
        /\ \A j \in 1 .. Len(traces[c]) : Append(traces[c], e)[j] = traces[c][j]
        /\ Append(traces[c], e)[m] = e
    BY <1>3, <1>4, AppendProperties
  <2>4. DOMAIN Append(traces[c], e) = 1 .. m
    BY <2>3, LenProperties
  <2> QED
    BY <1>4, <2>1, <2>2, <2>3, <2>4
<1>6. PICK root \in Nat : spans' = StartTrace(spans, r, l, root)
  BY RootTrace DEF AddTrace, Inv, TypeOK, TracingInv
<1>7. /\ Calls(spans, spans', {}, {}, {})
      /\ NewTagged(spans, spans')
      /\ spans'[Len(spans) + 1].finishes = 0
      /\ l \in TraceLocations => spans'[Len(spans) + 2].loc = l
  BY <1>6, TagsBefore, StartTagged
<1>8. AllTagged(spans') /\ DOMAIN spans' = 1 .. Len(spans')
  BY <1>7, TagsBefore, LocationsKept, LenProperties
<1>9. TraceTagged(spans', e)
  <2>1. /\ e.conf = l
        /\ e.request_span.id = Len(spans) + 1
        /\ l \in TraceLocations => e.span.id = Len(spans) + 2
    BY <1>2 DEF NewTrace
  <2> QED
    BY <1>7, <2>1 DEF TraceTagged, Finished
<1>10. ASSUME NEW j \in DOMAIN traces[c]
       PROVE  TraceTagged(spans', traces[c][j])
  <2>1. PICK u \in Trace : u = traces[c][j]
    BY OwnedTrace DEF Inv
  <2>2. OwnsItsSpans(u) /\ TraceTagged(spans, u)
    BY <2>1, OwnedTrace DEF Inv, TagsInv
  <2>3. TraceTagged(spans', u)
    BY <1>7, <2>2, TagsBefore, TraceKept
  <2> QED
    BY <2>1, <2>3
<1> QED
  BY <1>3, <1>5, <1>8, <1>9, <1>10 DEF TagsInv, AllTagged

\* A change of block tags what the old block was recorded on, and starts the
\* new block's span without tags.
LEMMA ChangeTagged ==
  ASSUME Inv, TagsInv, NEW r \in Requests, NEW l \in Locs, NEW c \in live,
         ~Logged(r), ChangeBlock(r, l, c)
  PROVE  TagsInv'
<1>0. PICK i \in DOMAIN traces[c], a \in FreeAddrs : Changed(r, l, c, i, a)
  BY ChangeShape
<1>1. PICK t \in Trace : t = traces[c][i]
  BY OwnedTrace DEF Inv
<1>2. PICK e \in Trace : e = on_change_block(spans, t, l, a)
  BY <1>0, <1>1 DEF Changed
<1> DEFINE n == Len(spans) + 1
           F == Left(t)
           T == {active_span(t).id}
<1>3. /\ t.request = r
      /\ OwnsItsSpans(t)
      /\ t.request_span.id \in 1 .. Len(spans)
      /\ t.span.id \in 0 .. Len(spans)
      /\ t.span.id # t.request_span.id
      /\ live = {c} /\ live' = {c}
  BY <1>0, <1>1, OwnedTrace, OneLive DEF Inv, Changed
<1>4. /\ spans \in Seq(Span) /\ spans' \in Seq(Span)
      /\ Len(spans) \in Nat
      /\ DOMAIN spans' = 1 .. Len(spans')
      /\ Len(spans') = IF l \in TraceLocations THEN n ELSE Len(spans)
  <2>1. spans \in Seq(Span) /\ spans' \in Seq(Span)
    BY <1>0, TagsBefore DEF Changed, Calls
  <2> QED
    BY <1>0, <2>1, LenProperties DEF Changed
<1>5. PICK D : Calls(spans, spans', F, D, T)
  BY <1>0, <1>1 DEF Changed
<1>6. /\ DOMAIN traces'[c] = DOMAIN traces[c]
      /\ \A j \in DOMAIN traces[c] :
           traces'[c][j] = IF j = i THEN e ELSE traces[c][j]
  BY <1>0, <1>1, <1>2 DEF Changed
<1>7. AllTagged(spans')
  <2>1. PICK exited : exited = on_exit_block(spans, t)
    OBVIOUS
  <2>2. i = find_trace(c, r)
    <3>1. /\ find_trace(c, r) \in DOMAIN traces[c]
          /\ traces[c][find_trace(c, r)].request = r
      BY FoundTrace DEF ChangeBlock, Inv, TypeOK
    <3> QED
      BY <1>1, <1>3, <3>1 DEF Inv, OneTracePerRequest
  <2>3. exited \in Seq(Span) /\ Len(exited) = Len(spans)
    BY <1>4, <2>1, ExitEffect DEF Calls
  <2>4. AllTagged(exited)
    BY <1>1, <1>3, <2>1, ExitTagged
  <2>5. CASE l \notin TraceLocations
    BY <1>1, <2>1, <2>2, <2>4, <2>5 DEF ChangeBlock, on_change_block_spans
  <2>6. CASE l \in TraceLocations
    <3>1. PICK s \in Span : /\ s = LocationSpan(t.request, l, t.request_span.id)
                            /\ s.tags = <<>> /\ s.finishes = 0
      <4>1. t.request_span.id \in Nat
        BY <1>3, <1>4
      <4> QED
        BY <1>3, <4>1, StartedSpanType DEF LocationSpan, NewSpan
    <3>2. PICK more : more = Append(exited, s)
      OBVIOUS
    <3>3. /\ Calls(exited, more, {}, {}, {})
          /\ Len(more) = Len(exited) + 1
          /\ more[Len(exited) + 1] = s
      BY <2>3, <3>1, <3>2, StartCall
    <3>4. AllTagged(more)
      <4>1. \A k \in 1 .. Len(exited) : LocationTagged(more, k)
        BY <2>3, <2>4, <3>3, LocationKept DEF AllTagged
      <4>2. LocationTagged(more, Len(exited) + 1)
        BY <3>1, <3>3 DEF LocationTagged, Finished
      <4>3. \A k \in 1 .. Len(more) : k \in 1 .. Len(exited) \/ k = Len(exited) + 1
        BY <1>4, <2>3, <3>3
      <4> QED
        BY <4>1, <4>2, <4>3 DEF AllTagged
    <3>5. spans' = DestroySpans(more, {t.span.id})
      BY <1>1, <2>1, <2>2, <2>6, <3>1, <3>2 DEF ChangeBlock, on_change_block_spans
    <3>6. more \in Seq(Span)
      BY <3>3 DEF Calls
    <3> QED
      BY <3>4, <3>5, <3>6, DestroyTagged
  <2> QED
    BY <2>5, <2>6
<1>8. TraceTagged(spans', e)
  <2>1. /\ e.conf = l
        /\ e.request_span = t.request_span
        /\ l \in TraceLocations => e.span.id = n
    BY <1>2 DEF on_change_block, Trace
  <2>2. l \in TraceLocations => spans'[n].loc = l
    BY <1>0 DEF Changed
  <2>3. spans'[t.request_span.id].finishes = 0
    <3>1. t.request_span.id \notin F /\ spans[t.request_span.id].finishes = 0
      BY <1>3 DEF Left, OwnsItsSpans
    <3> HIDE DEF F, T
    <3> QED
      BY <1>3, <1>5, <3>1 DEF Calls
  <2> QED
    BY <2>1, <2>2, <2>3 DEF TraceTagged, Finished
<1>9. ASSUME NEW j \in DOMAIN traces[c], j # i
      PROVE  TraceTagged(spans', traces[c][j])
  <2>1. PICK u \in Trace : u = traces[c][j]
    BY OwnedTrace DEF Inv
  <2>2. OwnsItsSpans(u) /\ TraceTagged(spans, u)
    BY <2>1, OwnedTrace DEF Inv, TagsInv
  <2>3. OwnedIds(u) \cap OwnedIds(t) \subseteq {0}
    BY <1>1, <1>9, <2>1, OwnedApart DEF Inv
  <2>4. \A id \in OwnedIds(u) : id # 0 => id \notin F \cup T
    BY <2>3 DEF OwnedIds, Left, active_span
  <2> HIDE DEF F, T
  <2>5. TraceTagged(spans', u)
    BY <1>4, <1>5, <2>2, <2>4, TraceKept
  <2> QED
    BY <2>1, <2>5
<1> QED
  BY <1>3, <1>4, <1>6, <1>7, <1>8, <1>9 DEF TagsInv, AllTagged

\* A block that cannot be entered leaves no context; the block left is tagged.
LEMMA ChangeFailsTagged ==
  ASSUME Inv, TagsInv, NEW r \in Requests, NEW l \in Locs, NEW c \in live,
         ~Logged(r), ChangeBlockFails(r, l, c)
  PROVE  TagsInv'
<1>1. /\ spans \in Seq(Span) /\ AllTagged(spans)
      /\ live = {c} /\ c = CleanupData /\ c # 0
  BY TagsBefore, OneLive DEF Inv
<1>2. ASSUME NEW sp \in Seq(Span), AllTagged(sp), destroy_opentracing_context(r, sp)
      PROVE  TagsInv'
  <2>1. live' = {} /\ \E ids : spans' = DestroySpans(sp, ids)
    BY <1>1, <1>2 DEF destroy_opentracing_context
  <2>2. spans' \in Seq(Span) /\ AllTagged(spans')
    BY <1>2, <2>1, DestroyTagged
  <2> QED
    BY <2>1, <2>2, GoneTagged
<1>3. CASE /\ HasTrace(c, r)
           /\ destroy_opentracing_context(
                r, on_exit_block(spans, traces[c][find_trace(c, r)]))
  <2>1. PICK i \in DOMAIN traces[c] : i = find_trace(c, r) /\ traces[c][i].request = r
    BY <1>3, FoundTrace DEF Inv, TypeOK
  <2>2. PICK t \in Trace : t = traces[c][i]
    BY OwnedTrace DEF Inv
  <2>3. PICK exited : exited = on_exit_block(spans, t)
    OBVIOUS
  <2>4. exited \in Seq(Span)
    BY <1>1, <2>3, ExitEffect DEF Calls
  <2>5. AllTagged(exited)
    BY <2>1, <2>2, <2>3, ExitTagged
  <2>6. destroy_opentracing_context(r, exited)
    BY <1>3, <2>1, <2>2, <2>3
  <2> QED
    BY <1>2, <2>4, <2>5, <2>6
<1>4. CASE destroy_opentracing_context(r, spans)
  BY <1>1, <1>2, <1>4
<1>5. CASE \E root \in Nat : \E ids :
             destroy_opentracing_context(
               r, DestroySpans(Append(spans, RequestSpan(r, l, root)), ids))
  <2>0. PICK root \in Nat :
          \E ids : destroy_opentracing_context(
                    r, DestroySpans(Append(spans, RequestSpan(r, l, root)), ids))
    BY <1>5
  <2>1. PICK ids : destroy_opentracing_context(
                     r, DestroySpans(Append(spans, RequestSpan(r, l, root)), ids))
    BY <2>0
  <2>2. PICK one : one = Append(spans, RequestSpan(r, l, root))
    OBVIOUS
  <2>3. one \in Seq(Span) /\ AllTagged(one)
    BY <1>1, <2>2, RequestSpanTagged
  <2>4. PICK sp : sp = DestroySpans(one, ids)
    OBVIOUS
  <2>5. sp \in Seq(Span) /\ AllTagged(sp)
    BY <2>3, <2>4, DestroyTagged
  <2> QED
    BY <1>2, <2>1, <2>2, <2>4, <2>5
<1>6. traces[c][1].request_span.id \in Nat
  BY RootTrace DEF Inv, TypeOK, TracingInv
<1> QED
  BY <1>3, <1>4, <1>5, <1>6 DEF ChangeBlockFails

\* Logging a request tags what its last block was recorded on, and then its
\* request span.
LEMMA LogTagged ==
  ASSUME Inv, TagsInv, NEW r \in Requests, ~Logged(r), loc[r] \in Locs,
         on_log_request_handler(r)
  PROVE  TagsInv'
<1> DEFINE g == get_opentracing_context(r)
<1>1. CASE spans' = spans /\ traces' = traces /\ live' = live
  BY <1>1, SameTagged
<1>2. ASSUME NEW c \in live, c = g, HasTrace(c, r)
      PROVE  TagsInv'
  <2>1. PICK i \in DOMAIN traces[c] : i = find_trace(c, r) /\ traces[c][i].request = r
    BY <1>2, FoundTrace DEF Inv, TypeOK
  <2>2. PICK t \in Trace : t = traces[c][i]
    BY OwnedTrace DEF Inv
  <2>3. /\ t.request = r
        /\ OwnsItsSpans(t)
        /\ t.span.id \in 0 .. Len(spans)
        /\ t.span.id # t.request_span.id
        /\ live = {c} /\ c # 0
    BY <2>1, <2>2, OwnedTrace, OneLive DEF Inv
  <2>4. PICK q \in 1 .. Len(spans) : q = t.request_span.id
    BY <2>2, OwnedTrace DEF Inv
  <2>5. /\ spans' = on_log_request(spans, t, loc[r])
        /\ traces' = traces
        /\ live' = live
    BY <1>2, <2>1, <2>2, <2>3 DEF on_log_request_handler
  <2>6. spans \in Seq(Span) /\ Len(spans) \in Nat /\ AllTagged(spans)
    BY TagsBefore, LenProperties
  <2> DEFINE F == Left(t) \cup {q}
             T == {active_span(t).id, q}
  <2>7. /\ Calls(spans, spans', F, {}, T)
        /\ Len(spans') = Len(spans)
        /\ DOMAIN spans' = 1 .. Len(spans')
    <3>1. PICK l \in Locs : l = loc[r]
      OBVIOUS
    <3>2. /\ Calls(spans, on_log_request(spans, t, l), F, {}, T)
          /\ Len(on_log_request(spans, t, l)) = Len(spans)
      BY <2>3, <2>4, <2>6, LogEffect
    <3> HIDE DEF F, T
    <3> QED
      BY <2>5, <3>1, <3>2, LenProperties DEF Calls
  <2>8. AllTagged(spans')
    <3>1. PICK exited : exited = on_exit_block(spans, t)
      OBVIOUS
    <3>2. /\ exited \in Seq(Span)
          /\ Len(exited) = Len(spans)
          /\ exited[q].kind = "request"
      BY <2>3, <2>4, <2>6, <3>1, ExitEffect DEF Calls, OwnsItsSpans
    <3>3. AllTagged(exited)
      BY <2>1, <2>2, <3>1, ExitTagged
    <3>4. PICK layers \in Seq(TagLayer) :
            layers = <<Layer("status", t.conf), Layer("default", t.conf),
                       Layer("upstream", t.conf)>>
      BY LayersType DEF Trace
    <3>5. PICK name \in Name : name = get_request_operation_name(loc[r], t.conf)
      BY NameType DEF Trace
    <3>6. spans' = NameAndFinish(SetTags(exited, q, layers), q, name)
      BY <2>4, <2>5, <3>1, <3>4, <3>5 DEF on_log_request
    <3> QED
      BY <3>2, <3>3, <3>6, RequestSpanKept
  <2>9. TraceTagged(spans', t)
    <3>1. t.conf \in TraceLocations => t.span.id \in 1 .. Len(spans)
      BY <2>3, <2>6 DEF OwnsItsSpans
    <3>2. EndsTagged(spans'[q].tags, t.conf)
      <4>1. t.request_span.id \in 1 .. Len(spans)
        BY <2>4
      <4>2. PICK l : l = loc[r]
        OBVIOUS
      <4>3. EndsTagged(on_log_request(spans, t, l)[t.request_span.id].tags, t.conf)
        BY <2>6, <3>1, <4>1, LogTags
      <4> QED
        BY <2>4, <2>5, <4>2, <4>3
    <3>3. t.conf \in TraceLocations => spans'[t.span.id].loc = spans[t.span.id].loc
      <4> HIDE DEF F, T
      <4> QED
        BY <2>7, <3>1 DEF Calls
    <3>4. TraceTagged(spans, t)
      BY <2>2 DEF TagsInv
    <3> QED
      BY <2>4, <3>2, <3>3, <3>4 DEF TraceTagged
  <2>10. ASSUME NEW j \in DOMAIN traces[c]
         PROVE  TraceTagged(spans', traces[c][j])
    <3>1. CASE j = i
      BY <2>2, <2>9, <3>1
    <3>2. CASE j # i
      <4>1. PICK u \in Trace : u = traces[c][j]
        BY OwnedTrace DEF Inv
      <4>2. OwnsItsSpans(u) /\ TraceTagged(spans, u)
        BY <4>1, OwnedTrace DEF Inv, TagsInv
      <4>3. OwnedIds(u) \cap OwnedIds(t) \subseteq {0}
        BY <2>2, <3>2, <4>1, OwnedApart DEF Inv
      <4>4. \A id \in OwnedIds(u) : id # 0 => id \notin F \cup T
        BY <2>4, <4>3 DEF OwnedIds, Left, active_span
      <4> HIDE DEF F, T
      <4>5. TraceTagged(spans', u)
        BY <2>6, <2>7, <4>2, <4>4, TraceKept
      <4> QED
        BY <4>1, <4>5
    <3> QED
      BY <3>1, <3>2
  <2> QED
    BY <2>3, <2>5, <2>7, <2>8, <2>10 DEF TagsInv, AllTagged
<1> QED
  BY <1>1, <1>2 DEF on_log_request_handler, tracing_vars, UseAfterDelete

\* The end of the pool leaves no context.
LEMMA PoolTagged ==
  ASSUME Inv, TagsInv, DestroyPool
  PROVE  TagsInv'
<1>1. live' = {} /\ \E ids : spans' = DestroySpans(spans, ids)
  BY NoneLeft DEF Inv, ContextInv, DestroyPool
<1>2. spans' \in Seq(Span) /\ AllTagged(spans')
  BY <1>1, TagsBefore, DestroyTagged
<1> QED
  BY <1>1, <1>2, GoneTagged

\* Entering a block keeps the tags, whatever fails.
LEMMA EnterTagged ==
  ASSUME Inv, TagsInv, NEW r \in Requests, NEW l \in Locs, EnterBlock(r, l)
  PROVE  TagsInv'
<1> DEFINE c == get_opentracing_context(r)
<1>1. /\ phase[r] = "find" /\ ~Logged(r)
      /\ on_enter_block(r, l)
  BY DEF EnterBlock, Logged
<1>2. CASE UNCHANGED tracing_vars \/ UseAfterDelete
  BY <1>2, SameTagged DEF tracing_vars, UseAfterDelete
<1>3. CASE c = 0 /\ (NewContext(r, l) \/ NewContextFails(r, l))
  <2>1. CleanupData = 0
    BY <1>1, <1>3, NothingToRecover DEF Inv
  <2>2. live = {}
    BY <2>1 DEF Inv, ContextInv, NewestEntryOwns
  <2> QED
    BY <1>3, <2>2, NewContextTagged, NewContextFailsTagged
<1>4. CASE c \in live /\ ChangeBlock(r, l, c)
  BY <1>1, <1>4, ChangeTagged
<1>5. CASE c \in live /\ AddTrace(r, l, c)
  BY <1>5, AddTagged
<1>6. CASE c \in live /\ ChangeBlockFails(r, l, c)
  BY <1>1, <1>6, ChangeFailsTagged
<1> QED
  BY <1>1, <1>2, <1>3, <1>4, <1>5, <1>6 DEF on_enter_block

\* Reading a variable touches neither spans nor blocks.
LEMMA VariableTagged ==
  ASSUME Inv, TagsInv, NEW r \in Requests,
         \/ expand_opentracing_context_variable(r)
         \/ expand_opentracing_binary_context_variable(r)
  PROVE  TagsInv'
<1> DEFINE g == get_opentracing_context(r)
<1>1. spans' = spans /\ live' = live
  BY DEF expand_opentracing_context_variable, UseAfterDelete,
         expand_opentracing_binary_context_variable
<1>2. CASE traces' = traces
  BY <1>1, <1>2, SameTagged
<1>3. CASE /\ g \in live
           /\ HasTrace(g, r)
           /\ \E injected \in BOOLEAN :
                traces' = [traces EXCEPT ![g][find_trace(g, r)] =
                             lookup_span_context_value(@, injected)]
  <2>1. PICK c \in live : c = g /\ live = {c}
    BY <1>3, OneLive DEF Inv
  <2>2. PICK i \in DOMAIN traces[c] : i = find_trace(c, r)
    BY <1>3, <2>1, FoundTrace DEF Inv, TypeOK
  <2>3. PICK t \in Trace : t = traces[c][i]
    BY OwnedTrace DEF Inv
  <2>4. PICK injected \in BOOLEAN :
          traces' = [traces EXCEPT ![c][i] = lookup_span_context_value(@, injected)]
    BY <1>3, <2>1, <2>2
  <2>5. PICK e \in Trace : e = lookup_span_context_value(t, injected)
    BY LookupType
  <2>6. /\ traces \in Seq(Seq(Trace))
        /\ c \in 1 .. Len(traces)
        /\ traces' = [traces EXCEPT ![c][i] = e]
    BY <2>3, <2>4, <2>5, OwnedTrace DEF Inv, TypeOK, TracingTypeOK
  <2>7. /\ DOMAIN traces'[c] = DOMAIN traces[c]
        /\ \A j \in DOMAIN traces[c] :
             traces'[c][j] = IF j = i THEN e ELSE traces[c][j]
    BY <2>6, UpdateTrace
  <2>8. e.conf = t.conf /\ e.request_span = t.request_span /\ e.span = t.span
    BY <2>5 DEF lookup_span_context_value, Trace
  <2>9. \A d \in live :
          /\ DOMAIN traces'[d] = DOMAIN traces[d]
          /\ \A j \in DOMAIN traces[d] :
               /\ traces'[d][j].conf = traces[d][j].conf
               /\ traces'[d][j].request_span = traces[d][j].request_span
               /\ traces'[d][j].span = traces[d][j].span
    BY <2>1, <2>3, <2>7, <2>8
  <2> QED
    BY <1>1, <2>9, SameTagged
<1> QED
  BY <1>2, <1>3 DEF expand_opentracing_context_variable, UseAfterDelete,
                    expand_opentracing_binary_context_variable

\* Every step keeps the tags.
LEMMA TagsStep ==
  ASSUME Inv, TagsInv, Next
  PROVE  TagsInv'
<1>1. ASSUME NEW r \in Requests,
             Rewrite(r) \/ InternalRedirect(r) \/ CreateSubrequest(r)
      PROVE  TagsInv'
  BY <1>1, SameTagged DEF Rewrite, InternalRedirect, CreateSubrequest, tracing_vars
<1>2. ASSUME NEW r \in Requests,
             \/ FinalizeSubrequest(r)
             \/ r = Main /\ (FinalizeMain \/ TerminateMain)
      PROVE  TagsInv'
  <2>1. ~Logged(r) /\ loc[r] \in Locs
    BY <1>2 DEF FinalizeSubrequest, FinalizeMain, TerminateMain, Processing, Logged,
                Inv, TypeOK, NginxTypeOK
  <2>2. CASE on_log_request_handler(r)
    BY <2>1, <2>2, LogTagged
  <2>3. CASE UNCHANGED tracing_vars
    BY <2>3, SameTagged DEF tracing_vars
  <2> QED
    BY <1>2, <2>2, <2>3 DEF FinalizeSubrequest, FinalizeMain, TerminateMain
<1>3. ASSUME NEW r \in Requests, NEW l \in Locs, EnterBlock(r, l)
      PROVE  TagsInv'
  BY <1>3, EnterTagged
<1>4. ASSUME NEW r \in Requests,
             \/ expand_opentracing_context_variable(r)
             \/ expand_opentracing_binary_context_variable(r)
      PROVE  TagsInv'
  BY <1>4, VariableTagged
<1>5. CASE DestroyPool
  BY <1>5, PoolTagged
<1> QED
  BY <1>1, <1>2, <1>3, <1>4, <1>5, RequestsAssumption DEF Next

-----------------------------------------------------------------------------
(* What holds in every state. *)

\* The groups in which the tags of a span come, in every state.
THEOREM TagsInvariant == Spec => []TagsInv
<1>1. Init => TagsInv
  BY DEF Init, TagsInv
<1>2. TypeOK /\ ContextInv /\ OneTracePerRequest /\ SpanInv /\ TagsInv /\ [Next]_vars
        => TagsInv'
  <2> SUFFICES ASSUME Inv, TagsInv, [Next]_vars PROVE TagsInv'
    BY DEF Inv
  <2>1. CASE UNCHANGED vars
    BY <2>1, SameTagged DEF vars
  <2> QED
    BY <2>1, TagsStep
<1> QED
  BY <1>1, <1>2, TypeCorrect, ContextInvariant, OneTrace, SpanInvariant, PTL DEF Spec

\* The greatest element is the one that no other exceeds.
LEMMA MaxIs ==
  ASSUME NEW S, S \subseteq Int, NEW x \in S, \A y \in S : x >= y
  PROVE  Max(S) = x
<1>1. \A z \in S : (\A y \in S : z >= y) => z = x
  OBVIOUS
<1> QED
  BY <1>1 DEF Max

\* The calls each group stands for.
LEMMA LayerCalls ==
  ASSUME NEW l
  PROVE  /\ SetTagCalls(Layer("default", l)) = add_script_tags(DefaultTags)
         /\ SetTagCalls(Layer("location", l)) = add_script_tags(LocationTags[l])
         /\ SetTagCalls(Layer("status", l)) = add_status_tags
         /\ SetTagCalls(Layer("upstream", l)) = add_upstream_name
BY DEF SetTagCalls, Layer

\* The value of a key is that of the last group of calls that has it.
LEMMA ValueOf ==
  ASSUME NEW span, DOMAIN span.tags \subseteq Int, NEW key, NEW i \in DOMAIN span.tags,
         key \in KeysSet(SetTagCalls(span.tags[i])),
         \A j \in DOMAIN span.tags :
           j > i => key \notin KeysSet(SetTagCalls(span.tags[j]))
  PROVE  /\ key \in TagKeys(span)
         /\ TagValue(span, key) = LastValue(SetTagCalls(span.tags[i]), key)
<1>1. PICK S : S = LayersWith(span, key)
  OBVIOUS
<1>2. S \subseteq Int /\ i \in S /\ \A j \in S : i >= j
  BY <1>1 DEF LayersWith
<1>3. Max(S) = i
  BY <1>2, MaxIs
<1> QED
  BY <1>1, <1>3 DEF TagKeys, TagValue

\* A location span that is finished has the tags of its own location, each with
\* the value the location gives last, the default tags it does not override and
\* those the module sets itself, and no others (on_exit_block,
\* request_tracing.cpp).
THEOREM OwnTags == Spec => []LocationSpansHaveTheirTags
<1>1. TypeOK /\ TagsInv => LocationSpansHaveTheirTags
  <2> SUFFICES ASSUME TypeOK, TagsInv, NEW k \in DOMAIN spans,
                      spans[k].kind = "location", Finished(spans[k])
               PROVE  LET own == add_script_tags(LocationTags[spans[k].loc])
                          default == add_script_tags(DefaultTags)
                      IN  /\ TagKeys(spans[k])
                               = KeysSet(own) \cup KeysSet(default) \cup ReservedKeys
                          /\ \A key \in TagKeys(spans[k]) \ ReservedKeys :
                               TagValue(spans[k], key) =
                                 IF key \in KeysSet(own) THEN LastValue(own, key)
                                                         ELSE LastValue(default, key)
    BY DEF LocationSpansHaveTheirTags
  <2>1. PICK span : span = spans[k]
    OBVIOUS
  <2>2. PICK own : own = add_script_tags(LocationTags[span.loc])
    OBVIOUS
  <2>3. PICK default : default = add_script_tags(DefaultTags)
    OBVIOUS
  <2>4. span.tags = LocationLayers(span.loc)
    BY <2>1 DEF TagsInv, LocationTagged
  <2>5. /\ DOMAIN span.tags = {1, 2, 3, 4}
        /\ SetTagCalls(span.tags[1]) = default
        /\ SetTagCalls(span.tags[2]) = own
        /\ SetTagCalls(span.tags[3]) = add_status_tags
        /\ SetTagCalls(span.tags[4]) = add_upstream_name
    BY <2>2, <2>3, <2>4, LayerCalls DEF LocationLayers
  <2>6. TagKeys(span) = KeysSet(own) \cup KeysSet(default) \cup ReservedKeys
    BY <2>5 DEF TagKeys, ReservedKeys
  <2>7. ASSUME NEW key \in TagKeys(span) \ ReservedKeys
        PROVE  TagValue(span, key) = IF key \in KeysSet(own)
                                     THEN LastValue(own, key)
                                     ELSE LastValue(default, key)
    <3>1. /\ key \notin KeysSet(SetTagCalls(span.tags[3]))
          /\ key \notin KeysSet(SetTagCalls(span.tags[4]))
      BY <2>5 DEF ReservedKeys
    <3>2. CASE key \in KeysSet(own)
      BY <2>5, <3>1, <3>2, ValueOf
    <3>3. CASE key \notin KeysSet(own)
      <4>1. key \in KeysSet(default)
        BY <2>6, <3>3
      <4> QED
        BY <2>5, <3>1, <3>3, <4>1, ValueOf
    <3> QED
      BY <3>2, <3>3
  <2> QED
    BY <2>1, <2>2, <2>3, <2>6, <2>7
<1> QED
  BY <1>1, TypeCorrect, TagsInvariant, PTL

\* A request span that is finished has the default tags, also where a location
\* overrides them, and the tags of its request's last location if that has no
\* span of its own (on_log_request, request_tracing.cpp).
THEOREM KeptTags == Spec => []RequestSpansKeepUntracedTags
<1>1. TypeOK /\ SpanInv /\ TagsInv => RequestSpansKeepUntracedTags
  <2> SUFFICES ASSUME TypeOK, SpanInv, TagsInv, NEW c \in live,
                      NEW i \in DOMAIN traces[c],
                      NEW t, t = traces[c][i],
                      NEW span, span = spans[t.request_span.id],
                      NEW own, own = add_script_tags(LocationTags[t.conf]),
                      NEW default, default = add_script_tags(DefaultTags),
                      Finished(span)
               PROVE  /\ KeysSet(default) \cup ReservedKeys \subseteq TagKeys(span)
                      /\ \A key \in KeysSet(default) \ ReservedKeys :
                           TagValue(span, key) = LastValue(default, key)
                      /\ t.conf \notin TraceLocations =>
                           \A key \in KeysSet(own) \ (KeysSet(default) \cup ReservedKeys) :
                             /\ key \in TagKeys(span)
                             /\ TagValue(span, key) = LastValue(own, key)
    BY DEF RequestSpansKeepUntracedTags
  <2>1. EndsTagged(span.tags, t.conf)
    BY DEF TagsInv, TraceTagged
  <2>2. span.tags \in Seq(TagLayer)
    <3>1. t.request_span.id \in 1 .. Len(spans) /\ spans \in Seq(Span)
      BY OwnedTrace DEF TypeOK, TracingTypeOK
    <3>2. span \in Span
      BY <3>1
    <3> QED
      BY <3>2 DEF Span
  <2>3. PICK n \in Nat : n = Len(span.tags)
    BY <2>2, LenProperties
  <2>4. DOMAIN span.tags = 1 .. n
    BY <2>2, <2>3, LenProperties
  <2>5. /\ n >= 3
        /\ SetTagCalls(span.tags[n - 2]) = add_status_tags
        /\ SetTagCalls(span.tags[n - 1]) = default
        /\ SetTagCalls(span.tags[n]) = add_upstream_name
        /\ t.conf \notin TraceLocations =>
             n > 3 /\ SetTagCalls(span.tags[n - 3]) = own
    BY <2>1, <2>3, LayerCalls DEF EndsTagged
  <2>6. n \in 1 .. n /\ n - 1 \in 1 .. n /\ n - 2 \in 1 .. n
    BY <2>5
  <2>7. KeysSet(default) \cup ReservedKeys \subseteq TagKeys(span)
    <3>1. \A j \in 1 .. n : KeysSet(SetTagCalls(span.tags[j])) \subseteq TagKeys(span)
      BY <2>4 DEF TagKeys
    <3>2. /\ KeysSet(add_status_tags) \subseteq TagKeys(span)
          /\ KeysSet(default) \subseteq TagKeys(span)
          /\ KeysSet(add_upstream_name) \subseteq TagKeys(span)
      BY <2>5, <2>6, <3>1
    <3> QED
      BY <3>2 DEF ReservedKeys
  <2>8. ASSUME NEW key, key \notin ReservedKeys
        PROVE  /\ key \notin KeysSet(SetTagCalls(span.tags[n]))
               /\ key \notin KeysSet(SetTagCalls(span.tags[n - 2]))
    BY <2>5, <2>8 DEF ReservedKeys
  <2>9. ASSUME NEW key \in KeysSet(default) \ ReservedKeys
        PROVE  TagValue(span, key) = LastValue(default, key)
    <3>1. \A j \in 1 .. n : j > n - 1 => j = n
      OBVIOUS
    <3>2. \A j \in DOMAIN span.tags :
            j > n - 1 => key \notin KeysSet(SetTagCalls(span.tags[j]))
      BY <2>4, <2>8, <3>1
    <3>3. PICK m \in DOMAIN span.tags : m = n - 1
      BY <2>4, <2>6
    <3>4. SetTagCalls(span.tags[m]) = default /\ DOMAIN span.tags \subseteq Int
      BY <2>4, <2>5, <3>3
    <3> QED
      BY <3>2, <3>3, <3>4, ValueOf
  <2>10. ASSUME t.conf \notin TraceLocations,
                NEW key \in KeysSet(own) \ (KeysSet(default) \cup ReservedKeys)
         PROVE  key \in TagKeys(span) /\ TagValue(span, key) = LastValue(own, key)
    <3>1. \A j \in 1 .. n : j > n - 3 => j = n \/ j = n - 1 \/ j = n - 2
      OBVIOUS
    <3>2. key \notin KeysSet(SetTagCalls(span.tags[n - 1]))
      BY <2>5
    <3>3. \A j \in DOMAIN span.tags :
            j > n - 3 => key \notin KeysSet(SetTagCalls(span.tags[j]))
      BY <2>4, <2>8, <3>1, <3>2
    <3>4. PICK m \in DOMAIN span.tags : m = n - 3
      BY <2>4, <2>5, <2>10
    <3>5. SetTagCalls(span.tags[m]) = own /\ DOMAIN span.tags \subseteq Int
      BY <2>4, <2>5, <2>10, <3>4
    <3> QED
      BY <3>3, <3>4, <3>5, ValueOf
  <2> QED
    BY <2>7, <2>9, <2>10
<1> QED
  BY <1>1, TypeCorrect, SpanInvariant, TagsInvariant, PTL

=============================================================================
