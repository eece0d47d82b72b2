------------------------ MODULE SpanOwnership_proofs ------------------------
(***************************************************************************)
(* Theorems about the spans of TracingContext in every state, for any      *)
(* requests, locations, directives, addresses, bounds and faults:          *)
(*                                                                         *)
(*   SpanInvariant   every span not freed is owned by one trace, and open  *)
(*                   exactly while its handlers may act on it;             *)
(*   ActiveOpen      a request being processed has an open active span;    *)
(*   LoggedFinished  one that was logged has left none open;               *)
(*   LocationsFirst  location spans finish before their request span;      *)
(*   StaleIsOld      a stale expansion is never that of the block before.  *)
(***************************************************************************)
EXTENDS TracingContext_proofs

-----------------------------------------------------------------------------
(* What the invariant says of one trace. *)

\* The invariants that each step is analysed under.
Inv == TypeOK /\ ContextInv /\ OneTracePerRequest /\ SpanInv

\* There is one live context at most.
LEMMA OneLive ==
  ASSUME ContextInv, NEW c \in live
  PROVE  live = {c} /\ c = CleanupData /\ c # 0
BY DEF ContextInv, NewestEntryOwns

\* A trace owns a request span and may own a location span, which is another.
LEMMA OwnedTrace ==
  ASSUME TypeOK, SpanInv, NEW c \in live, NEW i \in DOMAIN traces[c]
  PROVE  /\ c \in 1 .. Len(traces)
         /\ traces[c] \in Seq(Trace)
         /\ traces[c][i] \in Trace
         /\ OwnsItsSpans(traces[c][i])
         /\ ExpansionKept(traces[c][i])
         /\ FindsItsContext(c, traces[c][i].request)
         /\ traces[c][i].request_span.id \in 1 .. Len(spans)
         /\ traces[c][i].span.id \in 0 .. Len(spans)
         /\ traces[c][i].span.id # traces[c][i].request_span.id
<1>1. /\ c \in 1 .. Len(traces)
      /\ traces \in Seq(Seq(Trace))
      /\ spans \in Seq(Span)
  BY DEF TypeOK, TracingTypeOK
<1>2. traces[c] \in Seq(Trace)
  BY <1>1
<1>3. traces[c][i] \in Trace
  BY <1>2
<1>4. /\ OwnsItsSpans(traces[c][i])
      /\ ExpansionKept(traces[c][i])
      /\ FindsItsContext(c, traces[c][i].request)
  BY DEF SpanInv, LiveTracesOwn
<1> DEFINE t == traces[c][i]
<1> HIDE DEF t
<1>5. DOMAIN spans = 1 .. Len(spans) /\ Len(spans) \in Nat
  BY <1>1, LenProperties
<1>6. OwnsItsSpans(t)
  BY <1>4 DEF t
<1>7. /\ t.request_span.id \in 1 .. Len(spans)
      /\ t.span.id \in 0 .. Len(spans)
      /\ t.span.id # t.request_span.id
  BY <1>5, <1>6 DEF OwnsItsSpans
<1> QED
  BY <1>1, <1>2, <1>3, <1>4, <1>7 DEF t

\* Two traces of a context share no span.
LEMMA OwnedApart ==
  ASSUME TypeOK, SpanInv, OneTracePerRequest, NEW c \in live,
         NEW i \in DOMAIN traces[c], NEW j \in DOMAIN traces[c], i # j
  PROVE  OwnedIds(traces[c][i]) \cap OwnedIds(traces[c][j]) \subseteq {0}
<1>1. traces[c][i].request # traces[c][j].request
  BY DEF OneTracePerRequest
<1>2. OwnsItsSpans(traces[c][i]) /\ OwnsItsSpans(traces[c][j])
  BY OwnedTrace
<1>3. \A k \in {i, j} : \A id \in OwnedIds(traces[c][k]) :
        id # 0 => spans[id].request = traces[c][k].request
  BY <1>2 DEF OwnedIds, OwnsItsSpans
<1> QED
  BY <1>1, <1>3

\* A trace keeps its spans when calls are made on others only.
LEMMA OwnKept ==
  ASSUME TypeOK, NEW t \in Trace, OwnsItsSpans(t),
         NEW F, NEW D, NEW T, Calls(spans, spans', F, D, T),
         \A id \in OwnedIds(t) : id # 0 => id \notin F \cup D,
         Logged(t.request)' <=> Logged(t.request)
  PROVE  OwnsItsSpans(t)'
<1> DEFINE q == t.request_span.id
           s == t.span.id
<1>1. /\ DOMAIN spans = 1 .. Len(spans) /\ DOMAIN spans' = 1 .. Len(spans')
      /\ Len(spans) \in Nat /\ Len(spans') \in Nat
      /\ Len(spans) <= Len(spans')
  BY LenProperties DEF TypeOK, TracingTypeOK, Calls
<1>2. q \in 1 .. Len(spans) /\ (s # 0 => s \in 1 .. Len(spans))
  BY <1>1 DEF OwnsItsSpans
<1>3. q \notin F \cup D /\ (s # 0 => s \notin F \cup D)
  BY <1>2 DEF OwnedIds
<1>4. /\ spans'[q].kind = spans[q].kind
      /\ spans'[q].request = spans[q].request
      /\ spans'[q].finishes = spans[q].finishes
      /\ spans'[q].destroyed <=> spans[q].destroyed
  BY <1>2, <1>3 DEF Calls
<1>5. s # 0 =>
        /\ spans'[s].kind = spans[s].kind
        /\ spans'[s].request = spans[s].request
        /\ spans'[s].parent = spans[s].parent
        /\ spans'[s].finishes = spans[s].finishes
        /\ spans'[s].destroyed <=> spans[s].destroyed
  BY <1>2, <1>3 DEF Calls
<1>6. q \in DOMAIN spans' /\ (s # 0 => s \in DOMAIN spans')
  BY <1>1, <1>2
<1> QED
  BY <1>4, <1>5, <1>6 DEF OwnsItsSpans

\* Its cached expansion is not disturbed by any call on a span.
LEMMA ExpansionStays ==
  ASSUME TypeOK, NEW t \in Trace, t.span.id \in 0 .. Len(spans), ExpansionKept(t),
         NEW F, NEW D, NEW T, Calls(spans, spans', F, D, T)
  PROVE  ExpansionKept(t)'
<1>1. Len(spans) \in Nat /\ t.expansion \in Nat
  BY LenProperties DEF TypeOK, TracingTypeOK, Trace
<1>2. \A k \in t.expansion + 1 .. t.span.id - 1 :
        /\ k \in 1 .. Len(spans)
        /\ spans'[k].kind = spans[k].kind
        /\ spans'[k].request = spans[k].request
  BY <1>1 DEF Calls
<1> QED
  BY <1>2 DEF ExpansionKept

\* What LocationsNested says of one span of sp.
Nested(sp, k) ==
    LET p == sp[k].parent
    IN  sp[k].kind = "location" =>
          /\ p \in 1 .. Len(sp)
          /\ sp[p].kind = "request"
          /\ sp[p].request = sp[k].request
          /\ sp[p].finishes > 0 => sp[k].finishes > 0
          /\ sp[k].destroyed /\ sp[k].finishes = 0 => sp[p].destroyed

\* A span that was nested stays so when it is finished no later than its
\* parent, and freed unfinished only with it.
LEMMA NestedKept ==
  ASSUME NEW sp \in Seq(Span), NEW new, NEW F, NEW D, NEW T,
         Calls(sp, new, F, D, T), NEW k \in 1 .. Len(sp), Nested(sp, k),
         sp[k].kind = "location" =>
           /\ sp[k].parent \in F => new[k].finishes > 0
           /\ k \in D /\ new[k].finishes = 0 => sp[k].parent \in D
  PROVE  Nested(new, k)
<1> SUFFICES ASSUME new[k].kind = "location" PROVE Nested(new, k)
  BY DEF Nested
<1> DEFINE p == sp[k].parent
<1>1. /\ sp[k].kind = "location"
      /\ p \in 1 .. Len(sp)
      /\ sp[p].kind = "request"
      /\ sp[p].request = sp[k].request
      /\ sp[p].finishes > 0 => sp[k].finishes > 0
      /\ sp[k].destroyed /\ sp[k].finishes = 0 => sp[p].destroyed
  BY DEF Calls, Nested
<1>2. sp[k].finishes \in Nat /\ sp[p].finishes \in Nat
  <2>1. sp[k] \in Span /\ sp[p] \in Span
    BY <1>1
  <2> QED
    BY <2>1 DEF Span
<1>3. /\ new[k].parent = p
      /\ new[k].request = sp[k].request
      /\ new[k].finishes = IF k \in F THEN sp[k].finishes + 1 ELSE sp[k].finishes
      /\ new[k].destroyed <=> sp[k].destroyed \/ k \in D
      /\ new[p].kind = "request"
      /\ new[p].request = sp[p].request
      /\ new[p].finishes = IF p \in F THEN sp[p].finishes + 1 ELSE sp[p].finishes
      /\ new[p].destroyed <=> sp[p].destroyed \/ p \in D
  BY <1>1 DEF Calls
<1>4. p \in 1 .. Len(new)
  BY <1>1, LenProperties DEF Calls
<1>5. /\ p \in F => new[k].finishes > 0
      /\ k \in D /\ new[k].finishes = 0 => p \in D
  BY <1>1
<1> HIDE DEF p
<1> QED
  BY <1>1, <1>2, <1>3, <1>4, <1>5 DEF Nested

\* The spans of a state are nested one by one.
LEMMA NestedEach ==
  ASSUME spans \in Seq(Span)
  PROVE  LocationsNested <=> \A k \in 1 .. Len(spans) : Nested(spans, k)
<1>1. DOMAIN spans = 1 .. Len(spans)
  BY LenProperties
<1> QED
  BY <1>1 DEF LocationsNested, Nested

\* So too after a step.
LEMMA NestedEachNext ==
  ASSUME spans' \in Seq(Span)
  PROVE  LocationsNested' <=> \A k \in 1 .. Len(spans') : Nested(spans', k)
<1>1. DOMAIN spans' = 1 .. Len(spans')
  BY LenProperties
<1> QED
  BY <1>1 DEF LocationsNested, Nested

-----------------------------------------------------------------------------
(* on_change_block of opentracing_context.cpp. *)

\* The invariant's parts on the state after a step, as one goal.
Owned == LiveTracesOwn /\ NoSpanLeaked /\ LocationsNested

\* What a change of block makes of the state, when the i-th trace is r's and
\* its location span, if one is started, lives at a.
Changed(r, l, c, i, a) ==
    /\ traces[c][i].request = r
    /\ Calls(spans, spans', Left(traces[c][i]),
             IF l \in TraceLocations THEN {traces[c][i].span.id} ELSE {},
             {active_span(traces[c][i]).id})
    /\ Len(spans') = IF l \in TraceLocations THEN Len(spans) + 1 ELSE Len(spans)
    /\ l \in TraceLocations =>
         /\ spans'[Len(spans) + 1].kind = "location"
         /\ spans'[Len(spans) + 1].request = r
         /\ spans'[Len(spans) + 1].loc = l
         /\ spans'[Len(spans) + 1].parent = traces[c][i].request_span.id
         /\ spans'[Len(spans) + 1].tags = <<>>
         /\ spans'[Len(spans) + 1].finishes = 0
         /\ ~spans'[Len(spans) + 1].destroyed
    /\ on_change_block(spans, traces[c][i], l, a) \in Trace
    /\ DOMAIN traces'[c] = DOMAIN traces[c]
    /\ \A j \in DOMAIN traces[c] :
         traces'[c][j] = IF j = i THEN on_change_block(spans, traces[c][i], l, a)
                                  ELSE traces[c][j]
    /\ live' = live
    /\ ctx' = [ctx EXCEPT ![r] = c]

\* A change of block makes that of the trace it finds.
LEMMA ChangeShape ==
  ASSUME Inv, NEW r \in Requests, NEW l \in Locs, NEW c \in live,
         ChangeBlock(r, l, c)
  PROVE  \E i \in DOMAIN traces[c], a \in FreeAddrs : Changed(r, l, c, i, a)
<1> DEFINE i == find_trace(c, r)
           t == traces[c][i]
<1>1. /\ i \in DOMAIN traces[c]
      /\ t.request = r
  BY FoundTrace DEF ChangeBlock, Inv, TypeOK
<1>2. /\ c \in 1 .. Len(traces)
      /\ t \in Trace
      /\ t.span.id <= Len(spans)
      /\ spans \in Seq(Span)
      /\ traces \in Seq(Seq(Trace))
  <2>1. /\ c \in 1 .. Len(traces)
        /\ t \in Trace
        /\ t.span.id \in 0 .. Len(spans)
    BY <1>1, OwnedTrace DEF Inv
  <2>2. Len(spans) \in Nat /\ spans \in Seq(Span) /\ traces \in Seq(Seq(Trace))
    BY LenProperties DEF Inv, TypeOK, TracingTypeOK
  <2> QED
    BY <2>1, <2>2
<1>3. PICK a \in FreeAddrs :
        traces' = [traces EXCEPT ![c][i] = on_change_block(spans, @, l, a)]
  BY DEF ChangeBlock
<1> DEFINE e == on_change_block(spans, t, l, a)
<1>4. e \in Trace
  BY <1>2, <1>3, TraceType DEF FreeAddrs
<1>5. traces' = [traces EXCEPT ![c][i] = e]
  BY <1>3
<1>6. spans' = on_change_block_spans(spans, t, l)
  BY DEF ChangeBlock
<1>7. live' = live /\ ctx' = [ctx EXCEPT ![r] = c]
  BY DEF ChangeBlock
<1> HIDE DEF i, e
<1>8. \A d \in 1 .. Len(traces) :
        /\ DOMAIN traces'[d] = DOMAIN traces[d]
        /\ \A j \in DOMAIN traces[d] :
             traces'[d][j] = IF d = c /\ j = i THEN e ELSE traces[d][j]
  BY <1>2, <1>4, <1>5, UpdateTrace
<1> HIDE DEF t
<1>9. /\ Calls(spans, spans', Left(t),
               IF l \in TraceLocations THEN {t.span.id} ELSE {},
               {active_span(t).id})
      /\ Len(spans') = IF l \in TraceLocations THEN Len(spans) + 1 ELSE Len(spans)
  BY <1>2, <1>6, ChangeEffect
<1>10. l \in TraceLocations =>
         LET new == spans'[Len(spans) + 1]
             started == LocationSpan(t.request, l, t.request_span.id)
         IN  /\ new.kind = started.kind
             /\ new.request = started.request
             /\ new.loc = started.loc
             /\ new.parent = started.parent
             /\ new.tags = started.tags
             /\ new.finishes = started.finishes
             /\ ~new.destroyed
  BY <1>2, <1>6, ChangeEffect
<1>11. l \in TraceLocations =>
         /\ spans'[Len(spans) + 1].kind = "location"
         /\ spans'[Len(spans) + 1].request = r
         /\ spans'[Len(spans) + 1].loc = l
         /\ spans'[Len(spans) + 1].parent = t.request_span.id
         /\ spans'[Len(spans) + 1].tags = <<>>
         /\ spans'[Len(spans) + 1].finishes = 0
         /\ ~spans'[Len(spans) + 1].destroyed
  BY <1>1, <1>10 DEF LocationSpan, NewSpan, t
<1>12. Changed(r, l, c, i, a)
  BY <1>1, <1>2, <1>4, <1>7, <1>8, <1>9, <1>11 DEF t, e, Changed
<1> QED
  BY <1>1, <1>3, <1>12 DEF t

\* No request is born, freed or made external in the step ...
Onward ==
    \A q \in Requests :
      /\ phase[q] \notin {"unborn", "freed"} => phase'[q] \notin {"unborn", "freed"}
      /\ internal[q] => internal'[q]

\* ... and no request's log phase runs.
NoneEnds == Onward /\ \A q \in Requests : Logged(q)' <=> Logged(q)

\* A request whose ctx slot is set to the live context, and any other, still
\* finds it.
LEMMA FindsKept ==
  ASSUME Inv, Onward, NEW r \in Requests, NEW c \in live, NEW q \in Requests,
         ctx' = [ctx EXCEPT ![r] = c] \/ ctx' = ctx,
         FindsItsContext(c, q)
  PROVE  FindsItsContext(c, q)'
<1>1. ctx \in [Requests -> 0 .. Len(traces)]
  BY DEF Inv, TypeOK, TracingTypeOK
<1> QED
  BY <1>1 DEF Onward, FindsItsContext

\* Changing the block of an open trace keeps the invariant.
LEMMA ChangeOwned ==
  ASSUME Inv, NoneEnds, NEW r \in Requests, NEW l \in Locs, NEW c \in live,
         ~Logged(r), ChangeBlock(r, l, c)
  PROVE  Owned'
<1>0. PICK i \in DOMAIN traces[c], a \in FreeAddrs : Changed(r, l, c, i, a)
  BY ChangeShape
<1>1. PICK t \in Trace : t = traces[c][i]
  BY OwnedTrace DEF Inv
<1>2. PICK e \in Trace : e = on_change_block(spans, t, l, a)
  BY <1>0, <1>1 DEF Changed
<1> DEFINE n == Len(spans) + 1
           F == Left(t)
           D == IF l \in TraceLocations THEN {t.span.id} ELSE {}
           T == {active_span(t).id}
<1>3. /\ t.request = r
      /\ OwnsItsSpans(t)
      /\ ExpansionKept(t)
      /\ FindsItsContext(c, r)
      /\ t.request_span.id \in 1 .. Len(spans)
      /\ t.span.id \in 0 .. Len(spans)
      /\ t.span.id # t.request_span.id
      /\ c \in 1 .. Len(traces)
      /\ live = {c} /\ live' = {c} /\ c # 0
  BY <1>0, <1>1, OwnedTrace, OneLive DEF Inv, Changed
<1>4. /\ Len(spans) \in Nat /\ Len(spans') \in Nat
      /\ DOMAIN spans = 1 .. Len(spans)
      /\ DOMAIN spans' = 1 .. Len(spans')
      /\ spans \in Seq(Span) /\ spans' \in Seq(Span)
      /\ n \in Nat
      /\ Len(spans') = IF l \in TraceLocations THEN n ELSE Len(spans)
  <2>1. spans \in Seq(Span) /\ spans' \in Seq(Span)
    BY <1>0 DEF Changed, Calls, Inv, TypeOK, TracingTypeOK
  <2>2. Len(spans') = IF l \in TraceLocations THEN n ELSE Len(spans)
    BY <1>0 DEF Changed
  <2> QED
    BY <2>1, <2>2, LenProperties
<1>5. /\ e.request = r
      /\ e.conf = l
      /\ e.request_span = t.request_span
      /\ e.span = IF l \in TraceLocations THEN [id |-> n, addr |-> a] ELSE t.span
      /\ e.values_span = t.values_span
      /\ e.expansion = t.expansion
  BY <1>2, <1>3 DEF on_change_block, Trace
<1>6. Calls(spans, spans', F, D, T)
  BY <1>0, <1>1 DEF Changed
<1>7. /\ spans[t.request_span.id].finishes = 0
      /\ ~Logged(r)'
      /\ F \subseteq {t.span.id} /\ D \subseteq {t.span.id}
      /\ t.conf \in TraceLocations => t.span.id # 0
  BY <1>3 DEF NoneEnds, OwnsItsSpans, Left
<1>8. l \in TraceLocations =>
        /\ spans'[n].kind = "location"
        /\ spans'[n].request = r
        /\ spans'[n].parent = t.request_span.id
        /\ spans'[n].finishes = 0
        /\ ~spans'[n].destroyed
  BY <1>0, <1>1 DEF Changed
<1>9. /\ DOMAIN traces'[c] = DOMAIN traces[c]
      /\ \A j \in DOMAIN traces[c] :
           traces'[c][j] = IF j = i THEN e ELSE traces[c][j]
  BY <1>0, <1>1, <1>2 DEF Changed
<1>10. ctx' = [ctx EXCEPT ![r] = c]
  BY <1>0 DEF Changed
<1>11. OwnsItsSpans(e)'
  <2> DEFINE q == t.request_span.id
             s == t.span.id
  <2>1. /\ q \in DOMAIN spans'
        /\ spans'[q].kind = "request"
        /\ spans'[q].request = r
        /\ spans'[q].finishes = 0
        /\ ~spans'[q].destroyed
    <3>1. q \in 1 .. Len(spans) /\ q \in 1 .. Len(spans') /\ q \notin F \cup D
      BY <1>3, <1>4, <1>7
    <3>2. spans[q].kind = "request" /\ spans[q].request = r /\ ~spans[q].destroyed
      BY <1>3 DEF OwnsItsSpans
    <3> HIDE DEF F, D, T
    <3> QED
      BY <1>4, <1>6, <1>7, <3>1, <3>2 DEF Calls
  <2>2. CASE l \in TraceLocations
    <3>1. n \in DOMAIN spans' /\ e.span.id = n /\ n # 0
      BY <1>4, <1>5, <2>2
    <3> HIDE DEF n
    <3> QED
      BY <1>5, <1>7, <1>8, <2>1, <2>2, <3>1 DEF OwnsItsSpans, n
  <2>3. CASE l \notin TraceLocations
    <3>1. e.span = t.span
      BY <1>5, <2>3
    <3>2. CASE s = 0
      BY <1>5, <1>7, <2>1, <2>3, <3>1, <3>2 DEF OwnsItsSpans
    <3>3. CASE s # 0
      <4>1. s \in 1 .. Len(spans) /\ s \in DOMAIN spans' /\ s \notin D
        BY <1>3, <1>4, <2>3, <3>3
      <4>2. /\ spans[s].kind = "location"
            /\ spans[s].request = r
            /\ spans[s].parent = q
            /\ spans[s].finishes = IF t.conf \in TraceLocations THEN 0 ELSE 1
            /\ ~spans[s].destroyed
        BY <1>3, <1>7, <3>3 DEF OwnsItsSpans, NoneEnds
      <4>3. s \in F <=> t.conf \in TraceLocations
        BY DEF Left
      <4> HIDE DEF F, D, T
      <4>4. /\ spans'[s].kind = "location"
            /\ spans'[s].request = r
            /\ spans'[s].parent = q
            /\ spans'[s].finishes = 1
            /\ ~spans'[s].destroyed
        BY <1>6, <4>1, <4>2, <4>3 DEF Calls
      <4> QED
        BY <1>5, <1>7, <2>1, <2>3, <3>1, <3>3, <4>1, <4>4 DEF OwnsItsSpans
    <3> QED
      BY <3>2, <3>3
  <2> QED
    BY <2>2, <2>3
<1>12. ExpansionKept(e)'
  <2>1. ExpansionKept(t)'
    BY <1>3, <1>6, ExpansionStays DEF Inv
  <2>2. CASE l \notin TraceLocations
    BY <1>3, <1>5, <2>1, <2>2 DEF ExpansionKept
  <2>3. CASE l \in TraceLocations
    <3>1. /\ a \in Addr /\ a # t.request_span.addr /\ a # t.span.addr
          /\ a # NoAddr
      <4>1. a \notin HeldAddrs /\ a \in Addr
        BY DEF FreeAddrs
      <4>2. c \in Contexts
        BY <1>3, LenProperties DEF Inv, TypeOK, TracingTypeOK, Contexts
      <4>3. OwnedAddrs(t) \subseteq HeldAddrs
        BY <1>1, <4>2 DEF HeldAddrs
      <4> QED
        BY <4>1, <4>3, AddrAssumption DEF OwnedAddrs
    <3>2. e.span.id = n /\ e.span.addr = a
      BY <1>5, <2>3
    <3>3. t.span.id < n /\ t.request_span.id < n /\ t.span.id \in Nat
      BY <1>3, <1>4
    <3>4. /\ t.expansion \in Nat
          /\ t.span.id # 0 => /\ t.span.addr # t.request_span.addr
                              /\ spans'[t.span.id].kind = "location"
                              /\ spans'[t.span.id].request = r
      <4>1. t.span.id # 0 => /\ spans[t.span.id].kind = "location"
                            /\ spans[t.span.id].request = r
        BY <1>3 DEF OwnsItsSpans
      <4>2. t.span.id # 0 => t.span.id \in 1 .. Len(spans)
        BY <1>3
      <4> QED
        BY <1>3, <1>6, <4>1, <4>2 DEF Calls, ExpansionKept, Trace
    <3> DEFINE x == t.expansion
    <3>5. CASE x = 0 \/ (x = t.request_span.id /\ t.values_span = t.request_span.addr)
      BY <1>3, <1>5, <3>1, <3>2, <3>5 DEF ExpansionKept
    <3>6. CASE x # 0 /\ x = t.span.id /\ t.values_span = t.span.addr
      <4>1. /\ x < e.span.id
            /\ t.values_span # t.request_span.addr
            /\ t.values_span # e.span.addr
        BY <3>1, <3>2, <3>3, <3>4, <3>6
      <4> QED
        BY <1>3, <1>5, <3>1, <3>2, <4>1 DEF ExpansionKept
    <3>7. CASE x # 0 /\ x < t.span.id /\ t.values_span # t.request_span.addr
      <4>1. x < e.span.id /\ t.span.id \in x + 1 .. e.span.id - 1
        BY <1>3, <1>4, <3>2, <3>3, <3>4, <3>7
      <4>2. spans'[t.span.id].kind = "location" /\ spans'[t.span.id].request = r
        BY <3>3, <3>4, <3>7
      <4>3. \E k \in e.expansion + 1 .. e.span.id - 1 :
              spans'[k].kind = "location" /\ spans'[k].request = e.request
        BY <1>5, <4>1, <4>2
      <4> HIDE DEF x, n
      <4> QED
        BY <1>3, <1>5, <3>1, <3>2, <3>7, <4>1, <4>3 DEF ExpansionKept, x
    <3> QED
      BY <1>3, <3>5, <3>6, <3>7 DEF ExpansionKept
  <2> QED
    BY <2>2, <2>3
<1>13. LiveTracesOwn'
  <2>1. ASSUME NEW j \in DOMAIN traces[c]
        PROVE  /\ OwnsItsSpans(traces[c][j])'
               /\ ExpansionKept(traces[c][j])'
               /\ FindsItsContext(c, traces[c][j].request)'
    <3>1. CASE j = i
      <4>1. traces'[c][j] = e
        BY <1>9, <3>1
      <4>2. FindsItsContext(c, r)'
        BY <1>3, <1>10, FindsKept DEF NoneEnds
      <4> QED
        BY <1>5, <1>11, <1>12, <4>1, <4>2
    <3>2. CASE j # i
      <4>0. PICK u \in Trace : u = traces[c][j]
        BY OwnedTrace DEF Inv
      <4>1. /\ OwnsItsSpans(u)
            /\ ExpansionKept(u)
            /\ FindsItsContext(c, u.request)
            /\ u.span.id \in 0 .. Len(spans)
        BY <4>0, OwnedTrace DEF Inv
      <4>2. OwnedIds(u) \cap OwnedIds(t) \subseteq {0}
        BY <1>1, <3>2, <4>0, OwnedApart DEF Inv
      <4>3. \A id \in OwnedIds(u) : id # 0 => id \notin F \cup D
        BY <1>7, <4>2 DEF OwnedIds
      <4>4. u.request \in Requests
        BY DEF Trace
      <4>5. traces'[c][j] = u
        BY <1>9, <3>2, <4>0
      <4> HIDE DEF F, D, T
      <4>6. OwnsItsSpans(u)'
        BY <1>6, <4>1, <4>3, <4>4, OwnKept DEF Inv, NoneEnds
      <4>7. ExpansionKept(u)'
        BY <1>6, <4>1, ExpansionStays DEF Inv
      <4>8. FindsItsContext(c, u.request)'
        BY <1>10, <4>1, <4>4, FindsKept DEF NoneEnds
      <4> QED
        BY <4>5, <4>6, <4>7, <4>8
    <3> QED
      BY <3>1, <3>2
  <2> QED
    BY <1>3, <1>9, <2>1 DEF LiveTracesOwn
<1>14. NoSpanLeaked'
  <2>1. \A j \in DOMAIN traces[c] : OwnedIds(traces'[c][j]) \subseteq OwnedSpans(c)'
    BY <1>9 DEF OwnedSpans
  <2>2. ASSUME NEW k \in 1 .. Len(spans), ~spans'[k].destroyed
        PROVE  k \in OwnedSpans(c)'
    <3>1. ~spans[k].destroyed /\ k \notin D
      BY <1>6, <2>2 DEF Calls
    <3>2. PICK j \in DOMAIN traces[c] : k \in OwnedIds(traces[c][j])
      BY <1>3, <1>4, <3>1 DEF Inv, SpanInv, NoSpanLeaked, OwnedSpans
    <3>3. CASE j # i
      BY <1>9, <2>1, <3>2, <3>3
    <3>4. CASE j = i
      <4>1. k = t.request_span.id \/ k = t.span.id
        BY <1>1, <3>2, <3>4 DEF OwnedIds
      <4>2. k \in OwnedIds(e)
        BY <1>5, <3>1, <4>1 DEF OwnedIds
      <4> QED
        BY <1>9, <2>1, <3>4, <4>2
    <3> QED
      BY <3>3, <3>4
  <2>3. ASSUME NEW k \in DOMAIN spans', k \notin 1 .. Len(spans)
        PROVE  k \in OwnedSpans(c)'
    <3>1. l \in TraceLocations /\ k = n
      BY <1>4, <2>3
    <3>2. k \in OwnedIds(e)
      BY <1>5, <3>1 DEF OwnedIds
    <3> QED
      BY <1>9, <2>1, <3>2
  <2> QED
    BY <1>3, <1>4, <2>2, <2>3 DEF NoSpanLeaked
<1>15. LocationsNested'
  <2>1. ASSUME NEW k \in 1 .. Len(spans)
        PROVE  Nested(spans', k)
    <3>1. Nested(spans, k)
      BY <1>4, NestedEach DEF Inv, SpanInv
    <3>2. spans[k].kind = "location" => spans[k].parent \notin F
      BY <1>3, <1>7, <3>1 DEF Nested, OwnsItsSpans
    <3>3. k \in D => spans'[k].finishes > 0
      <4>1. k \in D => /\ k = t.span.id /\ k # 0
                       /\ k \in F \/ spans[k].finishes = 1
        BY <1>3, <1>7 DEF OwnsItsSpans, Left
      <4>2. spans[k].finishes \in Nat
        <5>1. spans[k] \in Span
          BY <1>4
        <5> QED
          BY <5>1 DEF Span
      <4> HIDE DEF F, D, T
      <4> QED
        BY <1>6, <4>1, <4>2 DEF Calls
    <3> HIDE DEF F, D, T
    <3> QED
      BY <1>4, <1>6, <3>1, <3>2, <3>3, NestedKept
  <2>2. ASSUME NEW k \in 1 .. Len(spans'), k \notin 1 .. Len(spans)
        PROVE  Nested(spans', k)
    <3> DEFINE q == t.request_span.id
    <3>1. l \in TraceLocations /\ k = n
      BY <1>4, <2>2
    <3>2. /\ q \in 1 .. Len(spans)
          /\ q \in 1 .. Len(spans')
          /\ q \notin F
          /\ spans[q].kind = "request"
          /\ spans[q].request = r
      BY <1>3, <1>4, <1>7 DEF OwnsItsSpans
    <3> HIDE DEF F, D, T
    <3>3. /\ spans'[q].kind = "request"
          /\ spans'[q].request = r
          /\ spans'[q].finishes = 0
      BY <1>6, <1>7, <3>2 DEF Calls
    <3> QED
      BY <1>8, <3>1, <3>2, <3>3 DEF Nested
  <2> QED
    BY <1>4, <2>1, <2>2, NestedEachNext
<1> QED
  BY <1>13, <1>14, <1>15 DEF Owned

-----------------------------------------------------------------------------
(* The constructor of RequestTracing. *)

\* A trace just made owns the spans it started, and no more are new.
LEMMA NewTraceOwns ==
  ASSUME spans \in Seq(Span), NEW r \in Requests, NEW l \in Locs,
         NEW parent \in Nat, spans' = StartTrace(spans, r, l, parent),
         NEW a \in Addr, NEW b \in Addr, l \in TraceLocations => a # b,
         NEW e \in Trace, e = NewTrace(spans, r, l, a, b), ~Logged(r)'
  PROVE  /\ Calls(spans, spans', {}, {}, {})
         /\ OwnsItsSpans(e)'
         /\ ExpansionKept(e)'
         /\ \A k \in 1 .. Len(spans') : k \notin 1 .. Len(spans) =>
              /\ k \in OwnedIds(e)
              /\ Nested(spans', k)
<1> DEFINE n == Len(spans) + 1
<1>1. /\ Calls(spans, spans', {}, {}, {})
      /\ Len(spans') = IF l \in TraceLocations THEN Len(spans) + 2 ELSE n
      /\ spans'[n] = RequestSpan(r, l, parent)
      /\ l \in TraceLocations => spans'[Len(spans) + 2] = LocationSpan(r, l, n)
  BY StartEffect
<1>2. Len(spans) \in Nat /\ DOMAIN spans' = 1 .. Len(spans')
  BY <1>1, LenProperties DEF Calls
<1>3. /\ e.request = r
      /\ e.conf = l
      /\ e.request_span = [id |-> n, addr |-> a]
      /\ e.span = IF l \in TraceLocations THEN [id |-> Len(spans) + 2, addr |-> b]
                                          ELSE Null
      /\ e.expansion = 0
  BY DEF NewTrace
<1>4. /\ spans'[n].kind = "request"
      /\ spans'[n].request = r
      /\ spans'[n].finishes = 0
      /\ ~spans'[n].destroyed
  BY <1>1 DEF RequestSpan, NewSpan
<1>5. l \in TraceLocations =>
        /\ spans'[Len(spans) + 2].kind = "location"
        /\ spans'[Len(spans) + 2].request = r
        /\ spans'[Len(spans) + 2].parent = n
        /\ spans'[Len(spans) + 2].finishes = 0
        /\ ~spans'[Len(spans) + 2].destroyed
  BY <1>1 DEF LocationSpan, NewSpan
<1>6. OwnsItsSpans(e)'
  <2>1. n \in DOMAIN spans' /\ n # 0
    BY <1>1, <1>2
  <2>2. e.request_span.id = n
    BY <1>3
  <2>3. CASE l \in TraceLocations
    <3>1. e.span.id = n + 1 /\ n + 1 \in DOMAIN spans' /\ n + 1 # 0
      BY <1>1, <1>2, <1>3, <2>3
    <3>2. /\ spans'[n + 1].kind = "location"
          /\ spans'[n + 1].request = r
          /\ spans'[n + 1].parent = n
          /\ spans'[n + 1].finishes = 0
          /\ ~spans'[n + 1].destroyed
      BY <1>2, <1>5, <2>3
    <3> HIDE DEF n
    <3> QED
      BY <1>3, <1>4, <2>1, <2>2, <2>3, <3>1, <3>2 DEF OwnsItsSpans
  <2>4. CASE l \notin TraceLocations
    <3>1. e.span.id = 0
      BY <1>3, <2>4 DEF Null
    <3> HIDE DEF n
    <3> QED
      BY <1>3, <1>4, <2>1, <2>2, <2>4, <3>1 DEF OwnsItsSpans
  <2> QED
    BY <2>3, <2>4
<1>7. ExpansionKept(e)'
  <2>1. e.request_span.addr = a /\ a # NoAddr
    BY <1>3, AddrAssumption
  <2>2. e.span.id # 0 => e.span.addr \notin {a, NoAddr}
    BY <1>3, AddrAssumption DEF Null
  <2> QED
    BY <1>3, <2>1, <2>2 DEF ExpansionKept
<1>8. ASSUME NEW k \in 1 .. Len(spans'), k \notin 1 .. Len(spans)
      PROVE  k \in OwnedIds(e) /\ Nested(spans', k)
  <2>1. k = n \/ (l \in TraceLocations /\ k = Len(spans) + 2)
    BY <1>1, <1>2, <1>8
  <2>2. CASE k = n
    BY <1>3, <1>4, <2>2 DEF OwnedIds, Nested
  <2>3. CASE l \in TraceLocations /\ k = Len(spans) + 2
    <3>1. k \in OwnedIds(e)
      BY <1>3, <2>3 DEF OwnedIds
    <3>2. n \in 1 .. Len(spans')
      BY <1>1, <1>2
    <3> QED
      BY <1>4, <1>5, <2>3, <3>1, <3>2 DEF Nested
  <2> QED
    BY <2>1, <2>2, <2>3
<1> QED
  BY <1>1, <1>6, <1>7, <1>8

\* A context made when there is none keeps the invariant.
LEMMA NewContextOwned ==
  ASSUME Inv, NoneEnds, NEW r \in Requests, NEW l \in Locs, ~Logged(r),
         live = {}, phase[r] \notin {"unborn", "freed"}, NewContext(r, l)
  PROVE  Owned'
<1>0. PICK c \in Nat : c = Len(traces) + 1
  BY LenProperties DEF Inv, TypeOK, TracingTypeOK
<1>1. PICK a \in FreeAddrs, b \in FreeAddrs :
        /\ l \in TraceLocations => a # b
        /\ set_opentracing_context(r, NewTrace(spans, r, l, a, b))
  BY DEF NewContext
<1>2. /\ a \in Addr /\ b \in Addr
      /\ spans \in Seq(Span)
      /\ traces \in Seq(Seq(Trace))
      /\ Len(traces) \in Nat
      /\ None \in Nat
  BY LenProperties DEF FreeAddrs, Inv, TypeOK, TracingTypeOK, None
<1>3. PICK e \in Trace : e = NewTrace(spans, r, l, a, b) /\ e.request = r
  BY <1>2, TraceType
<1>4. /\ live' = {c}
      /\ ctx' = [ctx EXCEPT ![r] = c]
      /\ traces' = Append(traces, <<e>>)
  BY <1>0, <1>1, <1>3 DEF set_opentracing_context, Inv
<1>5. traces'[c] = <<e>>
  BY <1>0, <1>2, <1>4, AppendProperties
<1>6. spans' = StartTrace(spans, r, l, None)
  BY DEF NewContext
<1>7. ~Logged(r)' /\ phase'[r] \notin {"unborn", "freed"}
  BY DEF NoneEnds, Onward
<1>8. /\ Calls(spans, spans', {}, {}, {})
      /\ OwnsItsSpans(e)'
      /\ ExpansionKept(e)'
      /\ \A k \in 1 .. Len(spans') : k \notin 1 .. Len(spans) =>
           /\ k \in OwnedIds(e)
           /\ Nested(spans', k)
  BY <1>1, <1>2, <1>3, <1>6, <1>7, NewTraceOwns
<1>9. FindsItsContext(c, r)'
  <2>1. ctx'[r] = c
    BY <1>4 DEF Inv, TypeOK, TracingTypeOK
  <2> QED
    BY <1>7, <2>1 DEF FindsItsContext
<1>10. LiveTracesOwn'
  <2>1. DOMAIN traces'[c] = {1} /\ traces'[c][1] = e
    BY <1>5
  <2> QED
    BY <1>3, <1>4, <1>8, <1>9, <2>1 DEF LiveTracesOwn
<1>11. NoSpanLeaked'
  <2>1. \A k \in 1 .. Len(spans) : spans'[k].destroyed
    <3>1. \A k \in 1 .. Len(spans) : spans[k].destroyed
      BY <1>2, LenProperties DEF Inv, SpanInv, NoSpanLeaked
    <3> QED
      BY <1>8, <3>1 DEF Calls
  <2>2. \A k \in OwnedIds(e) : k \in OwnedSpans(c)'
    <3>1. DOMAIN traces'[c] = {1} /\ traces'[c][1] = e
      BY <1>5
    <3> QED
      BY <3>1 DEF OwnedSpans
  <2>3. DOMAIN spans' = 1 .. Len(spans')
    BY <1>8, LenProperties DEF Calls
  <2> QED
    BY <1>4, <1>8, <2>1, <2>2, <2>3 DEF NoSpanLeaked
<1>12. LocationsNested'
  <2>1. spans' \in Seq(Span)
    BY <1>8 DEF Calls
  <2>2. ASSUME NEW k \in 1 .. Len(spans)
        PROVE  Nested(spans', k)
    <3>1. Nested(spans, k)
      BY <1>2, NestedEach DEF Inv, SpanInv
    <3>2. spans \in Seq(Span) /\ Calls(spans, spans', {}, {}, {})
      BY <1>2, <1>8
    <3> QED
      BY <3>1, <3>2, NestedKept
  <2> QED
    BY <1>8, <2>1, <2>2, NestedEachNext
<1> QED
  BY <1>10, <1>11, <1>12 DEF Owned

\* A trace added to a context keeps the invariant.
LEMMA AddTraceOwned ==
  ASSUME Inv, NoneEnds, NEW r \in Requests, NEW l \in Locs, NEW c \in live,
         ~Logged(r), phase[r] \notin {"unborn", "freed"}, AddTrace(r, l, c)
  PROVE  Owned'
<1>1. PICK a \in FreeAddrs, b \in FreeAddrs :
        /\ l \in TraceLocations => a # b
        /\ traces' = [traces EXCEPT ![c] = Append(@, NewTrace(spans, r, l, a, b))]
  BY DEF AddTrace
<1>2. /\ a \in Addr /\ b \in Addr
      /\ spans \in Seq(Span) /\ DOMAIN spans = 1 .. Len(spans)
      /\ traces \in Seq(Seq(Trace))
      /\ c \in 1 .. Len(traces)
      /\ traces[c] \in Seq(Trace)
      /\ traces[c][1].request_span.id \in Nat
      /\ live = {c}
  BY LenProperties, RootTrace, OneLive
  DEF FreeAddrs, Inv, TypeOK, TracingTypeOK, TracingInv
<1>3. PICK e \in Trace : e = NewTrace(spans, r, l, a, b) /\ e.request = r
  BY <1>2, TraceType
<1>4. traces' = [traces EXCEPT ![c] = Append(traces[c], e)]
  BY <1>1, <1>3
<1>5. PICK m \in Nat : m = Len(traces[c]) + 1
  BY <1>2, LenProperties
<1>6. /\ DOMAIN traces'[c] = DOMAIN traces[c] \cup {m}
      /\ m \notin DOMAIN traces[c]
      /\ \A j \in DOMAIN traces[c] : traces'[c][j] = traces[c][j]
      /\ traces'[c][m] = e
  <2>1. traces'[c] = Append(traces[c], e)
    BY <1>2, <1>4
  <2>2. /\ Append(traces[c], e) \in Seq(Trace)
        /\ Len(Append(traces[c], e)) = m
        /\ \A j \in 1 .. Len(traces[c]) : Append(traces[c], e)[j] = traces[c][j]
        /\ Append(traces[c], e)[m] = e
    BY <1>2, <1>5, AppendProperties
  <2>3. /\ DOMAIN traces[c] = 1 .. Len(traces[c])
        /\ Len(traces[c]) \in Nat
        /\ DOMAIN Append(traces[c], e) = 1 .. m
    BY <1>2, <2>2, LenProperties
  <2>4. 1 .. m = 1 .. Len(traces[c]) \cup {m} /\ m \notin 1 .. Len(traces[c])
    BY <1>5, <2>3
  <2> QED
    BY <2>1, <2>2, <2>3, <2>4
<1>7. live' = {c} /\ ctx' = [ctx EXCEPT ![r] = c]
  BY <1>2 DEF AddTrace
<1>8. ~Logged(r)' /\ phase'[r] \notin {"unborn", "freed"}
  BY DEF NoneEnds, Onward
<1>9. /\ Calls(spans, spans', {}, {}, {})
      /\ OwnsItsSpans(e)'
      /\ ExpansionKept(e)'
      /\ \A k \in 1 .. Len(spans') : k \notin 1 .. Len(spans) =>
           /\ k \in OwnedIds(e)
           /\ Nested(spans', k)
  <2>1. PICK root \in Nat : root = traces[c][1].request_span.id
    BY <1>2
  <2>2. spans' = StartTrace(spans, r, l, root)
    BY <2>1 DEF AddTrace
  <2> QED
    BY <1>1, <1>2, <1>3, <1>8, <2>2, NewTraceOwns
<1>10. spans' \in Seq(Span) /\ DOMAIN spans' = 1 .. Len(spans')
  BY <1>9, LenProperties DEF Calls
<1>11. LiveTracesOwn'
  <2>1. /\ OwnsItsSpans(traces[c][m])'
        /\ ExpansionKept(traces[c][m])'
        /\ FindsItsContext(c, traces[c][m].request)'
    <3>1. ctx'[r] = c
      BY <1>7 DEF Inv, TypeOK, TracingTypeOK
    <3>2. FindsItsContext(c, r)'
      BY <1>8, <3>1 DEF FindsItsContext
    <3> QED
      BY <1>3, <1>6, <1>9, <3>2
  <2>2. ASSUME NEW j \in DOMAIN traces[c]
        PROVE  /\ OwnsItsSpans(traces[c][j])'
               /\ ExpansionKept(traces[c][j])'
               /\ FindsItsContext(c, traces[c][j].request)'
    <3>1. PICK u \in Trace : u = traces[c][j]
      BY OwnedTrace DEF Inv
    <3>2. /\ OwnsItsSpans(u)
          /\ ExpansionKept(u)
          /\ FindsItsContext(c, u.request)
          /\ u.span.id \in 0 .. Len(spans)
          /\ u.request \in Requests
      BY <3>1, OwnedTrace DEF Inv, Trace
    <3>3. OwnsItsSpans(u)'
      <4>1. /\ \A id \in OwnedIds(u) : id # 0 => id \notin {} \cup {}
            /\ Logged(u.request)' <=> Logged(u.request)
        BY <3>2 DEF NoneEnds
      <4> QED
        BY <1>9, <3>2, <4>1, OwnKept DEF Inv
    <3>4. ExpansionKept(u)'
      BY <1>9, <3>2, ExpansionStays DEF Inv
    <3>5. FindsItsContext(c, u.request)'
      BY <1>7, <3>2, FindsKept DEF NoneEnds
    <3> QED
      BY <1>6, <3>1, <3>3, <3>4, <3>5
  <2> QED
    BY <1>6, <1>7, <2>1, <2>2 DEF LiveTracesOwn
<1>12. NoSpanLeaked'
  <2>1. \A k \in OwnedSpans(c) \cup OwnedIds(e) : k \in OwnedSpans(c)'
    BY <1>6 DEF OwnedSpans
  <2>2. ASSUME NEW k \in 1 .. Len(spans), ~spans'[k].destroyed
        PROVE  k \in OwnedSpans(c)
    <3>1. ~spans[k].destroyed
      BY <1>9, <2>2 DEF Calls
    <3> QED
      BY <1>2, <3>1 DEF Inv, SpanInv, NoSpanLeaked
  <2> QED
    BY <1>7, <1>9, <1>10, <2>1, <2>2 DEF NoSpanLeaked
<1>13. LocationsNested'
  <2>1. ASSUME NEW k \in 1 .. Len(spans)
        PROVE  Nested(spans', k)
    <3>1. Nested(spans, k)
      BY <1>2, NestedEach DEF Inv, SpanInv
    <3>2. /\ spans \in Seq(Span)
          /\ Calls(spans, spans', {}, {}, {})
          /\ spans[k].kind = "location" =>
               /\ spans[k].parent \in {} => spans'[k].finishes > 0
               /\ k \in {} /\ spans'[k].finishes = 0 => spans[k].parent \in {}
      BY <1>2, <1>9
    <3> QED
      BY <3>1, <3>2, NestedKept
  <2> QED
    BY <1>9, <1>10, <2>1, NestedEachNext
<1> QED
  BY <1>11, <1>12, <1>13 DEF Owned

-----------------------------------------------------------------------------
(* Steps that leave the spans and their owners alone. *)

\* A step that calls nothing on any span, keeps every trace's spans where they
\* are and ends no request that has a trace keeps the invariant.
LEMMA SameOwned ==
  ASSUME Inv, spans' = spans, live' = live,
         \A c \in live :
           /\ DOMAIN traces'[c] = DOMAIN traces[c]
           /\ \A j \in DOMAIN traces[c] :
                /\ traces'[c][j].request = traces[c][j].request
                /\ traces'[c][j].conf = traces[c][j].conf
                /\ traces'[c][j].request_span = traces[c][j].request_span
                /\ traces'[c][j].span = traces[c][j].span
                /\ ExpansionKept(traces[c][j])',
         \A c \in live : \A q \in Requests :
           HasTrace(c, q) => /\ Logged(q)' <=> Logged(q)
                             /\ FindsItsContext(c, q)'
  PROVE  Owned'
<1>1. ASSUME NEW c \in live, NEW j \in DOMAIN traces[c]
      PROVE  /\ OwnsItsSpans(traces[c][j])'
             /\ FindsItsContext(c, traces[c][j].request)'
  <2>1. PICK u \in Trace : u = traces[c][j]
    BY OwnedTrace DEF Inv
  <2>2. OwnsItsSpans(u) /\ u.request \in Requests
    BY <2>1, OwnedTrace DEF Inv, Trace
  <2>3. PICK q \in Requests : q = u.request
    BY <2>2
  <2>4. HasTrace(c, q)
    BY <2>1, <2>3 DEF HasTrace, TracesOf
  <2>5. (Logged(q)' <=> Logged(q)) /\ FindsItsContext(c, q)'
    BY <2>4
  <2>6. /\ traces'[c][j].request = q
        /\ traces'[c][j].conf = u.conf
        /\ traces'[c][j].request_span = u.request_span
        /\ traces'[c][j].span = u.span
    BY <2>1, <2>3
  <2>7. OwnsItsSpans(traces[c][j])'
    BY <2>2, <2>3, <2>5, <2>6 DEF OwnsItsSpans
  <2> QED
    BY <2>5, <2>6, <2>7
<1>2. LiveTracesOwn'
  BY <1>1 DEF LiveTracesOwn
<1>3. \A c \in live : OwnedSpans(c)' = OwnedSpans(c)
  BY DEF OwnedSpans, OwnedIds
<1>4. NoSpanLeaked'
  BY <1>3 DEF Inv, SpanInv, NoSpanLeaked
<1>5. LocationsNested'
  BY DEF Inv, SpanInv, LocationsNested
<1> QED
  BY <1>2, <1>4, <1>5 DEF Owned

-----------------------------------------------------------------------------
(* Calls that fail. *)

\* Spans started and destroyed with an object that never came to be leave
\* nothing behind.
LEMMA StillbornOwned ==
  ASSUME Inv, live = {}, live' = {}, NEW mid, NEW ids,
         Calls(spans, mid, {}, {}, {}), spans' = DestroySpans(mid, ids),
         \A k \in 1 .. Len(mid) :
           IF k \in 1 .. Len(spans)
           THEN k \notin ids
           ELSE /\ k \in ids
                /\ Nested(mid, k)
                /\ mid[k].kind = "location" => mid[k].parent \in ids
  PROVE  Owned'
<1>1. /\ spans \in Seq(Span)
      /\ mid \in Seq(Span)
      /\ DOMAIN spans = 1 .. Len(spans)
  BY LenProperties DEF Inv, TypeOK, TracingTypeOK, Calls
<1>2. Calls(mid, spans', {}, ids, {}) /\ Len(spans') = Len(mid)
  BY <1>1, DestroySpansCall
<1>3. spans' \in Seq(Span) /\ DOMAIN spans' = 1 .. Len(spans')
  BY <1>2, LenProperties DEF Calls
<1>4. ASSUME NEW k \in 1 .. Len(mid)
      PROVE  /\ spans'[k].destroyed
             /\ Nested(spans', k)
  <2>1. CASE k \in 1 .. Len(spans)
    <3>1. spans[k].destroyed
      BY <1>1, <2>1 DEF Inv, SpanInv, NoSpanLeaked
    <3>2. mid[k].destroyed
      BY <2>1, <3>1 DEF Calls
    <3>3. Nested(spans, k)
      BY <1>1, <2>1, NestedEach DEF Inv, SpanInv
    <3>4. Nested(mid, k)
      BY <1>1, <2>1, <3>3, NestedKept
    <3>5. k \notin ids
      BY <2>1
    <3>6. Nested(spans', k)
      BY <1>1, <1>2, <3>4, <3>5, NestedKept
    <3> QED
      BY <1>2, <3>2, <3>6 DEF Calls
  <2>2. CASE k \notin 1 .. Len(spans)
    <3>1. /\ k \in ids
          /\ Nested(mid, k)
          /\ mid[k].kind = "location" => mid[k].parent \in ids
      BY <2>2
    <3>2. Nested(spans', k)
      BY <1>1, <1>2, <3>1, NestedKept
    <3> QED
      BY <1>2, <3>1, <3>2 DEF Calls
  <2> QED
    BY <2>1, <2>2
<1>5. LiveTracesOwn' /\ NoSpanLeaked'
  BY <1>2, <1>3, <1>4 DEF LiveTracesOwn, NoSpanLeaked
<1>6. LocationsNested'
  BY <1>2, <1>3, <1>4, NestedEachNext
<1> QED
  BY <1>5, <1>6 DEF Owned

\* A constructor that fails keeps the invariant.
LEMMA NewContextFailsOwned ==
  ASSUME Inv, live = {}, NEW r \in Requests, NEW l \in Locs,
         NewContextFails(r, l)
  PROVE  Owned'
<1> DEFINE n == Len(spans) + 1
<1>1. spans \in Seq(Span) /\ Len(spans) \in Nat /\ n \in Nat /\ None \in Nat
  BY LenProperties DEF Inv, TypeOK, TracingTypeOK, None
<1>2. live' = {}
  BY DEF NewContextFails
<1>3. CASE UNCHANGED spans
  <2>1. LocationsNested'
    BY <1>3 DEF Inv, SpanInv, LocationsNested
  <2>2. NoSpanLeaked'
    BY <1>2, <1>3 DEF Inv, SpanInv, NoSpanLeaked
  <2> QED
    BY <1>2, <2>1, <2>2 DEF Owned, LiveTracesOwn
<1>4. CASE spans' = DestroySpans(Append(spans, RequestSpan(r, l, None)), {n})
  <2> DEFINE mid == Append(spans, RequestSpan(r, l, None))
  <2>1. RequestSpan(r, l, None) \in Span
    BY <1>1, StartedSpanType
  <2>2. /\ Calls(spans, mid, {}, {}, {})
        /\ Len(mid) = n
        /\ mid[n] = RequestSpan(r, l, None)
    BY <1>1, <2>1, StartCall
  <2>3. mid[n].kind = "request"
    BY <2>2 DEF RequestSpan, NewSpan
  <2> HIDE DEF mid
  <2>4. \A k \in 1 .. Len(mid) :
          IF k \in 1 .. Len(spans)
          THEN k \notin {n}
          ELSE /\ k \in {n}
               /\ Nested(mid, k)
               /\ mid[k].kind = "location" => mid[k].parent \in {n}
    BY <1>1, <2>2, <2>3 DEF Nested
  <2>5. spans' = DestroySpans(mid, {n})
    BY <1>4 DEF mid
  <2> HIDE DEF n
  <2> QED
    BY <1>2, <2>2, <2>4, <2>5, StillbornOwned
<1>5. CASE spans' = DestroySpans(StartTrace(spans, r, l, None), n .. Len(spans) + 2)
  <2> DEFINE mid == StartTrace(spans, r, l, None)
             ids == n .. Len(spans) + 2
  <2>1. /\ Calls(spans, mid, {}, {}, {})
        /\ Len(mid) = IF l \in TraceLocations THEN Len(spans) + 2 ELSE n
        /\ mid[n] = RequestSpan(r, l, None)
        /\ l \in TraceLocations => mid[Len(spans) + 2] = LocationSpan(r, l, n)
    BY <1>1, StartEffect
  <2>2. /\ mid[n].kind = "request"
        /\ mid[n].request = r
        /\ mid[n].finishes = 0
        /\ ~mid[n].destroyed
        /\ l \in TraceLocations =>
             /\ mid[Len(spans) + 2].kind = "location"
             /\ mid[Len(spans) + 2].request = r
             /\ mid[Len(spans) + 2].parent = n
             /\ ~mid[Len(spans) + 2].destroyed
    BY <2>1 DEF RequestSpan, LocationSpan, NewSpan
  <2> HIDE DEF mid
  <2>3. ASSUME NEW k \in 1 .. Len(mid)
        PROVE  IF k \in 1 .. Len(spans)
               THEN k \notin ids
               ELSE /\ k \in ids
                    /\ Nested(mid, k)
                    /\ mid[k].kind = "location" => mid[k].parent \in ids
    <3>1. k \in 1 .. Len(spans) => k \notin ids
      BY <1>1
    <3>2. k \notin 1 .. Len(spans) =>
            k = n \/ (l \in TraceLocations /\ k = Len(spans) + 2)
      BY <1>1, <2>1
    <3>3. n \in ids /\ Len(spans) + 2 \in ids /\ n \in 1 .. Len(mid)
      BY <1>1, <2>1
    <3>4. CASE k = n
      BY <2>2, <3>1, <3>3, <3>4 DEF Nested
    <3>5. CASE l \in TraceLocations /\ k = Len(spans) + 2
      BY <2>2, <3>1, <3>3, <3>5 DEF Nested
    <3> QED
      BY <3>1, <3>2, <3>4, <3>5
  <2>4. spans' = DestroySpans(mid, ids)
    BY <1>5 DEF mid
  <2> HIDE DEF ids
  <2> QED
    BY <1>2, <2>1, <2>3, <2>4, StillbornOwned
<1> QED
  BY <1>3, <1>4, <1>5 DEF NewContextFails

\* The parent of a location span that is owned is owned by the same context.
LEMMA OwnedParent ==
  ASSUME Inv, NEW c \in live, NEW k \in 1 .. Len(spans), k \in OwnedSpans(c),
         spans[k].kind = "location"
  PROVE  spans[k].parent \in OwnedSpans(c)
<1>1. PICK i \in DOMAIN traces[c] : k \in OwnedIds(traces[c][i])
  BY DEF OwnedSpans
<1>2. OwnsItsSpans(traces[c][i])
  BY OwnedTrace DEF Inv
<1>3. spans[k].parent = traces[c][i].request_span.id
  BY <1>1, <1>2 DEF OwnedIds, OwnsItsSpans
<1> QED
  BY <1>3 DEF OwnedSpans, OwnedIds

\* A handler that starts no location span, frees none of the spans there were
\* and then destroys the context keeps the invariant.
LEMMA BrokenOwned ==
  ASSUME Inv, NEW r \in Requests, NEW c \in live, NEW sp, NEW F, NEW D, NEW T,
         Calls(spans, sp, F, D, T),
         \A k \in 1 .. Len(spans) :
           k \notin D /\ (k \in F => spans[k].kind = "location"),
         \A k \in 1 .. Len(sp) :
           k \notin 1 .. Len(spans) => sp[k].kind = "request" /\ sp[k].destroyed,
         destroy_opentracing_context(r, sp)
  PROVE  Owned'
<1> DEFINE E == OwnedSpans(c)
<1>1. /\ spans \in Seq(Span) /\ sp \in Seq(Span)
      /\ DOMAIN spans = 1 .. Len(spans)
      /\ live = {c} /\ c = CleanupData /\ c # 0
  BY LenProperties, OneLive DEF Inv, TypeOK, TracingTypeOK, Calls
<1>2. live' = {} /\ spans' = DestroySpans(sp, E)
  BY <1>1 DEF destroy_opentracing_context
<1>3. Calls(sp, spans', {}, E, {}) /\ Len(spans') = Len(sp)
  BY <1>1, <1>2, DestroySpansCall
<1>4. spans' \in Seq(Span) /\ DOMAIN spans' = 1 .. Len(spans')
  BY <1>3, LenProperties DEF Calls
<1>5. ASSUME NEW k \in 1 .. Len(sp)
      PROVE  /\ spans'[k].destroyed
             /\ Nested(spans', k)
  <2>1. CASE k \in 1 .. Len(spans)
    <3>1. Nested(spans, k)
      BY <1>1, <2>1, NestedEach DEF Inv, SpanInv
    <3>2. /\ spans[k].kind = "location" => spans[k].parent \notin F
          /\ k \notin D
      BY <2>1, <3>1 DEF Nested
    <3>3. Nested(sp, k)
      BY <1>1, <2>1, <3>1, <3>2, NestedKept
    <3>4. /\ sp[k].kind = spans[k].kind
          /\ sp[k].parent = spans[k].parent
          /\ sp[k].destroyed <=> spans[k].destroyed
      BY <2>1 DEF Calls
    <3>5. spans[k].destroyed \/ k \in E
      BY <1>1, <2>1 DEF Inv, SpanInv, NoSpanLeaked
    <3>6. sp[k].kind = "location" /\ k \in E => sp[k].parent \in E
      BY <2>1, <3>4, OwnedParent
    <3> HIDE DEF E
    <3>7. Nested(spans', k)
      BY <1>1, <1>3, <3>3, <3>6, NestedKept
    <3> QED
      BY <1>3, <3>4, <3>5, <3>7 DEF Calls
  <2>2. CASE k \notin 1 .. Len(spans)
    <3>1. sp[k].kind = "request" /\ sp[k].destroyed
      BY <2>2
    <3> HIDE DEF E
    <3> QED
      BY <1>3, <3>1 DEF Calls, Nested
  <2> QED
    BY <2>1, <2>2
<1>6. LiveTracesOwn' /\ NoSpanLeaked'
  BY <1>2, <1>3, <1>4, <1>5 DEF LiveTracesOwn, NoSpanLeaked
<1>7. LocationsNested'
  BY <1>3, <1>4, <1>5, NestedEachNext
<1> QED
  BY <1>6, <1>7 DEF Owned

\* A block that cannot be entered breaks the context and keeps the invariant.
LEMMA ChangeFailsOwned ==
  ASSUME Inv, NEW r \in Requests, NEW l \in Locs, NEW c \in live,
         ChangeBlockFails(r, l, c)
  PROVE  Owned'
<1> DEFINE i == find_trace(c, r)
           n == Len(spans) + 1
           root == traces[c][1].request_span.id
<1>1. spans \in Seq(Span) /\ Len(spans) \in Nat
  BY LenProperties DEF Inv, TypeOK, TracingTypeOK
<1>2. CASE /\ HasTrace(c, r)
           /\ destroy_opentracing_context(r, on_exit_block(spans, traces[c][i]))
  <2>1. i \in DOMAIN traces[c]
    BY <1>2, FoundTrace DEF Inv, TypeOK
  <2>2. PICK t \in Trace : t = traces[c][i] /\ OwnsItsSpans(t)
    BY <2>1, OwnedTrace DEF Inv
  <2>3. PICK sp : sp = on_exit_block(spans, t)
    OBVIOUS
  <2>4. Calls(spans, sp, Left(t), {}, {active_span(t).id}) /\ Len(sp) = Len(spans)
    BY <1>1, <2>3, ExitEffect
  <2>5. \A k \in 1 .. Len(spans) :
          k \notin {} /\ (k \in Left(t) => spans[k].kind = "location")
    BY <2>2 DEF Left, OwnsItsSpans
  <2>6. \A k \in 1 .. Len(sp) :
          k \notin 1 .. Len(spans) => sp[k].kind = "request" /\ sp[k].destroyed
    BY <2>4
  <2>7. destroy_opentracing_context(r, sp)
    BY <1>2, <2>2, <2>3
  <2> QED
    BY <2>4, <2>5, <2>6, <2>7, BrokenOwned
<1>3. CASE destroy_opentracing_context(r, spans)
  <2>1. Calls(spans, spans, {}, {}, {})
    BY <1>1, NoCall
  <2> QED
    BY <1>3, <2>1, BrokenOwned
<1>4. CASE destroy_opentracing_context(
             r, DestroySpans(Append(spans, RequestSpan(r, l, root)), {n}))
  <2> DEFINE s == RequestSpan(r, l, root)
             mid == Append(spans, s)
             sp == DestroySpans(mid, {n})
  <2>1. s \in Span
    BY RootTrace, StartedSpanType DEF Inv, TypeOK, TracingInv
  <2>2. /\ Calls(spans, mid, {}, {}, {})
        /\ Len(mid) = n
        /\ mid[n] = s
    BY <1>1, <2>1, StartCall
  <2>3. mid[n].kind = "request" /\ n \in 1 .. Len(mid) /\ mid \in Seq(Span)
    BY <1>1, <2>2 DEF RequestSpan, NewSpan, Calls
  <2> HIDE DEF mid, s
  <2>4. Calls(mid, sp, {}, {n}, {}) /\ Len(sp) = n
    BY <2>2, <2>3, DestroySpansCall
  <2>5. sp[n].kind = "request" /\ sp[n].destroyed
    BY <2>3, <2>4 DEF Calls
  <2>6. Calls(spans, sp, {}, {n}, {})
    <3>1. Calls(spans, sp, {} \cup {}, {} \cup {n}, {} \cup {})
      BY <1>1, <2>2, <2>4, CallsCompose
    <3> QED
      BY <3>1
  <2> HIDE DEF sp
  <2>7. /\ \A k \in 1 .. Len(spans) :
             k \notin {n} /\ (k \in {} => spans[k].kind = "location")
        /\ \A k \in 1 .. Len(sp) :
             k \notin 1 .. Len(spans) => sp[k].kind = "request" /\ sp[k].destroyed
    BY <1>1, <2>4, <2>5
  <2>8. destroy_opentracing_context(r, sp)
    BY <1>4 DEF sp, mid, s
  <2> HIDE DEF n
  <2> QED
    BY <2>6, <2>7, <2>8, BrokenOwned
<1> QED
  BY <1>2, <1>3, <1>4 DEF ChangeBlockFails

-----------------------------------------------------------------------------
(* on_log_request_handler and cleanup_opentracing_context. *)

\* A request that has a trace is given the context its trace is in.
LEMMA FindsGets ==
  ASSUME Inv, NEW c \in live, NEW q \in Requests, HasTrace(c, q)
  PROVE  FindsItsContext(c, q) /\ get_opentracing_context(q) = c
<1>1. /\ find_trace(c, q) \in DOMAIN traces[c]
      /\ traces[c][find_trace(c, q)].request = q
  BY FoundTrace DEF Inv, TypeOK
<1>2. FindsItsContext(c, q)
  BY <1>1, OwnedTrace DEF Inv
<1>3. c # 0 /\ c = CleanupData
  BY OneLive DEF Inv
<1> QED
  BY <1>2, <1>3 DEF FindsItsContext, get_opentracing_context

\* A step that calls nothing on any span, changes no trace and ends no request
\* that has one keeps the invariant.
LEMMA NothingOwned ==
  ASSUME Inv, spans' = spans, live' = live, traces' = traces,
         \A c \in live : \A q \in Requests :
           HasTrace(c, q) => /\ Logged(q)' <=> Logged(q)
                             /\ FindsItsContext(c, q)'
  PROVE  Owned'
<1>1. ASSUME NEW c \in live, NEW j \in DOMAIN traces[c]
      PROVE  ExpansionKept(traces[c][j])'
  <2>1. ExpansionKept(traces[c][j])
    BY OwnedTrace DEF Inv
  <2> QED
    BY <2>1 DEF ExpansionKept
<1> QED
  BY <1>1, SameOwned

\* A location span of a request span that a trace owns is finished, or it is
\* the one that the trace owns.
LEMMA ChildOfOwned ==
  ASSUME Inv, NEW c \in live, NEW i \in DOMAIN traces[c],
         NEW k \in 1 .. Len(spans), spans[k].kind = "location",
         spans[k].parent = traces[c][i].request_span.id
  PROVE  spans[k].finishes > 0 \/ k = traces[c][i].span.id
<1> DEFINE q == traces[c][i].request_span.id
<1>1. /\ spans \in Seq(Span) /\ DOMAIN spans = 1 .. Len(spans) /\ Len(spans) \in Nat
      /\ live = {c}
  BY LenProperties, OneLive DEF Inv, TypeOK, TracingTypeOK
<1>2. q \in 1 .. Len(spans) /\ OwnsItsSpans(traces[c][i])
  BY OwnedTrace DEF Inv
<1>3. ~spans[q].destroyed
  BY <1>2 DEF OwnsItsSpans
<1>4. spans[k].finishes \in Nat
  <2>1. spans[k] \in Span
    BY <1>1
  <2> QED
    BY <2>1 DEF Span
<1>5. CASE spans[k].destroyed
  <2>1. Nested(spans, k)
    BY <1>1, NestedEach DEF Inv, SpanInv
  <2> QED
    BY <1>3, <1>4, <1>5, <2>1 DEF Nested
<1>6. CASE ~spans[k].destroyed
  <2>1. PICK j \in DOMAIN traces[c] : k \in OwnedIds(traces[c][j])
    BY <1>1, <1>6 DEF Inv, SpanInv, NoSpanLeaked, OwnedSpans
  <2>2. OwnsItsSpans(traces[c][j])
    BY OwnedTrace DEF Inv
  <2>3. k = traces[c][j].span.id /\ traces[c][j].request_span.id = q
    BY <1>1, <2>1, <2>2 DEF OwnedIds, OwnsItsSpans
  <2>4. j = i
    <3>1. q \in OwnedIds(traces[c][i]) /\ q \in OwnedIds(traces[c][j]) /\ q # 0
      BY <1>1, <1>2, <2>3 DEF OwnedIds
    <3>2. ASSUME j # i PROVE FALSE
      <4>1. OwnedIds(traces[c][i]) \cap OwnedIds(traces[c][j]) \subseteq {0}
        BY <3>2, OwnedApart DEF Inv
      <4> QED
        BY <3>1, <4>1
    <3> QED
      BY <3>2
  <2> QED
    BY <2>3, <2>4
<1> QED
  BY <1>5, <1>6

\* Logging a request finishes the spans of its trace and keeps the invariant.
LEMMA LogOwned ==
  ASSUME Inv, Onward, NEW r \in Requests, ~Logged(r), Logged(r)', loc[r] \in Locs,
         \A q \in Requests : q # r => (Logged(q)' <=> Logged(q)),
         on_log_request_handler(r)
  PROVE  Owned'
<1> DEFINE g == get_opentracing_context(r)
<1>1. CASE \A c \in live : ~HasTrace(c, r)
  <2>1. /\ spans' = spans /\ live' = live /\ traces' = traces
        /\ \A c \in live : ctx' = [ctx EXCEPT ![r] = c] \/ ctx' = ctx
    <3>1. CASE g \in live
      <4>1. live = {g}
        BY <3>1, OneLive DEF Inv
      <4>2. /\ spans' = spans /\ live' = live /\ traces' = traces
            /\ ctx' = [ctx EXCEPT ![r] = g]
        BY <1>1, <3>1, OneLive DEF on_log_request_handler, Inv
      <4> QED
        BY <4>1, <4>2
    <3>2. CASE g \notin live
      BY <3>2 DEF on_log_request_handler, UseAfterDelete, tracing_vars
    <3> QED
      BY <3>1, <3>2
  <2>2. ASSUME NEW c \in live, NEW q \in Requests, HasTrace(c, q)
        PROVE  /\ Logged(q)' <=> Logged(q)
               /\ FindsItsContext(c, q)'
    <3>1. q # r
      BY <1>1, <2>2
    <3>2. FindsItsContext(c, q)
      BY <2>2, FindsGets
    <3> QED
      BY <2>1, <3>1, <3>2, FindsKept
  <2> QED
    BY <2>1, <2>2, NothingOwned
<1>2. ASSUME NEW c \in live, HasTrace(c, r)
      PROVE  Owned'
  <2>1. PICK i \in DOMAIN traces[c] : i = find_trace(c, r)
    BY <1>2, FoundTrace DEF Inv, TypeOK
  <2>2. PICK t \in Trace : t = traces[c][i]
    BY OwnedTrace DEF Inv
  <2>3. /\ t.request = r
        /\ OwnsItsSpans(t)
        /\ t.request_span.id \in 1 .. Len(spans)
        /\ t.span.id \in 0 .. Len(spans)
        /\ t.span.id # t.request_span.id
    BY <1>2, <2>1, <2>2, FoundTrace, OwnedTrace DEF Inv, TypeOK
  <2>4. g = c /\ live = {c} /\ c # 0
    BY <1>2, FindsGets, OneLive DEF Inv
  <2>5. /\ spans' = on_log_request(spans, t, loc[r])
        /\ ctx' = [ctx EXCEPT ![r] = c]
        /\ traces' = traces
        /\ live' = live
    BY <1>2, <2>1, <2>2, <2>4 DEF on_log_request_handler
  <2> DEFINE F == Left(t) \cup {t.request_span.id}
             T == {active_span(t).id, t.request_span.id}
  <2>6. /\ spans \in Seq(Span)
        /\ Calls(spans, spans', F, {}, T)
        /\ Len(spans') = Len(spans)
    BY <2>3, <2>5, LogEffect DEF Inv, TypeOK, TracingTypeOK
  <2>7. /\ DOMAIN spans = 1 .. Len(spans) /\ DOMAIN spans' = 1 .. Len(spans')
        /\ spans' \in Seq(Span)
        /\ Len(spans) \in Nat
    BY <2>6, LenProperties DEF Calls
  <2>8. OwnsItsSpans(t)'
    <3> DEFINE q == t.request_span.id
               s == t.span.id
    <3>1. /\ q \in DOMAIN spans /\ q \in F
          /\ spans[q].kind = "request"
          /\ spans[q].request = r
          /\ spans[q].finishes = 0
          /\ ~spans[q].destroyed
      BY <2>3 DEF OwnsItsSpans
    <3>2. s # 0 => /\ s \in DOMAIN spans
                   /\ spans[s].kind = "location"
                   /\ spans[s].request = r
                   /\ spans[s].parent = q
                   /\ spans[s].finishes = IF s \in F THEN 0 ELSE 1
                   /\ ~spans[s].destroyed
      BY <2>3 DEF OwnsItsSpans, Left
    <3>3. s = 0 => t.conf \notin TraceLocations
      BY <2>3 DEF OwnsItsSpans
    <3> HIDE DEF F, T
    <3>4. /\ q \in DOMAIN spans'
          /\ spans'[q].kind = "request"
          /\ spans'[q].request = r
          /\ spans'[q].finishes = 1
          /\ ~spans'[q].destroyed
      BY <2>6, <2>7, <3>1 DEF Calls
    <3>5. s # 0 => /\ s \in DOMAIN spans'
                   /\ spans'[s].kind = "location"
                   /\ spans'[s].request = r
                   /\ spans'[s].parent = q
                   /\ spans'[s].finishes = 1
                   /\ ~spans'[s].destroyed
      BY <2>6, <2>7, <3>2 DEF Calls
    <3> QED
      BY <2>3, <3>3, <3>4, <3>5 DEF OwnsItsSpans
  <2>9. ASSUME NEW j \in DOMAIN traces[c]
        PROVE  /\ OwnsItsSpans(traces[c][j])'
               /\ ExpansionKept(traces[c][j])'
               /\ FindsItsContext(c, traces[c][j].request)'
    <3>1. PICK u \in Trace : u = traces[c][j]
      BY OwnedTrace DEF Inv
    <3>2. /\ OwnsItsSpans(u)
          /\ ExpansionKept(u)
          /\ FindsItsContext(c, u.request)
          /\ u.span.id \in 0 .. Len(spans)
          /\ u.request \in Requests
      BY <3>1, OwnedTrace DEF Inv, Trace
    <3>3. OwnsItsSpans(u)'
      <4>1. CASE j = i
        BY <2>2, <2>8, <3>1, <4>1
      <4>2. CASE j # i
        <5>1. OwnedIds(u) \cap OwnedIds(t) \subseteq {0}
          BY <2>2, <3>1, <4>2, OwnedApart DEF Inv
        <5>2. \A id \in OwnedIds(u) : id # 0 => id \notin F \cup {}
          BY <5>1 DEF OwnedIds, Left
        <5>3. u.request # r
          BY <2>2, <2>3, <3>1, <4>2 DEF Inv, OneTracePerRequest
        <5>4. Logged(u.request)' <=> Logged(u.request)
          BY <3>2, <5>3
        <5> HIDE DEF F, T
        <5> QED
          BY <2>6, <3>2, <5>2, <5>4, OwnKept DEF Inv
      <4> QED
        BY <4>1, <4>2
    <3> HIDE DEF F, T
    <3>4. ExpansionKept(u)'
      BY <2>6, <3>2, ExpansionStays DEF Inv
    <3>5. FindsItsContext(c, u.request)'
      BY <2>5, <3>2, FindsKept
    <3>6. traces'[c][j] = u
      BY <2>5, <3>1
    <3> QED
      BY <3>3, <3>4, <3>5, <3>6
  <2>10. LiveTracesOwn'
    BY <2>4, <2>5, <2>9 DEF LiveTracesOwn
  <2>11. NoSpanLeaked'
    <3>1. OwnedSpans(c)' = OwnedSpans(c)
      BY <2>5 DEF OwnedSpans
    <3>2. ASSUME NEW k \in 1 .. Len(spans), ~spans'[k].destroyed
          PROVE  k \in OwnedSpans(c)
      <4>1. ~spans[k].destroyed
        BY <2>6, <3>2 DEF Calls
      <4> QED
        BY <2>4, <2>7, <4>1 DEF Inv, SpanInv, NoSpanLeaked
    <3> QED
      BY <2>4, <2>5, <2>6, <2>7, <3>1, <3>2 DEF NoSpanLeaked
  <2>12. LocationsNested'
    <3>1. ASSUME NEW k \in 1 .. Len(spans)
          PROVE  Nested(spans', k)
      <4>1. Nested(spans, k)
        BY <2>6, NestedEach DEF Inv, SpanInv
      <4>2. ASSUME spans[k].kind = "location", spans[k].parent \in F
            PROVE  spans'[k].finishes > 0
        <5>1. spans[k].parent = t.request_span.id
          BY <2>3, <4>1, <4>2 DEF Nested, OwnsItsSpans, Left
        <5>2. spans[k].finishes > 0 \/ k = t.span.id
          BY <2>2, <4>2, <5>1, ChildOfOwned
        <5>3. k = t.span.id => spans[k].finishes = 1 \/ k \in F
          BY <2>3 DEF OwnsItsSpans, Left
        <5>4. spans[k].finishes \in Nat
          <6>1. spans[k] \in Span
            BY <2>6
          <6> QED
            BY <6>1 DEF Span
        <5> HIDE DEF F, T
        <5> QED
          BY <2>6, <5>2, <5>3, <5>4 DEF Calls
      <4> HIDE DEF F, T
      <4> QED
        BY <2>6, <4>1, <4>2, NestedKept
    <3> QED
      BY <2>6, <2>7, <3>1, NestedEachNext
  <2> QED
    BY <2>10, <2>11, <2>12 DEF Owned
<1> QED
  BY <1>1, <1>2

\* The end of the pool frees every span there is.
LEMMA PoolOwned ==
  ASSUME Inv, DestroyPool
  PROVE  Owned'
<1> DEFINE owned == Contexts \cap {cleanups[i] : i \in DOMAIN cleanups}
           D == UNION {OwnedSpans(c) : c \in owned}
<1>1. /\ spans \in Seq(Span)
      /\ DOMAIN spans = 1 .. Len(spans)
      /\ traces \in Seq(Seq(Trace))
  BY LenProperties DEF Inv, TypeOK, TracingTypeOK
<1>2. live' = {}
  BY NoneLeft DEF Inv, ContextInv
<1>3. live' = live \ owned /\ spans' = DestroySpans(spans, D)
  BY DEF DestroyPool
<1>4. owned \subseteq live
  <2>1. 0 \notin Contexts
    BY <1>1, LenProperties DEF Contexts
  <2>2. DOMAIN cleanups = 1 .. Len(cleanups) /\ Len(cleanups) \in Nat
    BY LenProperties DEF Inv, TypeOK, TracingTypeOK
  <2>3. ASSUME NEW i \in DOMAIN cleanups, cleanups[i] # 0
        PROVE  cleanups[i] \in live
    <3>1. i = 1
      BY <2>2, <2>3 DEF Inv, ContextInv, NewestEntryOwns
    <3>2. cleanups[1] = CleanupData
      BY <3>1, <2>2, HeadTailProperties DEF CleanupData, Inv, TypeOK, TracingTypeOK
    <3> QED
      BY <2>3, <3>1, <3>2 DEF Inv, ContextInv, NewestEntryOwns
  <2> QED
    BY <2>1, <2>3
<1>5. Calls(spans, spans', {}, D, {}) /\ Len(spans') = Len(spans)
  BY <1>1, <1>3, DestroySpansCall
<1>6. spans' \in Seq(Span) /\ DOMAIN spans' = 1 .. Len(spans')
  BY <1>5, LenProperties DEF Calls
<1>7. ASSUME NEW k \in 1 .. Len(spans)
      PROVE  /\ spans'[k].destroyed
             /\ Nested(spans', k)
  <2>1. spans[k].destroyed \/ k \in D
    BY <1>1, <1>2, <1>3 DEF Inv, SpanInv, NoSpanLeaked
  <2>2. spans[k].kind = "location" /\ k \in D => spans[k].parent \in D
    BY <1>4, OwnedParent
  <2>3. Nested(spans, k)
    BY <1>1, NestedEach DEF Inv, SpanInv
  <2> HIDE DEF D
  <2>4. Nested(spans', k)
    BY <1>1, <1>5, <2>2, <2>3, NestedKept
  <2> QED
    BY <1>5, <2>1, <2>4 DEF Calls
<1>8. LiveTracesOwn' /\ NoSpanLeaked'
  BY <1>2, <1>5, <1>6, <1>7 DEF LiveTracesOwn, NoSpanLeaked
<1>9. LocationsNested'
  BY <1>5, <1>6, <1>7, NestedEachNext
<1> QED
  BY <1>8, <1>9 DEF Owned

-----------------------------------------------------------------------------
(* The handlers, and nginx's steps. *)

\* Entering a block keeps the invariant, whatever fails.
LEMMA EnterOwned ==
  ASSUME Inv, NEW r \in Requests, NEW l \in Locs, EnterBlock(r, l)
  PROVE  Owned'
<1>1. /\ phase[r] = "find"
      /\ phase' = [phase EXCEPT ![r] = "running"]
      /\ loc' = [loc EXCEPT ![r] = l]
      /\ internal' = internal
      /\ on_enter_block(r, l)
      /\ phase \in [Requests -> Phases]
      /\ loc \in [Requests -> Locs]
  BY DEF EnterBlock, Inv, TypeOK, NginxTypeOK
<1>2. NoneEnds /\ ~Logged(r) /\ phase[r] \notin {"unborn", "freed"}
  BY <1>1 DEF NoneEnds, Onward, Logged
<1> DEFINE c == get_opentracing_context(r)
<1>3. ASSUME spans' = spans, live' = live, traces' = traces, ctx' = ctx
      PROVE  Owned'
  <2>1. ASSUME NEW d \in live, NEW q \in Requests, HasTrace(d, q)
        PROVE  /\ Logged(q)' <=> Logged(q)
               /\ FindsItsContext(d, q)'
    <3>1. FindsItsContext(d, q)
      BY <2>1, FindsGets
    <3> QED
      BY <1>2, <1>3, <3>1, FindsKept DEF NoneEnds
  <2> QED
    BY <1>3, <2>1, NothingOwned
<1>4. CASE UNCHANGED tracing_vars \/ UseAfterDelete
  BY <1>3, <1>4 DEF tracing_vars, UseAfterDelete
<1>5. CASE c = 0 /\ (NewContext(r, l) \/ NewContextFails(r, l))
  <2>1. CleanupData = 0
    BY <1>1, <1>5, NothingToRecover DEF Inv
  <2>2. live = {}
    BY <2>1 DEF Inv, ContextInv, NewestEntryOwns
  <2> QED
    BY <1>2, <1>5, <2>2, NewContextOwned, NewContextFailsOwned
<1>6. CASE c \in live /\ ChangeBlock(r, l, c)
  BY <1>2, <1>6, ChangeOwned
<1>7. CASE c \in live /\ AddTrace(r, l, c)
  BY <1>2, <1>7, AddTraceOwned
<1>8. CASE c \in live /\ ChangeBlockFails(r, l, c)
  BY <1>8, ChangeFailsOwned
<1> QED
  BY <1>1, <1>4, <1>5, <1>6, <1>7, <1>8 DEF on_enter_block

\* Reading a variable may replace the expansion of the trace it finds by the
\* active span's, and changes nothing else of it.
LEMMA VariableOwned ==
  ASSUME Inv, NEW r \in Requests,
         \/ expand_opentracing_context_variable(r)
         \/ expand_opentracing_binary_context_variable(r)
  PROVE  Owned'
<1> DEFINE g == get_opentracing_context(r)
<1>1. NoneEnds /\ spans' = spans /\ live' = live
  BY DEF expand_opentracing_context_variable, nginx_vars, Logged, NoneEnds, Onward,
         expand_opentracing_binary_context_variable, UseAfterDelete
<1>2. ctx' = ctx \/ (g \in live /\ ctx' = [ctx EXCEPT ![r] = g])
  BY DEF expand_opentracing_context_variable, UseAfterDelete,
         expand_opentracing_binary_context_variable
<1>3. ASSUME NEW d \in live, NEW q \in Requests, HasTrace(d, q)
      PROVE  /\ Logged(q)' <=> Logged(q)
             /\ FindsItsContext(d, q)'
  <2>1. FindsItsContext(d, q)
    BY <1>3, FindsGets
  <2>2. ctx' = ctx \/ ctx' = [ctx EXCEPT ![r] = d]
    BY <1>2, OneLive DEF Inv
  <2> QED
    BY <1>1, <2>1, <2>2, FindsKept DEF NoneEnds
<1>4. CASE traces' = traces
  BY <1>1, <1>3, <1>4, NothingOwned
<1>5. CASE /\ g \in live
           /\ HasTrace(g, r)
           /\ \E injected \in BOOLEAN :
                traces' = [traces EXCEPT ![g][find_trace(g, r)] =
                             lookup_span_context_value(@, injected)]
  <2>1. PICK c \in live : c = g
    BY <1>5
  <2>2. PICK i \in DOMAIN traces[c] : i = find_trace(c, r)
    BY <1>5, <2>1, FoundTrace DEF Inv, TypeOK
  <2>3. PICK t \in Trace : t = traces[c][i]
    BY OwnedTrace DEF Inv
  <2>4. PICK injected \in BOOLEAN :
          traces' = [traces EXCEPT ![c][i] = lookup_span_context_value(@, injected)]
    BY <1>5, <2>1, <2>2
  <2>5. lookup_span_context_value(t, injected) \in Trace
    BY LookupType
  <2>6. PICK e \in Trace : e = lookup_span_context_value(t, injected)
    BY <2>5
  <2>7. /\ traces \in Seq(Seq(Trace))
        /\ live = {c}
        /\ c \in 1 .. Len(traces)
        /\ OwnsItsSpans(t)
        /\ ExpansionKept(t)
    BY <2>3, OwnedTrace, OneLive DEF Inv, TypeOK, TracingTypeOK
  <2>8. traces' = [traces EXCEPT ![c][i] = e]
    BY <2>3, <2>4, <2>6
  <2>9. /\ DOMAIN traces'[c] = DOMAIN traces[c]
        /\ \A j \in DOMAIN traces[c] :
             traces'[c][j] = IF j = i THEN e ELSE traces[c][j]
    BY <2>7, <2>8, UpdateTrace
  <2>10. /\ e.request = t.request
         /\ e.conf = t.conf
         /\ e.request_span = t.request_span
         /\ e.span = t.span
         /\ \/ e.values_span = t.values_span /\ e.expansion = t.expansion
            \/ /\ e.values_span = active_span(t).addr
               /\ e.expansion \in {0, active_span(t).id}
    BY <2>6 DEF lookup_span_context_value, Trace
  <2>11. ExpansionKept(e)'
    <3>1. ExpansionKept(t)'
      BY <1>1, <2>7 DEF ExpansionKept
    <3>2. CASE e.values_span = t.values_span /\ e.expansion = t.expansion
      BY <2>10, <3>1, <3>2 DEF ExpansionKept
    <3>3. CASE /\ e.values_span = active_span(t).addr
               /\ e.expansion \in {0, active_span(t).id}
      BY <2>7, <2>10, <3>3 DEF ExpansionKept, active_span
    <3> QED
      BY <2>10, <3>2, <3>3
  <2>12. ASSUME NEW j \in DOMAIN traces[c]
         PROVE  /\ traces'[c][j].request = traces[c][j].request
                /\ traces'[c][j].conf = traces[c][j].conf
                /\ traces'[c][j].request_span = traces[c][j].request_span
                /\ traces'[c][j].span = traces[c][j].span
                /\ ExpansionKept(traces[c][j])'
    <3>1. PICK u \in Trace : u = traces[c][j] /\ ExpansionKept(u)
      BY OwnedTrace DEF Inv
    <3>2. CASE j = i
      <4>1. traces'[c][j] = e /\ u = t
        BY <2>3, <2>9, <3>1, <3>2
      <4> QED
        BY <2>10, <2>11, <3>1, <4>1
    <3>3. CASE j # i
      <4>1. traces'[c][j] = u
        BY <2>9, <3>1, <3>3
      <4>2. ExpansionKept(u)'
        BY <1>1, <3>1 DEF ExpansionKept
      <4> QED
        BY <3>1, <4>1, <4>2
    <3> QED
      BY <3>2, <3>3
  <2>13. \A d \in live :
           /\ DOMAIN traces'[d] = DOMAIN traces[d]
           /\ \A j \in DOMAIN traces[d] :
                /\ traces'[d][j].request = traces[d][j].request
                /\ traces'[d][j].conf = traces[d][j].conf
                /\ traces'[d][j].request_span = traces[d][j].request_span
                /\ traces'[d][j].span = traces[d][j].span
                /\ ExpansionKept(traces[d][j])'
    BY <2>7, <2>9, <2>12
  <2> QED
    BY <1>1, <1>3, <2>13, SameOwned
<1> QED
  BY <1>4, <1>5 DEF expand_opentracing_context_variable, UseAfterDelete,
                    expand_opentracing_binary_context_variable

\* A request that nginx moves to another URI or creates keeps its trace and
\* still gets the context it is in.
LEMMA MovedOwned ==
  ASSUME Inv, NEW r \in Requests,
         Rewrite(r) \/ InternalRedirect(r) \/ CreateSubrequest(r)
  PROVE  Owned'
<1>1. /\ phase \in [Requests -> Phases]
      /\ internal \in [Requests -> BOOLEAN]
      /\ loc \in [Requests -> Locs]
      /\ ctx \in [Requests -> 0 .. Len(traces)]
      /\ Subs \subseteq Requests
  BY DEF Inv, TypeOK, NginxTypeOK, TracingTypeOK, Subs
<1>2. /\ spans' = spans /\ live' = live /\ traces' = traces
      /\ phase[r] # "logged"
      /\ phase' = [phase EXCEPT ![r] = "find"]
      /\ internal' = [internal EXCEPT ![r] = TRUE]
      /\ \A q \in Requests : q # r => loc'[q] = loc[q]
  BY <1>1 DEF Rewrite, InternalRedirect, CreateSubrequest, FindAgain, Processing,
              tracing_vars
<1>3. ctx' = ctx \/ ctx' = [ctx EXCEPT ![r] = 0]
  BY DEF Rewrite, InternalRedirect, CreateSubrequest, tracing_vars
<1>4. ASSUME NEW c \in live, NEW q \in Requests, HasTrace(c, q)
      PROVE  /\ Logged(q)' <=> Logged(q)
             /\ FindsItsContext(c, q)'
  <2>1. FindsItsContext(c, q)
    BY <1>4, FindsGets
  <2>2. FindsItsContext(c, q)'
    BY <1>1, <1>2, <1>3, <2>1 DEF FindsItsContext
  <2>3. Logged(q)' <=> Logged(q)
    BY <1>1, <1>2 DEF Logged
  <2> QED
    BY <2>2, <2>3
<1> QED
  BY <1>2, <1>4, NothingOwned

\* The end of a request keeps the invariant, whether it is logged or not.
LEMMA FinalizedOwned ==
  ASSUME Inv, NEW r \in Requests,
         \/ FinalizeSubrequest(r)
         \/ r = Main /\ (FinalizeMain \/ TerminateMain)
  PROVE  Owned'
<1>1. /\ phase \in [Requests -> Phases]
      /\ loc \in [Requests -> Locs]
      /\ Main \in Requests /\ Main \notin Subs
  BY RequestsAssumption DEF Inv, TypeOK, NginxTypeOK, Subs
<1>2. /\ Processing(r)
      /\ internal' = internal /\ loc' = loc
      /\ phase'[r] = "logged"
      /\ \A q \in Requests : q # r =>
           \/ phase'[q] = phase[q]
           \/ Processing(q) /\ phase'[q] = "terminated"
  BY <1>1 DEF FinalizeSubrequest, FinalizeMain, TerminateMain
<1>3. Onward /\ ~Logged(r) /\ \A q \in Requests : q # r => (Logged(q)' <=> Logged(q))
  BY <1>1, <1>2 DEF Onward, Logged, Processing
<1>4. CASE (r = Main \/ loc[r] \in LogSubrequest) /\ on_log_request_handler(r)
  <2>1. Logged(r)'
    BY <1>2, <1>4 DEF Logged
  <2> QED
    BY <1>1, <1>3, <1>4, <2>1, LogOwned
<1>5. CASE r # Main /\ loc[r] \notin LogSubrequest /\ UNCHANGED tracing_vars
  <2>1. ~Logged(r)'
    BY <1>2, <1>5 DEF Logged
  <2>2. ASSUME NEW c \in live, NEW q \in Requests, HasTrace(c, q)
        PROVE  /\ Logged(q)' <=> Logged(q)
               /\ FindsItsContext(c, q)'
    <3>1. FindsItsContext(c, q) /\ ctx' = ctx
      BY <1>5, <2>2, FindsGets DEF tracing_vars
    <3> QED
      BY <1>3, <2>1, <3>1, FindsKept
  <2> QED
    BY <1>5, <2>2, NothingOwned DEF tracing_vars
<1> QED
  BY <1>1, <1>4, <1>5 DEF FinalizeSubrequest, FinalizeMain, TerminateMain

\* A subrequest is created by a request that is processed, and the main
\* request ends last.
LEMMA MainOutlives ==
  ASSUME TypeOK, MainOutlivesSubs, Next
  PROVE  MainOutlivesSubs'
<1>1. /\ phase \in [Requests -> Phases]
      /\ Main \in Requests /\ Main \notin Subs /\ Subs \subseteq Requests
  BY RequestsAssumption DEF TypeOK, NginxTypeOK, Subs
<1>2. ASSUME NEW r \in Requests, Processing(r) \/ CreateSubrequest(r),
             \/ phase' = [phase EXCEPT ![r] = "find"]
             \/ phase' = [phase EXCEPT ![r] = "running"]
      PROVE  MainOutlivesSubs'
  <2>1. Processing(r) => Processing(Main)
    BY <1>1 DEF MainOutlivesSubs, Subs
  <2>2. CreateSubrequest(r) => Processing(Main)
    BY <1>1 DEF CreateSubrequest, MainOutlivesSubs, Processing, Subs
  <2>3. Processing(Main)
    BY <1>2, <2>1, <2>2
  <2> QED
    BY <1>1, <1>2, <2>3 DEF MainOutlivesSubs, Processing
<1>3. ASSUME NEW r \in Requests, Rewrite(r) \/ InternalRedirect(r)
      PROVE  MainOutlivesSubs'
  BY <1>2, <1>3 DEF Rewrite, InternalRedirect, FindAgain
<1>4. ASSUME NEW r \in Requests, CreateSubrequest(r)
      PROVE  MainOutlivesSubs'
  BY <1>2, <1>4 DEF CreateSubrequest
<1>5. ASSUME NEW r \in Requests, NEW l \in Locs, EnterBlock(r, l)
      PROVE  MainOutlivesSubs'
  BY <1>2, <1>5 DEF EnterBlock, Processing
<1>6. ASSUME NEW r \in Requests,
             \/ expand_opentracing_context_variable(r)
             \/ expand_opentracing_binary_context_variable(r)
      PROVE  MainOutlivesSubs'
  BY <1>6 DEF expand_opentracing_context_variable, nginx_vars, MainOutlivesSubs,
              expand_opentracing_binary_context_variable, Processing
<1>7. ASSUME NEW r \in Requests, FinalizeSubrequest(r)
      PROVE  MainOutlivesSubs'
  BY <1>1, <1>7 DEF FinalizeSubrequest, MainOutlivesSubs, Processing
<1>8. CASE FinalizeMain
  BY <1>1, <1>8 DEF FinalizeMain, MainOutlivesSubs, Processing
<1>9. CASE TerminateMain
  BY <1>1, <1>9 DEF TerminateMain, MainOutlivesSubs, Processing
<1>10. CASE DestroyPool
  BY <1>1, <1>10 DEF DestroyPool, MainOutlivesSubs, Processing
<1> QED
  BY <1>3, <1>4, <1>5, <1>6, <1>7, <1>8, <1>9, <1>10 DEF Next

\* Every step keeps the spans owned.
LEMMA SpanStep ==
  ASSUME Inv, Next
  PROVE  SpanInv'
<1>1. MainOutlivesSubs'
  BY MainOutlives DEF Inv, SpanInv
<1>2. Owned'
  BY RequestsAssumption, EnterOwned, VariableOwned, MovedOwned, FinalizedOwned,
     PoolOwned
  DEF Next
<1> QED
  BY <1>1, <1>2 DEF Owned, SpanInv

-----------------------------------------------------------------------------
(* What holds in every state. *)

\* Every span not freed is owned by one trace of the one live context, and is
\* open exactly while that trace's handlers may still act on it, whatever is
\* redirected, created, terminated or fails, and in whatever order.
THEOREM SpanInvariant == Spec => []SpanInv
<1>1. Init => SpanInv
  BY RequestsAssumption
  DEF Init, SpanInv, LiveTracesOwn, NoSpanLeaked, LocationsNested, MainOutlivesSubs,
      Subs, Processing
<1>2. TypeOK /\ ContextInv /\ OneTracePerRequest /\ SpanInv /\ [Next]_vars => SpanInv'
  <2> SUFFICES ASSUME Inv, [Next]_vars PROVE SpanInv'
    BY DEF Inv
  <2>1. CASE UNCHANGED vars
    <3>1. /\ live' = live /\ traces' = traces /\ spans' = spans
          /\ phase' = phase /\ ctx' = ctx /\ internal' = internal /\ loc' = loc
      BY <2>1 DEF vars
    <3>2. LiveTracesOwn'
      BY <3>1 DEF Inv, SpanInv, LiveTracesOwn, OwnsItsSpans, ExpansionKept,
                  FindsItsContext, Logged
    <3>3. NoSpanLeaked'
      BY <3>1 DEF Inv, SpanInv, NoSpanLeaked, OwnedSpans
    <3>4. LocationsNested'
      BY <3>1 DEF Inv, SpanInv, LocationsNested
    <3>5. MainOutlivesSubs'
      BY <3>1 DEF Inv, SpanInv, MainOutlivesSubs, Processing
    <3> QED
      BY <3>2, <3>3, <3>4, <3>5 DEF SpanInv
  <2> QED
    BY <2>1, SpanStep
<1> QED
  BY <1>1, <1>2, TypeCorrect, ContextInvariant, OneTrace, PTL DEF Spec

\* A request being processed that has a trace has an active span and a request
\* span, both of them its own and open: active_span (request_tracing.cpp)
\* never hands a finished or freed span to Inject or to a child.
THEOREM ActiveOpen == Spec => []ActiveSpanOpen
<1>1. TypeOK /\ SpanInv => ActiveSpanOpen
  <2> SUFFICES ASSUME TypeOK, SpanInv, NEW c \in live, NEW i \in DOMAIN traces[c],
                      NEW t, t = traces[c][i], Processing(t.request)
               PROVE  \A id \in {active_span(t).id, t.request_span.id} :
                        /\ id # 0
                        /\ spans[id].request = t.request
                        /\ spans[id].finishes = 0
                        /\ ~spans[id].destroyed
    BY DEF ActiveSpanOpen
  <2>1. OwnsItsSpans(t) /\ t.request_span.id # 0
    BY OwnedTrace
  <2>2. ~Logged(t.request)
    BY DEF Logged, Processing
  <2> QED
    BY <2>1, <2>2 DEF OwnsItsSpans, active_span
<1> QED
  BY <1>1, TypeCorrect, SpanInvariant, PTL

\* When a request's log phase has run, each of its spans is finished, or was
\* freed with a context that broke (on_log_request, request_tracing.cpp).
THEOREM LoggedFinished == Spec => []FinishedWhenLogged
<1>1. TypeOK /\ SpanInv => FinishedWhenLogged
  <2> SUFFICES ASSUME TypeOK, SpanInv, NEW k \in DOMAIN spans,
                      Logged(spans[k].request), ~spans[k].destroyed
               PROVE  spans[k].finishes = 1
    BY DEF FinishedWhenLogged
  <2>1. PICK c \in live : k \in OwnedSpans(c)
    BY DEF SpanInv, NoSpanLeaked
  <2>2. PICK i \in DOMAIN traces[c] : k \in OwnedIds(traces[c][i])
    BY <2>1 DEF OwnedSpans
  <2>3. OwnsItsSpans(traces[c][i])
    BY OwnedTrace
  <2>4. k # 0
    BY LenProperties DEF TypeOK, TracingTypeOK
  <2> QED
    BY <2>2, <2>3, <2>4 DEF OwnsItsSpans, OwnedIds
<1> QED
  BY <1>1, TypeCorrect, SpanInvariant, PTL

\* A request span is not finished before its location spans are: the log phase
\* exits the last block first (on_log_request, request_tracing.cpp).
THEOREM LocationsFirst == Spec => []LocationsFinishFirst
<1>1. SpanInv => LocationsFinishFirst
  BY DEF SpanInv, LocationsNested, LocationsFinishFirst
<1> QED
  BY <1>1, SpanInvariant, PTL

\* The querier takes only a span at least two location blocks back for the
\* active one: on_change_block starts the new span before it frees the old one,
\* so that the two never have the same address.
THEOREM StaleIsOld == Spec => []StaleExpansionIsOld
<1>1. TypeOK /\ SpanInv => StaleExpansionIsOld
  <2> SUFFICES ASSUME TypeOK, SpanInv, NEW c \in live, NEW i \in DOMAIN traces[c],
                      NEW t, t = traces[c][i],
                      t.values_span = active_span(t).addr,
                      t.expansion \notin {0, active_span(t).id}
               PROVE  \E k \in t.expansion + 1 .. active_span(t).id - 1 :
                        /\ spans[k].kind = "location"
                        /\ spans[k].request = t.request
    BY DEF StaleExpansionIsOld
  <2>1. OwnsItsSpans(t) /\ ExpansionKept(t)
    BY OwnedTrace
  <2>2. t.span.id # 0 => t.span.addr # t.request_span.addr
    BY <2>1 DEF ExpansionKept
  <2>3. CASE t.conf \in TraceLocations
    <3>1. active_span(t) = t.span /\ t.span.id # 0
      BY <2>1, <2>3 DEF active_span, OwnsItsSpans
    <3> QED
      BY <2>1, <2>2, <3>1 DEF ExpansionKept
  <2>4. CASE t.conf \notin TraceLocations
    <3>1. active_span(t) = t.request_span
      BY <2>4 DEF active_span
    <3> QED
      BY <2>1, <2>2, <3>1 DEF ExpansionKept
  <2> QED
    BY <2>3, <2>4
<1> QED
  BY <1>1, TypeCorrect, SpanInvariant, PTL

=============================================================================
