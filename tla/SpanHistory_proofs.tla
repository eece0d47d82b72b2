------------------------- MODULE SpanHistory_proofs -------------------------
(***************************************************************************)
(* Theorems about the steps of TracingContext, for any requests,           *)
(* locations, directives, addresses, bounds and faults:                    *)
(*                                                                         *)
(*   Invariant       the invariants of a state hold together;              *)
(*   ClosedFinal     a span finished or freed is not acted on again;       *)
(*   ParentOpen      a span is started below an open one;                  *)
(*   Abandoned       as long as every span can be started, only spans that *)
(*                   were cut off are freed unfinished;                    *)
(*   OneTree         as long as contexts can be made, the spans of a       *)
(*                   client request are one tree;                          *)
(*   AlwaysRooted    what requests are traced below is the newest root;    *)
(*   ImplementsTree  every step is one of the tree of TraceTree, or none.  *)
(***************************************************************************)
EXTENDS SpanOwnership_proofs

-----------------------------------------------------------------------------
(* What a step does to the spans. *)

\* A span k of sp is not the child of a closed span of the main request or of
\* its own request.
Hangs(sp, k) ==
    LET p == sp[k].parent
    IN  p > 0 /\ sp[p].request \in {Main, sp[k].request} => sp[p].finishes = 0

\* A span that may be freed unfinished: a subrequest's that was cut off or
\* ended where subrequests are not logged.
CutOff(k) ==
    LET r == spans[k].request
    IN  r # Main /\ (phase[r] = "terminated" \/ loc[r] \notin LogSubrequest)

\* The calls of one step: only open spans are named, tagged and finished, and
\* only below open ones are new ones started. As long as every span can be
\* started, an unfinished one is freed only if it was cut off.
Acts(F, D, T) ==
    /\ Calls(spans, spans', F, D, T)
    /\ \A k \in 1 .. Len(spans) :
         k \in F \cup T => spans[k].finishes = 0 /\ ~spans[k].destroyed
    /\ \A k \in 1 .. Len(spans') : k \notin 1 .. Len(spans) => Hangs(spans', k)
    /\ EverySpanStarts =>
         \A k \in 1 .. Len(spans) :
           /\ k \in D /\ k \notin F
           /\ spans[k].finishes = 0 /\ ~spans[k].destroyed
           => CutOff(k)

\* Freeing spans adds nothing to the calls made before but that.
LEMMA DestroyActs ==
  ASSUME spans \in Seq(Span), NEW mid, NEW ids, NEW F, NEW D, NEW T,
         Calls(spans, mid, F, D, T), spans' = DestroySpans(mid, ids),
         \A k \in 1 .. Len(spans) :
           k \in F \cup T => spans[k].finishes = 0 /\ ~spans[k].destroyed,
         \A k \in 1 .. Len(mid) : k \notin 1 .. Len(spans) =>
           /\ spans'[k].parent = mid[k].parent
           /\ mid[k].parent > 0 => mid[k].parent \in 1 .. Len(mid)
           /\ Hangs(mid, k),
         EverySpanStarts =>
           \A k \in 1 .. Len(spans) :
             /\ k \in D \cup ids /\ k \notin F
             /\ spans[k].finishes = 0 /\ ~spans[k].destroyed
             => CutOff(k)
  PROVE  Acts(F, D \cup ids, T)
<1>1. mid \in Seq(Span) /\ Len(mid) \in Nat /\ Len(spans) \in Nat
  BY LenProperties DEF Calls
<1>2. Calls(mid, spans', {}, ids, {}) /\ Len(spans') = Len(mid)
  BY <1>1, DestroySpansCall
<1>3. Calls(spans, spans', F, D \cup ids, T)
  <2>1. Calls(spans, spans', F \cup {}, D \cup ids, T \cup {})
    BY <1>2, CallsCompose
  <2> QED
    BY <2>1
<1>4. ASSUME NEW k \in 1 .. Len(spans'), k \notin 1 .. Len(spans)
      PROVE  Hangs(spans', k)
  <2>1. k \in 1 .. Len(mid)
    BY <1>2
  <2>2. Hangs(mid, k) /\ (mid[k].parent > 0 => mid[k].parent \in 1 .. Len(mid))
    BY <1>4, <2>1
  <2> QED
    BY <1>2, <2>1, <2>2 DEF Calls, Hangs
<1> QED
  BY <1>3, <1>4 DEF Acts

\* The spans a constructor starts hang from open ones, if the span it is given
\* as their parent is open.
LEMMA StartHangs ==
  ASSUME spans \in Seq(Span), NEW r \in Requests, NEW l \in Locs,
         NEW parent \in Nat,
         parent # 0 => /\ parent \in 1 .. Len(spans)
                       /\ spans[parent].request \in {Main, r} =>
                            spans[parent].finishes = 0,
         NEW mid, mid = StartTrace(spans, r, l, parent)
  PROVE  /\ Calls(spans, mid, {}, {}, {})
         /\ \A k \in 1 .. Len(mid) : k \notin 1 .. Len(spans) =>
              /\ mid[k].parent > 0 => mid[k].parent \in 1 .. Len(mid)
              /\ Hangs(mid, k)
<1> DEFINE n == Len(spans) + 1
<1>1. /\ Calls(spans, mid, {}, {}, {})
      /\ Len(mid) = IF l \in TraceLocations THEN Len(spans) + 2 ELSE n
      /\ mid[n] = RequestSpan(r, l, parent)
      /\ l \in TraceLocations => mid[Len(spans) + 2] = LocationSpan(r, l, n)
  BY StartEffect
<1>2. Len(spans) \in Nat
  BY LenProperties
<1>3. /\ mid[n].parent \in {parent, 0, -1}
      /\ mid[n].request = r
      /\ mid[n].finishes = 0
      /\ l \in TraceLocations => mid[Len(spans) + 2].parent = n
  BY <1>1 DEF RequestSpan, LocationSpan, NewSpan, ParentOf, extract_span_context,
              None, Remote
<1>4. parent # 0 =>
        /\ mid[parent].request = spans[parent].request
        /\ mid[parent].finishes = spans[parent].finishes
        /\ parent \in 1 .. Len(mid)
  BY <1>1, <1>2 DEF Calls
<1>5. ASSUME NEW k \in 1 .. Len(mid), k \notin 1 .. Len(spans)
      PROVE  /\ mid[k].parent > 0 => mid[k].parent \in 1 .. Len(mid)
             /\ Hangs(mid, k)
  <2>1. k = n \/ (l \in TraceLocations /\ k = Len(spans) + 2)
    BY <1>1, <1>2, <1>5
  <2>2. CASE k = n
    BY <1>3, <1>4, <2>2 DEF Hangs
  <2>3. CASE l \in TraceLocations /\ k = Len(spans) + 2
    <3>1. mid[k].parent = n /\ n \in 1 .. Len(mid)
      BY <1>1, <1>2, <1>3, <2>3
    <3> QED
      BY <1>3, <3>1 DEF Hangs
  <2> QED
    BY <2>1, <2>2, <2>3
<1> QED
  BY <1>1, <1>5

-----------------------------------------------------------------------------
(* on_enter_block. *)

\* The first trace of a context, whose request span is the root of the others.
LEMMA FirstTrace ==
  ASSUME Inv, NEW c \in live
  PROVE  /\ 1 \in DOMAIN traces[c]
         /\ traces[c][1].request_span.id \in 1 .. Len(spans)
         /\ OwnsItsSpans(traces[c][1])
<1>1. traces[c] \in Seq(Trace) /\ traces[c] # <<>>
  BY RootTrace DEF Inv, TypeOK, TracingInv, LiveTraces
<1>2. 1 \in DOMAIN traces[c]
  BY <1>1, EmptySeq, LenProperties
<1> QED
  BY <1>2, OwnedTrace DEF Inv

\* The request span that a request without a trace becomes a child of is
\* another request's, and open if that is the main request.
LEMMA RootOpen ==
  ASSUME Inv, NEW r \in Requests, NEW c \in live, phase[r] = "find",
         ~HasTrace(c, r), NEW root, root = traces[c][1].request_span.id
  PROVE  /\ root \in 1 .. Len(spans)
         /\ spans[root].kind = "request"
         /\ spans[root].request # r
         /\ ~spans[root].destroyed
         /\ spans[root].request = Main => spans[root].finishes = 0
<1>1. 1 \in DOMAIN traces[c]
  BY FirstTrace
<1>2. root \in 1 .. Len(spans) /\ OwnsItsSpans(traces[c][1])
  BY FirstTrace
<1>3. traces[c][1].request # r
  BY <1>1 DEF HasTrace, TracesOf
<1>4. ~Logged(Main)
  <2>1. Processing(Main)
    BY DEF Inv, SpanInv, MainOutlivesSubs, Processing, Subs
  <2> QED
    BY <2>1 DEF Logged, Processing
<1> QED
  BY <1>2, <1>3, <1>4 DEF OwnsItsSpans

\* A trace of a request whose log phase has not run has an open active span.
LEMMA ActiveIsOpen ==
  ASSUME Inv, NEW c \in live, NEW i \in DOMAIN traces[c],
         ~Logged(traces[c][i].request), NEW t, t = traces[c][i],
         NEW k, k \in Left(t) \cup {active_span(t).id, t.request_span.id}
  PROVE  /\ spans[k].finishes = 0
         /\ ~spans[k].destroyed
         /\ k \in Left(t) => spans[k].kind = "location"
<1>1. OwnsItsSpans(t)
  BY OwnedTrace DEF Inv
<1> QED
  BY <1>1 DEF OwnsItsSpans, Left, active_span

\* Making a context starts spans and acts on no other, also when it fails.
LEMMA NewContextActs ==
  ASSUME Inv, NEW r \in Requests, NEW l \in Locs,
         NewContext(r, l) \/ NewContextFails(r, l)
  PROVE  \E F, D, T : Acts(F, D, T)
<1> DEFINE n == Len(spans) + 1
<1>1. spans \in Seq(Span) /\ Len(spans) \in Nat /\ None = 0 /\ n \in Nat
  BY LenProperties DEF Inv, TypeOK, TracingTypeOK, None
<1>2. PICK mid : mid = StartTrace(spans, r, l, None)
  OBVIOUS
<1>3. /\ Calls(spans, mid, {}, {}, {})
      /\ \A k \in 1 .. Len(mid) : k \notin 1 .. Len(spans) =>
           /\ mid[k].parent > 0 => mid[k].parent \in 1 .. Len(mid)
           /\ Hangs(mid, k)
  BY <1>1, <1>2, StartHangs
<1>4. CASE spans' = mid
  <2>1. Acts({}, {}, {})
    BY <1>3, <1>4 DEF Acts
  <2> QED
    BY <2>1
<1>5. CASE UNCHANGED spans
  <2>1. Acts({}, {}, {})
    BY <1>1, <1>5, NoCall DEF Acts
  <2> QED
    BY <2>1
<1>6. CASE spans' = DestroySpans(mid, n .. Len(spans) + 2)
  <2>1. PICK ids : ids = n .. Len(spans) + 2
    OBVIOUS
  <2>2. \A k \in 1 .. Len(spans) : k \notin {} \cup ids
    BY <1>1, <2>1
  <2>3. \A k \in 1 .. Len(mid) : spans'[k].parent = mid[k].parent
    BY <1>3, <1>6, DestroySpansCall DEF Calls
  <2>4. Acts({}, {} \cup ids, {})
    BY <1>1, <1>3, <1>6, <2>1, <2>2, <2>3, DestroyActs
  <2> QED
    BY <2>4
<1>7. CASE spans' = DestroySpans(Append(spans, RequestSpan(r, l, None)), {n})
  <2> DEFINE s == RequestSpan(r, l, None)
  <2>1. PICK one : one = Append(spans, s)
    OBVIOUS
  <2>2. s \in Span /\ s.parent \in {0, -1}
    BY <1>1, StartedSpanType
    DEF RequestSpan, NewSpan, ParentOf, extract_span_context, None, Remote
  <2>3. /\ Calls(spans, one, {}, {}, {})
        /\ Len(one) = n
        /\ one[n] = s
    BY <1>1, <2>1, <2>2, StartCall
  <2> HIDE DEF s
  <2>4. \A k \in 1 .. Len(one) : k \notin 1 .. Len(spans) =>
          ~(one[k].parent > 0) /\ Hangs(one, k)
    BY <1>1, <2>2, <2>3 DEF Hangs
  <2>5. \A k \in 1 .. Len(spans) : k \notin {} \cup {n}
    BY <1>1
  <2>6. spans' = DestroySpans(one, {n})
    BY <1>7, <2>1 DEF s
  <2>7. \A k \in 1 .. Len(one) : spans'[k].parent = one[k].parent
    BY <2>3, <2>6, DestroySpansCall DEF Calls
  <2> HIDE DEF n
  <2>8. Acts({}, {} \cup {n}, {})
    BY <1>1, <2>3, <2>4, <2>5, <2>6, <2>7, DestroyActs
  <2> QED
    BY <2>8
<1> QED
  BY <1>2, <1>4, <1>5, <1>6, <1>7 DEF NewContext, NewContextFails

\* Changing the block acts on the active span of the request's trace, and frees
\* none unfinished.
LEMMA ChangeActs ==
  ASSUME Inv, NEW r \in Requests, NEW l \in Locs, NEW c \in live,
         phase[r] = "find", ChangeBlock(r, l, c)
  PROVE  \E F, D, T : Acts(F, D, T)
<1>1. PICK i \in DOMAIN traces[c], a \in FreeAddrs : Changed(r, l, c, i, a)
  BY ChangeShape
<1>2. PICK t \in Trace : t = traces[c][i]
  BY OwnedTrace DEF Inv
<1> DEFINE F == Left(t)
           D == IF l \in TraceLocations THEN {t.span.id} ELSE {}
           T == {active_span(t).id}
           n == Len(spans) + 1
           q == t.request_span.id
<1>3. /\ t.request = r
      /\ Calls(spans, spans', F, D, T)
      /\ Len(spans') = IF l \in TraceLocations THEN n ELSE Len(spans)
      /\ l \in TraceLocations => spans'[n].parent = q
      /\ spans \in Seq(Span) /\ Len(spans) \in Nat
  BY <1>1, <1>2, LenProperties DEF Changed, Inv, TypeOK, TracingTypeOK
<1>4. OwnsItsSpans(t) /\ ~Logged(r) /\ q \in 1 .. Len(spans)
  BY <1>2, OwnedTrace DEF Inv, Logged
<1>5. \A k \in F \cup T : spans[k].finishes = 0 /\ ~spans[k].destroyed
  BY <1>2, <1>3, <1>4, ActiveIsOpen
<1>6. ASSUME NEW k \in 1 .. Len(spans'), k \notin 1 .. Len(spans)
      PROVE  Hangs(spans', k)
  <2>1. l \in TraceLocations /\ k = n
    BY <1>3, <1>6
  <2>2. q \notin F /\ spans[q].finishes = 0
    BY <1>3, <1>4 DEF OwnsItsSpans, Left
  <2> HIDE DEF F, D, T
  <2>3. spans'[q].finishes = 0
    BY <1>3, <1>4, <2>2 DEF Calls
  <2> QED
    BY <1>3, <2>1, <2>3 DEF Hangs
<1>7. \A k \in 1 .. Len(spans) : ~(k \in D /\ k \notin F /\ spans[k].finishes = 0)
  BY <1>3, <1>4 DEF OwnsItsSpans, Left
<1> HIDE DEF F, D, T
<1>8. Acts(F, D, T)
  BY <1>3, <1>5, <1>6, <1>7 DEF Acts
<1> QED
  BY <1>8

\* Adding a trace starts spans below the context's root and acts on no other.
LEMMA AddActs ==
  ASSUME Inv, NEW r \in Requests, NEW l \in Locs, NEW c \in live,
         phase[r] = "find", AddTrace(r, l, c)
  PROVE  \E F, D, T : Acts(F, D, T)
<1>1. PICK root : root = traces[c][1].request_span.id
  OBVIOUS
<1>2. spans \in Seq(Span) /\ Len(spans) \in Nat /\ ~HasTrace(c, r)
  BY LenProperties DEF AddTrace, Inv, TypeOK, TracingTypeOK
<1>3. /\ root \in 1 .. Len(spans)
      /\ spans[root].request # r
      /\ spans[root].request = Main => spans[root].finishes = 0
  BY <1>1, <1>2, RootOpen
<1>4. root \in Nat
  BY <1>2, <1>3
<1>5. spans' = StartTrace(spans, r, l, root)
  BY <1>1 DEF AddTrace
<1>6. /\ Calls(spans, spans', {}, {}, {})
      /\ \A k \in 1 .. Len(spans') : k \notin 1 .. Len(spans) => Hangs(spans', k)
  <2>1. PICK mid : mid = StartTrace(spans, r, l, root)
    OBVIOUS
  <2>2. /\ Calls(spans, mid, {}, {}, {})
        /\ \A k \in 1 .. Len(mid) : k \notin 1 .. Len(spans) => Hangs(mid, k)
    BY <1>2, <1>3, <1>4, <2>1, StartHangs
  <2> QED
    BY <1>5, <2>1, <2>2
<1>7. Acts({}, {}, {})
  BY <1>6 DEF Acts
<1> QED
  BY <1>7

\* A block that cannot be entered finishes the span of the one left, and frees
\* the context's spans.
LEMMA ChangeFailsActs ==
  ASSUME Inv, NEW r \in Requests, NEW l \in Locs, NEW c \in live,
         phase[r] = "find", ChangeBlockFails(r, l, c)
  PROVE  \E F, D, T : Acts(F, D, T)
<1>1. /\ spans \in Seq(Span) /\ Len(spans) \in Nat
      /\ c = CleanupData /\ c # 0
      /\ ~EverySpanStarts
  BY LenProperties, OneLive
  DEF Inv, TypeOK, TracingTypeOK, ChangeBlockFails, EverySpanStarts
<1>2. PICK ids : ids = OwnedSpans(c)
  OBVIOUS
<1>3. ASSUME NEW sp, NEW F, NEW D, NEW T, Calls(spans, sp, F, D, T),
             destroy_opentracing_context(r, sp),
             \A k \in 1 .. Len(spans) :
               k \in F \cup T => spans[k].finishes = 0 /\ ~spans[k].destroyed,
             \A k \in 1 .. Len(sp) : k \notin 1 .. Len(spans) =>
               /\ sp[k].parent > 0 => sp[k].parent \in 1 .. Len(sp)
               /\ Hangs(sp, k)
      PROVE  \E G, E, U : Acts(G, E, U)
  <2>1. spans' = DestroySpans(sp, ids)
    BY <1>1, <1>2, <1>3 DEF destroy_opentracing_context
  <2>2. \A k \in 1 .. Len(sp) : spans'[k].parent = sp[k].parent
    BY <1>3, <2>1, DestroySpansCall DEF Calls
  <2>3. Acts(F, D \cup ids, T)
    BY <1>1, <1>3, <2>1, <2>2, DestroyActs
  <2> QED
    BY <2>3
<1> DEFINE i == find_trace(c, r)
           n == Len(spans) + 1
           root == traces[c][1].request_span.id
<1>4. CASE /\ HasTrace(c, r)
           /\ destroy_opentracing_context(r, on_exit_block(spans, traces[c][i]))
  <2>1. i \in DOMAIN traces[c] /\ traces[c][i].request = r
    BY <1>4, FoundTrace DEF Inv, TypeOK
  <2>2. PICK t \in Trace : t = traces[c][i]
    BY <2>1, OwnedTrace DEF Inv
  <2>3. PICK sp : sp = on_exit_block(spans, t)
    OBVIOUS
  <2>4. Calls(spans, sp, Left(t), {}, {active_span(t).id}) /\ Len(sp) = Len(spans)
    BY <1>1, <2>3, ExitEffect
  <2>5. ~Logged(r)
    BY DEF Logged
  <2>6. \A k \in Left(t) \cup {active_span(t).id} :
          spans[k].finishes = 0 /\ ~spans[k].destroyed
    BY <2>1, <2>2, <2>5, ActiveIsOpen
  <2>7. destroy_opentracing_context(r, sp)
    BY <1>4, <2>2, <2>3
  <2>8. \A k \in 1 .. Len(sp) : k \in 1 .. Len(spans)
    BY <2>4
  <2> QED
    BY <1>3, <2>4, <2>6, <2>7, <2>8
<1>5. CASE destroy_opentracing_context(r, spans)
  BY <1>1, <1>3, <1>5, NoCall
<1>6. CASE /\ ~HasTrace(c, r)
           /\ destroy_opentracing_context(
                r, DestroySpans(Append(spans, RequestSpan(r, l, root)), {n}))
  <2> DEFINE s == RequestSpan(r, l, root)
             sp == DestroySpans(Append(spans, s), {n})
  <2>1. PICK one : one = Append(spans, s)
    OBVIOUS
  <2>2. /\ root \in 1 .. Len(spans)
        /\ spans[root].request # r
        /\ spans[root].request = Main => spans[root].finishes = 0
    BY <1>6, RootOpen
  <2>3. /\ s \in Span
        /\ s.parent = root
        /\ s.request = r
    <3>1. root \in Nat /\ root # 0
      BY <1>1, <2>2
    <3> QED
      BY <3>1, StartedSpanType DEF RequestSpan, NewSpan, ParentOf, None
  <2>4. /\ Calls(spans, one, {}, {}, {})
        /\ Len(one) = n
        /\ one[n] = s
        /\ one \in Seq(Span)
        /\ n \in 1 .. Len(one)
    BY <1>1, <2>1, <2>3, StartCall DEF Calls
  <2> HIDE DEF s
  <2>5. PICK broken : broken = sp
    OBVIOUS
  <2>6. Calls(one, broken, {}, {n}, {}) /\ Len(broken) = n
    BY <2>1, <2>4, <2>5, DestroySpansCall
  <2> HIDE DEF sp
  <2>7. Calls(spans, broken, {}, {n}, {})
    <3>1. Calls(spans, broken, {} \cup {}, {} \cup {n}, {} \cup {})
      BY <1>1, <2>4, <2>6, CallsCompose
    <3> QED
      BY <3>1
  <2>8. /\ broken[n].parent = root
        /\ broken[n].request = r
        /\ broken[root].request = spans[root].request
        /\ broken[root].finishes = spans[root].finishes
    BY <2>2, <2>3, <2>4, <2>6, <2>7 DEF Calls
  <2> HIDE DEF root
  <2>9. \A k \in 1 .. Len(broken) : k \notin 1 .. Len(spans) =>
          /\ broken[k].parent > 0 => broken[k].parent \in 1 .. Len(broken)
          /\ Hangs(broken, k)
    BY <1>1, <2>2, <2>6, <2>8 DEF Hangs
  <2>10. destroy_opentracing_context(r, broken)
    BY <1>6, <2>5 DEF sp, s, root
  <2> HIDE DEF n
  <2> QED
    BY <1>3, <2>7, <2>9, <2>10
<1> QED
  BY <1>4, <1>5, <1>6 DEF ChangeBlockFails

-----------------------------------------------------------------------------
(* on_log_request_handler and cleanup_opentracing_context. *)

\* Logging a request that was being processed acts on its active span and its
\* request span alone, if it acts at all.
LEMMA LogActs ==
  ASSUME Inv, NEW r \in Requests, ~Logged(r), loc[r] \in Locs,
         on_log_request_handler(r)
  PROVE  \E F, D, T : Acts(F, D, T)
<1> DEFINE c == get_opentracing_context(r)
           i == find_trace(c, r)
<1>1. spans \in Seq(Span)
  BY DEF Inv, TypeOK, TracingTypeOK
<1>2. CASE spans' = spans
  <2>1. Acts({}, {}, {})
    BY <1>1, <1>2, NoCall DEF Acts
  <2> QED
    BY <2>1
<1>3. CASE /\ c \in live
           /\ HasTrace(c, r)
           /\ spans' = on_log_request(spans, traces[c][i], loc[r])
  <2>1. i \in DOMAIN traces[c] /\ traces[c][i].request = r
    BY <1>3, FoundTrace DEF Inv, TypeOK
  <2>2. PICK t \in Trace : t = traces[c][i]
    BY <1>3, <2>1, OwnedTrace DEF Inv
  <2> DEFINE F == Left(t) \cup {t.request_span.id}
             T == {active_span(t).id, t.request_span.id}
  <2>3. t.span.id # t.request_span.id
    BY <1>3, <2>1, <2>2, OwnedTrace DEF Inv
  <2>4. Calls(spans, spans', F, {}, T) /\ Len(spans') = Len(spans)
    BY <1>1, <1>3, <2>2, <2>3, LogEffect
  <2>5. \A k \in F \cup T : spans[k].finishes = 0 /\ ~spans[k].destroyed
    BY <1>3, <2>1, <2>2, ActiveIsOpen
  <2> HIDE DEF F, T
  <2>6. Acts(F, {}, T)
    BY <2>4, <2>5 DEF Acts
  <2> QED
    BY <2>6
<1> QED
  BY <1>2, <1>3 DEF on_log_request_handler, UseAfterDelete, tracing_vars

\* The end of the pool frees the spans of requests that were not logged; the
\* main request was, and none is processed any more.
LEMMA PoolActs ==
  ASSUME Inv, DestroyPool
  PROVE  \E F, D, T : Acts(F, D, T)
<1> DEFINE owned == Contexts \cap {cleanups[i] : i \in DOMAIN cleanups}
<1>1. spans \in Seq(Span) /\ DOMAIN spans = 1 .. Len(spans)
  BY LenProperties DEF Inv, TypeOK, TracingTypeOK
<1>2. PICK ids : ids = UNION {OwnedSpans(c) : c \in owned}
  OBVIOUS
<1>3. spans' = DestroySpans(spans, ids)
  BY <1>2 DEF DestroyPool
<1>4. ASSUME NEW k \in 1 .. Len(spans), spans[k].finishes = 0, ~spans[k].destroyed
      PROVE  CutOff(k)
  <2>1. PICK c \in live : k \in OwnedSpans(c)
    BY <1>1, <1>4 DEF Inv, SpanInv, NoSpanLeaked
  <2>2. PICK i \in DOMAIN traces[c] : k \in OwnedIds(traces[c][i])
    BY <2>1 DEF OwnedSpans
  <2>3. PICK t \in Trace : t = traces[c][i]
    BY OwnedTrace DEF Inv
  <2>4. OwnsItsSpans(t) /\ FindsItsContext(c, t.request) /\ t.request \in Requests
    BY <2>3, OwnedTrace DEF Inv, Trace
  <2>5. spans[k].request = t.request
    BY <2>2, <2>3, <2>4 DEF OwnedIds, OwnsItsSpans
  <2>6. ~Logged(t.request)
    BY <1>4, <2>2, <2>3, <2>4 DEF OwnedIds, OwnsItsSpans
  <2>7. /\ phase[Main] = "logged"
        /\ t.request # Main
        /\ ~Processing(t.request)
    BY <2>4, <2>6 DEF DestroyPool, Logged, Inv, SpanInv, MainOutlivesSubs, Processing,
                      Subs
  <2>8. phase[t.request] \in {"logged", "terminated"}
    BY <2>4, <2>7
    DEF FindsItsContext, Processing, Inv, TypeOK, NginxTypeOK, Phases
  <2> QED
    BY <2>5, <2>6, <2>7, <2>8 DEF CutOff, Logged
<1>5. Calls(spans, spans, {}, {}, {})
  BY <1>1, NoCall
<1>6. Acts({}, {} \cup ids, {})
  BY <1>1, <1>3, <1>4, <1>5, DestroyActs
<1> QED
  BY <1>6

-----------------------------------------------------------------------------
(* What holds of every step. *)

\* Every step's calls on spans respect their state.
LEMMA StepActs ==
  ASSUME Inv, Next
  PROVE  \E F, D, T : Acts(F, D, T)
<1>1. /\ spans \in Seq(Span)
      /\ phase \in [Requests -> Phases]
      /\ loc \in [Requests -> Locs]
      /\ Main \in Requests
  BY RequestsAssumption DEF Inv, TypeOK, NginxTypeOK, TracingTypeOK
<1>2. CASE spans' = spans
  <2>1. Acts({}, {}, {})
    BY <1>1, <1>2, NoCall DEF Acts
  <2> QED
    BY <2>1
<1>3. ASSUME NEW r \in Requests, NEW l \in Locs, EnterBlock(r, l)
      PROVE  \E F, D, T : Acts(F, D, T)
  <2>1. phase[r] = "find" /\ on_enter_block(r, l)
    BY <1>3 DEF EnterBlock
  <2> QED
    BY <1>2, <2>1, NewContextActs, ChangeActs, AddActs, ChangeFailsActs
    DEF on_enter_block, UseAfterDelete, tracing_vars
<1>4. ASSUME NEW r \in Requests, Processing(r),
             on_log_request_handler(r) \/ UNCHANGED tracing_vars
      PROVE  \E F, D, T : Acts(F, D, T)
  <2>1. ~Logged(r) /\ loc[r] \in Locs
    BY <1>1, <1>4 DEF Logged, Processing
  <2> QED
    BY <1>2, <1>4, <2>1, LogActs DEF tracing_vars
<1>5. ASSUME NEW r \in Requests, FinalizeSubrequest(r)
      PROVE  \E F, D, T : Acts(F, D, T)
  BY <1>4, <1>5 DEF FinalizeSubrequest
<1>6. CASE FinalizeMain \/ TerminateMain
  BY <1>1, <1>4, <1>6 DEF FinalizeMain, TerminateMain
<1>7. ASSUME NEW r \in Requests,
             \/ Rewrite(r)
             \/ InternalRedirect(r)
             \/ CreateSubrequest(r)
             \/ expand_opentracing_context_variable(r)
             \/ expand_opentracing_binary_context_variable(r)
      PROVE  spans' = spans
  BY <1>7 DEF Rewrite, InternalRedirect, CreateSubrequest, tracing_vars, UseAfterDelete,
              expand_opentracing_context_variable,
              expand_opentracing_binary_context_variable
<1> QED
  BY <1>2, <1>3, <1>5, <1>6, <1>7, PoolActs DEF Next

\* The invariants that a step's analysis needs hold together in every state.
THEOREM Invariant == Spec => []Inv
<1>1. TypeOK /\ ContextInv /\ OneTracePerRequest /\ SpanInv => Inv
  BY DEF Inv
<1> QED
  BY <1>1, TypeCorrect, ContextInvariant, OneTrace, SpanInvariant, PTL

\* No tag, name or second Finish reaches a span that was finished or freed:
\* what RequestTracing does with its spans, it does before it lets go of them.
THEOREM ClosedFinal == Spec => ClosedSpansFinal
<1>1. Inv /\ [Next]_vars =>
        [\A i \in DOMAIN spans :
           spans[i].finishes > 0 \/ spans[i].destroyed
             => [spans'[i] EXCEPT !.destroyed = spans[i].destroyed] = spans[i]]_vars
  <2> SUFFICES ASSUME Inv, Next, NEW k \in DOMAIN spans,
                      spans[k].finishes > 0 \/ spans[k].destroyed
               PROVE  [spans'[k] EXCEPT !.destroyed = spans[k].destroyed] = spans[k]
    OBVIOUS
  <2>1. PICK F, D, T : Acts(F, D, T)
    BY StepActs
  <2>2. /\ spans \in Seq(Span) /\ spans' \in Seq(Span)
        /\ Len(spans) \in Nat /\ Len(spans') \in Nat
        /\ DOMAIN spans = 1 .. Len(spans)
        /\ Len(spans) <= Len(spans')
    BY <2>1, LenProperties DEF Acts, Calls, Inv, TypeOK, TracingTypeOK
  <2>3. spans[k] \in Span /\ spans'[k] \in Span
    BY <2>2
  <2>4. k \notin F \cup T
    BY <2>1, <2>2 DEF Acts
  <2>5. /\ spans'[k].kind = spans[k].kind
        /\ spans'[k].request = spans[k].request
        /\ spans'[k].loc = spans[k].loc
        /\ spans'[k].parent = spans[k].parent
        /\ spans'[k].name = spans[k].name
        /\ spans'[k].tags = spans[k].tags
        /\ spans'[k].finishes = spans[k].finishes
    BY <2>1, <2>2, <2>4 DEF Acts, Calls
  <2> QED
    BY <2>3, <2>5 DEF Span
<1> QED
  BY <1>1, Invariant, PTL DEF Spec, ClosedSpansFinal

\* A span is started below open spans only, where the parent is the main
\* request's or the request's own: the context handed to StartSpan
\* (RequestTracing, request_tracing.cpp) is that of a span still under way.
THEOREM ParentOpen == Spec => ParentStillOpen
<1>1. Inv /\ [Next]_vars =>
        [\A i \in DOMAIN spans' \ DOMAIN spans :
           LET p == spans'[i].parent
           IN  p > 0 /\ spans'[p].request \in {Main, spans'[i].request}
                 => spans'[p].finishes = 0]_vars
  <2> SUFFICES ASSUME Inv, Next, NEW k \in DOMAIN spans' \ DOMAIN spans
               PROVE  Hangs(spans', k)
    BY DEF Hangs
  <2>1. PICK F, D, T : Acts(F, D, T)
    BY StepActs
  <2>2. DOMAIN spans = 1 .. Len(spans) /\ DOMAIN spans' = 1 .. Len(spans')
    BY <2>1, LenProperties DEF Acts, Calls, Inv, TypeOK, TracingTypeOK
  <2> QED
    BY <2>1, <2>2 DEF Acts
<1> QED
  BY <1>1, Invariant, PTL DEF Spec, ParentStillOpen

\* As long as every span can be started, a span is freed unfinished only for a
\* subrequest that was cut off, or that ended where subrequests are not logged
\* (on_log_request, opentracing_handler.cpp).
THEOREM Abandoned ==
  ASSUME EverySpanStarts
  PROVE  Spec => NoneAbandoned
<1>1. Inv /\ [Next]_vars =>
        [\A i \in DOMAIN spans :
           /\ spans'[i].destroyed /\ ~spans[i].destroyed
           /\ spans'[i].finishes = 0
           => LET r == spans[i].request
              IN  r # Main /\ (phase[r] = "terminated" \/ loc[r] \notin LogSubrequest)]_vars
  <2> SUFFICES ASSUME Inv, Next, NEW k \in DOMAIN spans,
                      spans'[k].destroyed, ~spans[k].destroyed,
                      spans'[k].finishes = 0
               PROVE  CutOff(k)
    BY DEF CutOff
  <2>1. PICK F, D, T : Acts(F, D, T)
    BY StepActs
  <2>2. spans \in Seq(Span) /\ DOMAIN spans = 1 .. Len(spans)
    BY LenProperties DEF Inv, TypeOK, TracingTypeOK
  <2>3. spans[k].finishes \in Nat
    <3>1. spans[k] \in Span
      BY <2>2
    <3> QED
      BY <3>1 DEF Span
  <2>4. k \in D /\ k \notin F /\ spans[k].finishes = 0
    BY <2>1, <2>2, <2>3 DEF Acts, Calls
  <2> QED
    BY <2>1, <2>2, <2>4 DEF Acts
<1> QED
  BY <1>1, Invariant, PTL DEF Spec, NoneAbandoned

-----------------------------------------------------------------------------
(* One tree. *)

\* Why no second root is started, as an inductive invariant: as long as a
\* handler may run and there is no context, there never was one.
RootInv ==
    /\ phase[Main] # "freed" /\ live = {} => spans = <<>>
    /\ \A k \in DOMAIN spans : spans[k].parent \in {None, Remote} => k = 1

\* Calls that start no root keep the root the only one.
LEMMA RootKept ==
  ASSUME Inv, RootInv, NEW F, NEW D, NEW T, Calls(spans, spans', F, D, T),
         phase'[Main] # "freed" /\ live' = {} => spans' = <<>>,
         \A k \in 1 .. Len(spans') :
           k \notin 1 .. Len(spans) => spans'[k].parent \notin {None, Remote}
  PROVE  RootInv'
<1>1. DOMAIN spans = 1 .. Len(spans) /\ DOMAIN spans' = 1 .. Len(spans')
  BY LenProperties DEF Calls, Inv, TypeOK, TracingTypeOK
<1>2. ASSUME NEW k \in DOMAIN spans', spans'[k].parent \in {None, Remote}
      PROVE  k = 1
  <2>1. k \in 1 .. Len(spans)
    BY <1>1, <1>2
  <2>2. spans'[k].parent = spans[k].parent
    BY <2>1 DEF Calls
  <2> QED
    BY <1>1, <1>2, <2>1, <2>2 DEF RootInv
<1> QED
  BY <1>2 DEF RootInv

\* A request enters a block: only the first of all makes a context.
LEMMA RootEntered ==
  ASSUME Faults \subseteq {"inject"}, Inv, RootInv, NEW r \in Requests, NEW l \in Locs,
         EnterBlock(r, l)
  PROVE  RootInv'
<1>1. /\ spans \in Seq(Span) /\ Len(spans) \in Nat
      /\ phase \in [Requests -> Phases]
      /\ Main \in Requests
      /\ phase[r] = "find" /\ phase'[Main] \in {phase[Main], "running"}
  BY RequestsAssumption, LenProperties
  DEF EnterBlock, Inv, TypeOK, NginxTypeOK, TracingTypeOK
<1>2. phase[Main] # "freed"
  BY <1>1 DEF Inv, SpanInv, MainOutlivesSubs, Processing, Subs
<1> DEFINE g == get_opentracing_context(r)
           n == Len(spans) + 1
<1>3. CASE spans' = spans /\ live' = live
  BY <1>2, <1>3 DEF RootInv
<1>4. CASE g = 0 /\ NewContext(r, l)
  <2>1. CleanupData = 0
    BY <1>1, <1>4, NothingToRecover DEF Inv
  <2>2. spans = <<>> /\ Len(spans) = 0
    BY <1>2, <2>1 DEF Inv, ContextInv, NewestEntryOwns, RootInv
  <2>3. None \in Nat
    BY DEF None
  <2>4. spans' = StartTrace(spans, r, l, None)
    BY <1>4 DEF NewContext
  <2>5. /\ Calls(spans, spans', {}, {}, {})
        /\ Len(spans') = IF l \in TraceLocations THEN 2 ELSE 1
        /\ l \in TraceLocations => spans'[2].parent = 1
    <3>1. /\ Calls(spans, spans', {}, {}, {})
          /\ Len(spans') = IF l \in TraceLocations THEN Len(spans) + 2 ELSE n
          /\ l \in TraceLocations => spans'[Len(spans) + 2] = LocationSpan(r, l, n)
      BY <1>1, <2>3, <2>4, StartEffect
    <3> QED
      BY <2>2, <3>1 DEF LocationSpan, NewSpan
  <2>6. live' # {}
    BY <1>4 DEF NewContext, set_opentracing_context
  <2>7. DOMAIN spans' = 1 .. Len(spans')
    BY <2>5, LenProperties DEF Calls
  <2>8. \A k \in DOMAIN spans' : spans'[k].parent \in {None, Remote} => k = 1
    BY <2>5, <2>7 DEF None, Remote
  <2> QED
    BY <2>6, <2>8 DEF RootInv
<1>5. ASSUME NEW c \in live, ChangeBlock(r, l, c)
      PROVE  RootInv'
  <2>1. PICK i \in DOMAIN traces[c], a \in FreeAddrs : Changed(r, l, c, i, a)
    BY <1>5, ChangeShape
  <2>2. traces[c][i].request_span.id \in 1 .. Len(spans)
    BY OwnedTrace DEF Inv
  <2>3. PICK F, D, T : Calls(spans, spans', F, D, T)
    BY <2>1 DEF Changed
  <2>4. /\ live' # {}
        /\ Len(spans') = IF l \in TraceLocations THEN n ELSE Len(spans)
        /\ l \in TraceLocations => spans'[n].parent = traces[c][i].request_span.id
    BY <2>1 DEF Changed
  <2>5. \A k \in 1 .. Len(spans') :
          k \notin 1 .. Len(spans) => spans'[k].parent \notin {None, Remote}
    BY <1>1, <2>2, <2>4 DEF None, Remote
  <2> QED
    BY <2>3, <2>4, <2>5, RootKept
<1>6. ASSUME NEW c \in live, AddTrace(r, l, c)
      PROVE  RootInv'
  <2>1. PICK root : root = traces[c][1].request_span.id
    OBVIOUS
  <2>2. root \in 1 .. Len(spans) /\ root \in Nat /\ root # 0
    BY <1>1, <1>6, <2>1, RootOpen DEF AddTrace
  <2>3. spans' = StartTrace(spans, r, l, root) /\ live' # {}
    BY <1>6, <2>1 DEF AddTrace
  <2>4. /\ Calls(spans, spans', {}, {}, {})
        /\ Len(spans') = IF l \in TraceLocations THEN Len(spans) + 2 ELSE n
        /\ spans'[n] = RequestSpan(r, l, root)
        /\ l \in TraceLocations => spans'[Len(spans) + 2] = LocationSpan(r, l, n)
    BY <1>1, <2>2, <2>3, StartEffect
  <2>5. /\ spans'[n].parent = root
        /\ l \in TraceLocations => spans'[Len(spans) + 2].parent = n
    BY <2>2, <2>4 DEF RequestSpan, LocationSpan, NewSpan, ParentOf, None
  <2>6. \A k \in 1 .. Len(spans') :
          k \notin 1 .. Len(spans) => spans'[k].parent \notin {None, Remote}
    <3>1. \A k \in 1 .. Len(spans') : k \notin 1 .. Len(spans) =>
            k = n \/ (l \in TraceLocations /\ k = Len(spans) + 2)
      BY <1>1, <2>4
    <3> QED
      BY <1>1, <2>2, <2>5, <3>1 DEF None, Remote
  <2> QED
    BY <2>3, <2>4, <2>6, RootKept
<1>7. \A c : ~ChangeBlockFails(r, l, c)
  BY DEF ChangeBlockFails
<1>8. ~NewContextFails(r, l)
  BY DEF NewContextFails
<1> QED
  BY <1>3, <1>4, <1>5, <1>6, <1>7, <1>8
  DEF EnterBlock, on_enter_block, UseAfterDelete, tracing_vars

\* The root stays the only one.
LEMMA RootStep ==
  ASSUME Faults \subseteq {"inject"}, Inv, RootInv, Next
  PROVE  RootInv'
<1>1. /\ spans \in Seq(Span)
      /\ phase \in [Requests -> Phases]
      /\ Main \in Requests /\ Main \notin Subs
  BY RequestsAssumption DEF Inv, TypeOK, NginxTypeOK, TracingTypeOK, Subs
<1>2. ASSUME spans' = spans, live' = live,
             phase'[Main] # "freed" => phase[Main] # "freed"
      PROVE  RootInv'
  BY <1>2 DEF RootInv
<1>3. ASSUME NEW r \in Requests,
             \/ Rewrite(r)
             \/ InternalRedirect(r)
             \/ CreateSubrequest(r)
             \/ expand_opentracing_context_variable(r)
             \/ expand_opentracing_binary_context_variable(r)
      PROVE  RootInv'
  <2>1. /\ spans' = spans /\ live' = live
        /\ \/ phase' = phase
           \/ phase' = [phase EXCEPT ![r] = "find"] /\ phase[r] # "freed"
    BY <1>3 DEF Rewrite, InternalRedirect, CreateSubrequest, FindAgain, Processing,
                tracing_vars, UseAfterDelete, nginx_vars,
                expand_opentracing_context_variable,
                expand_opentracing_binary_context_variable
  <2> QED
    BY <1>1, <1>2, <2>1
<1>4. ASSUME NEW r \in Requests, phase'[Main] # "freed" => phase[Main] # "freed",
             on_log_request_handler(r) \/ UNCHANGED tracing_vars
      PROVE  RootInv'
  <2>1. /\ live' = live
        /\ \/ spans' = spans
           \/ \E c \in live : \E i \in DOMAIN traces[c] :
                spans' = on_log_request(spans, traces[c][i], loc[r])
    BY <1>4, FoundTrace
    DEF on_log_request_handler, UseAfterDelete, tracing_vars, Inv, TypeOK
  <2>2. ASSUME NEW c \in live, NEW i \in DOMAIN traces[c],
               spans' = on_log_request(spans, traces[c][i], loc[r])
        PROVE  RootInv'
    <3>1. PICK t \in Trace : t = traces[c][i]
      BY OwnedTrace DEF Inv
    <3>2. t.span.id # t.request_span.id /\ loc[r] \in Locs
      BY <3>1, OwnedTrace DEF Inv, TypeOK, NginxTypeOK
    <3>3. /\ Len(spans') = Len(spans)
          /\ \E F, D, T : Calls(spans, spans', F, D, T)
      BY <1>1, <2>2, <3>1, <3>2, LogEffect
    <3> QED
      BY <2>1, <3>3, RootKept
  <2> QED
    BY <1>2, <1>4, <2>1, <2>2
<1>5. ASSUME NEW r \in Requests, FinalizeSubrequest(r)
      PROVE  RootInv'
  BY <1>1, <1>4, <1>5 DEF FinalizeSubrequest
<1>6. CASE FinalizeMain \/ TerminateMain
  BY <1>1, <1>4, <1>6 DEF FinalizeMain, TerminateMain, Processing
<1>7. CASE DestroyPool
  <2>1. phase'[Main] = "freed"
    BY <1>1, <1>7 DEF DestroyPool
  <2>2. PICK ids : spans' = DestroySpans(spans, ids)
    BY <1>7 DEF DestroyPool
  <2>3. Calls(spans, spans', {}, ids, {}) /\ Len(spans') = Len(spans)
    BY <1>1, <2>2, DestroySpansCall
  <2> QED
    BY <2>1, <2>3, RootKept
<1> QED
  BY <1>3, <1>5, <1>6, <1>7, RootEntered DEF Next

\* As long as every span can be started and a context keeps its cleanup entry,
\* the spans of a client request are one tree, however often the main request
\* and its subrequests are redirected: on_enter_block (opentracing_handler.cpp)
\* recovers the context from the cleanup list instead of making another one.
THEOREM OneTree ==
  ASSUME Faults \subseteq {"inject"}
  PROVE  Spec => []OneRoot
<1>1. Init => RootInv
  BY DEF Init, RootInv
<1>2. Inv /\ RootInv /\ [Next]_vars => RootInv'
  <2> SUFFICES ASSUME Inv, RootInv, [Next]_vars PROVE RootInv'
    OBVIOUS
  <2>1. CASE UNCHANGED vars
    BY <2>1 DEF vars, RootInv
  <2> QED
    BY <2>1, RootStep
<1>3. RootInv => OneRoot
  BY DEF RootInv, OneRoot
<1> QED
  BY <1>1, <1>2, <1>3, Invariant, PTL DEF Spec

-----------------------------------------------------------------------------
(* The root of the tree under way. *)

\* What a request without a trace is made a child of, as an inductive
\* invariant: the request span of the context's first trace is the newest span
\* without a parent.
Rooted ==
    \A c \in live :
      LET q == traces[c][1].request_span.id
      IN  /\ spans[q].parent \in {None, Remote}
          /\ \A k \in DOMAIN spans : k > q => spans[k].parent \notin {None, Remote}

\* Calls that start no root leave a context that is kept its own.
LEMMA RootedKept ==
  ASSUME Inv, Rooted, NEW F, NEW D, NEW T, Calls(spans, spans', F, D, T),
         \A c \in live' :
           /\ c \in live
           /\ traces'[c][1].request_span.id = traces[c][1].request_span.id,
         \A k \in 1 .. Len(spans') :
           k \notin 1 .. Len(spans) => spans'[k].parent \notin {None, Remote}
  PROVE  Rooted'
<1>1. DOMAIN spans = 1 .. Len(spans) /\ DOMAIN spans' = 1 .. Len(spans')
  BY LenProperties DEF Calls, Inv, TypeOK, TracingTypeOK
<1>2. ASSUME NEW c \in live', NEW q, q = traces'[c][1].request_span.id
      PROVE  /\ spans'[q].parent \in {None, Remote}
             /\ \A k \in DOMAIN spans' :
                  k > q => spans'[k].parent \notin {None, Remote}
  <2>1. c \in live /\ q = traces[c][1].request_span.id
    BY <1>2
  <2>2. q \in 1 .. Len(spans)
    BY <2>1, FirstTrace
  <2>3. /\ spans[q].parent \in {None, Remote}
        /\ \A k \in DOMAIN spans : k > q => spans[k].parent \notin {None, Remote}
    BY <2>1 DEF Rooted
  <2>4. \A k \in 1 .. Len(spans) : spans'[k].parent = spans[k].parent
    BY DEF Calls
  <2> QED
    BY <1>1, <2>2, <2>3, <2>4
<1> QED
  BY <1>2 DEF Rooted

\* A new context has the newest root.
LEMMA NewContextRooted ==
  ASSUME Inv, live = {}, NEW r \in Requests, NEW l \in Locs, NewContext(r, l)
  PROVE  Rooted'
<1> DEFINE n == Len(spans) + 1
<1>1. PICK a \in FreeAddrs, b \in FreeAddrs :
        set_opentracing_context(r, NewTrace(spans, r, l, a, b))
  BY DEF NewContext
<1>2. /\ a \in Addr /\ b \in Addr
      /\ spans \in Seq(Span) /\ Len(spans) \in Nat
      /\ traces \in Seq(Seq(Trace))
      /\ None = 0 /\ None \in Nat
  BY LenProperties DEF FreeAddrs, Inv, TypeOK, TracingTypeOK, None
<1>3. PICK e \in Trace : e = NewTrace(spans, r, l, a, b)
  BY <1>2, TraceType
<1>4. PICK c : c = Len(traces) + 1
  OBVIOUS
<1>5. live' = {c} /\ traces'[c] = <<e>>
  BY <1>1, <1>2, <1>3, <1>4, AppendProperties DEF set_opentracing_context
<1>6. traces'[c][1].request_span.id = n
  BY <1>3, <1>5 DEF NewTrace
<1>7. spans' = StartTrace(spans, r, l, None)
  BY DEF NewContext
<1>8. /\ Calls(spans, spans', {}, {}, {})
      /\ Len(spans') = IF l \in TraceLocations THEN Len(spans) + 2 ELSE n
      /\ spans'[n] = RequestSpan(r, l, None)
      /\ l \in TraceLocations => spans'[Len(spans) + 2] = LocationSpan(r, l, n)
  BY <1>2, <1>7, StartEffect
<1>9. spans'[n].parent \in {None, Remote}
  BY <1>8 DEF RequestSpan, NewSpan, ParentOf, extract_span_context
<1>10. ASSUME NEW k \in DOMAIN spans', k > n
       PROVE  spans'[k].parent \notin {None, Remote}
  <2>1. DOMAIN spans' = 1 .. Len(spans')
    BY <1>8, LenProperties DEF Calls
  <2>2. k = Len(spans) + 2 /\ l \in TraceLocations
    BY <1>2, <1>8, <1>10, <2>1
  <2>3. spans'[k].parent = n
    BY <1>8, <2>2 DEF LocationSpan, NewSpan
  <2> QED
    BY <1>2, <2>3 DEF None, Remote
<1> QED
  BY <1>5, <1>6, <1>9, <1>10 DEF Rooted

\* A request that enters a block is traced below the root, or is the root of a
\* new context, or there is no context any more.
LEMMA EnterRooted ==
  ASSUME Inv, Rooted, NEW r \in Requests, NEW l \in Locs, EnterBlock(r, l)
  PROVE  Rooted'
<1> DEFINE n == Len(spans) + 1
<1>1. /\ spans \in Seq(Span) /\ Len(spans) \in Nat
      /\ traces \in Seq(Seq(Trace))
      /\ phase[r] = "find" /\ on_enter_block(r, l)
  BY LenProperties DEF EnterBlock, Inv, TypeOK, TracingTypeOK
<1>2. CASE spans' = spans /\ live' = live /\ traces' = traces
  BY <1>2 DEF Rooted
<1>3. CASE get_opentracing_context(r) = 0
  <2>1. CleanupData = 0
    BY <1>1, <1>3, NothingToRecover DEF Inv
  <2>2. live = {}
    BY <2>1 DEF Inv, ContextInv, NewestEntryOwns
  <2>3. NewContext(r, l) => Rooted'
    BY <2>2, NewContextRooted
  <2>4. NewContextFails(r, l) => Rooted'
    BY <2>2 DEF NewContextFails, Rooted
  <2> QED
    BY <1>1, <1>2, <1>3, <2>2, <2>3, <2>4
    DEF on_enter_block, tracing_vars, UseAfterDelete
<1>4. ASSUME NEW c \in live, ChangeBlock(r, l, c)
      PROVE  Rooted'
  <2>1. PICK i \in DOMAIN traces[c], a \in FreeAddrs : Changed(r, l, c, i, a)
    BY <1>4, ChangeShape
  <2>2. PICK t \in Trace : t = traces[c][i]
    BY OwnedTrace DEF Inv
  <2>3. PICK F, D, T : Calls(spans, spans', F, D, T)
    BY <2>1 DEF Changed
  <2>4. live = {c} /\ live' = {c}
    BY <2>1, OneLive DEF Inv, Changed
  <2>5. traces'[c][1].request_span.id = traces[c][1].request_span.id
    <3>1. 1 \in DOMAIN traces[c]
      BY FirstTrace
    <3>2. CASE i = 1
      <4>1. traces'[c][1] = on_change_block(spans, t, l, a)
        BY <2>1, <2>2, <3>1, <3>2 DEF Changed
      <4> QED
        BY <2>2, <3>2, <4>1 DEF on_change_block, Trace
    <3>3. CASE i # 1
      BY <2>1, <3>1, <3>3 DEF Changed
    <3> QED
      BY <3>2, <3>3
  <2>6. /\ Len(spans') = IF l \in TraceLocations THEN n ELSE Len(spans)
        /\ l \in TraceLocations => spans'[n].parent = traces[c][i].request_span.id
    BY <2>1 DEF Changed
  <2>7. traces[c][i].request_span.id \in 1 .. Len(spans)
    BY OwnedTrace DEF Inv
  <2>8. \A k \in 1 .. Len(spans') :
          k \notin 1 .. Len(spans) => spans'[k].parent \notin {None, Remote}
    BY <1>1, <2>6, <2>7 DEF None, Remote
  <2> QED
    BY <2>3, <2>4, <2>5, <2>8, RootedKept
<1>5. ASSUME NEW c \in live, AddTrace(r, l, c)
      PROVE  Rooted'
  <2>1. PICK root : root = traces[c][1].request_span.id
    OBVIOUS
  <2>2. root \in 1 .. Len(spans) /\ root \in Nat /\ root # 0
    BY <1>1, <2>1, FirstTrace
  <2>3. spans' = StartTrace(spans, r, l, root) /\ live' = live
    BY <1>5, <2>1 DEF AddTrace
  <2>4. /\ Calls(spans, spans', {}, {}, {})
        /\ Len(spans') = IF l \in TraceLocations THEN Len(spans) + 2 ELSE n
        /\ spans'[n] = RequestSpan(r, l, root)
        /\ l \in TraceLocations => spans'[Len(spans) + 2] = LocationSpan(r, l, n)
    BY <1>1, <2>2, <2>3, StartEffect
  <2>5. /\ spans'[n].parent = root
        /\ l \in TraceLocations => spans'[Len(spans) + 2].parent = n
    BY <2>2, <2>4 DEF RequestSpan, LocationSpan, NewSpan, ParentOf, None
  <2>6. \A k \in 1 .. Len(spans') :
          k \notin 1 .. Len(spans) => spans'[k].parent \notin {None, Remote}
    <3>1. \A k \in 1 .. Len(spans') : k \notin 1 .. Len(spans) =>
            k = n \/ (l \in TraceLocations /\ k = Len(spans) + 2)
      BY <1>1, <2>4
    <3> QED
      BY <1>1, <2>2, <2>5, <3>1 DEF None, Remote
  <2>7. live = {c} /\ c \in 1 .. Len(traces) /\ traces[c] \in Seq(Trace)
    BY RootTrace, OneLive DEF Inv, TypeOK, TracingInv
  <2>8. traces'[c][1] = traces[c][1]
    <3>1. PICK a \in FreeAddrs, b \in FreeAddrs :
            traces' = [traces EXCEPT ![c] = Append(@, NewTrace(spans, r, l, a, b))]
      BY <1>5 DEF AddTrace
    <3>2. PICK e \in Trace : e = NewTrace(spans, r, l, a, b)
      BY <1>1, <3>1, TraceType DEF FreeAddrs
    <3>3. traces'[c] = Append(traces[c], e)
      BY <1>1, <2>7, <3>1, <3>2
    <3>4. 1 \in 1 .. Len(traces[c])
      BY <2>7, FirstTrace, LenProperties
    <3> QED
      BY <2>7, <3>2, <3>3, <3>4, AppendProperties
  <2> QED
    BY <2>3, <2>4, <2>6, <2>7, <2>8, RootedKept
<1>6. ASSUME NEW c \in live, ChangeBlockFails(r, l, c)
      PROVE  Rooted'
  <2>1. live = {c} /\ c = CleanupData /\ c # 0
    BY OneLive DEF Inv
  <2>2. live' = {}
    BY <1>6, <2>1 DEF ChangeBlockFails, destroy_opentracing_context
  <2> QED
    BY <2>2 DEF Rooted
<1> QED
  BY <1>1, <1>2, <1>3, <1>4, <1>5, <1>6
  DEF on_enter_block, tracing_vars, UseAfterDelete

\* A lookup changes what a trace has cached, not its request span.
LEMMA LookupRooted ==
  ASSUME Inv, Rooted, NEW r \in Requests,
         \/ expand_opentracing_context_variable(r)
         \/ expand_opentracing_binary_context_variable(r)
  PROVE  Rooted'
<1> DEFINE g == get_opentracing_context(r)
<1>1. spans' = spans /\ live' = live
  BY DEF expand_opentracing_context_variable, UseAfterDelete,
         expand_opentracing_binary_context_variable
<1>2. CASE traces' = traces
  BY <1>1, <1>2 DEF Rooted
<1>3. CASE /\ g \in live
           /\ HasTrace(g, r)
           /\ \E injected \in BOOLEAN :
                traces' = [traces EXCEPT ![g][find_trace(g, r)] =
                             lookup_span_context_value(@, injected)]
  <2>1. PICK c \in live : c = g
    BY <1>3
  <2>2. PICK i \in DOMAIN traces[c] : i = find_trace(c, r)
    BY <1>3, <2>1, FoundTrace DEF Inv, TypeOK
  <2>3. PICK t \in Trace : t = traces[c][i]
    BY OwnedTrace DEF Inv
  <2>4. PICK injected \in BOOLEAN :
          traces' = [traces EXCEPT ![c][i] = lookup_span_context_value(@, injected)]
    BY <1>3, <2>1, <2>2
  <2>5. lookup_span_context_value(t, injected) \in Trace
    BY LookupType
  <2>6. PICK e \in Trace : e = lookup_span_context_value(t, injected)
    BY <2>5
  <2>7. traces' = [traces EXCEPT ![c][i] = e]
    BY <2>3, <2>4, <2>6
  <2>8. traces \in Seq(Seq(Trace)) /\ live = {c} /\ c \in 1 .. Len(traces)
    BY OwnedTrace, OneLive DEF Inv, TypeOK, TracingTypeOK
  <2>9. \A j \in DOMAIN traces[c] :
          traces'[c][j] = IF j = i THEN e ELSE traces[c][j]
    BY <2>7, <2>8, UpdateTrace
  <2>10. e.request_span = t.request_span
    BY <2>6 DEF lookup_span_context_value, Trace
  <2>11. traces'[c][1].request_span = traces[c][1].request_span
    BY <2>3, <2>9, <2>10, FirstTrace
  <2> QED
    BY <1>1, <2>8, <2>11 DEF Rooted
<1> QED
  BY <1>2, <1>3 DEF expand_opentracing_context_variable, UseAfterDelete,
                    expand_opentracing_binary_context_variable

\* The log phase finishes spans and starts none.
LEMMA LogRooted ==
  ASSUME Inv, Rooted, NEW r \in Requests,
         on_log_request_handler(r) \/ UNCHANGED tracing_vars
  PROVE  Rooted'
<1>1. /\ live' = live /\ traces' = traces
      /\ \/ spans' = spans
         \/ \E c \in live : \E i \in DOMAIN traces[c] :
              spans' = on_log_request(spans, traces[c][i], loc[r])
  BY FoundTrace
  DEF on_log_request_handler, UseAfterDelete, tracing_vars, Inv, TypeOK
<1>2. CASE spans' = spans
  BY <1>1, <1>2 DEF Rooted
<1>3. ASSUME NEW c \in live, NEW i \in DOMAIN traces[c],
             spans' = on_log_request(spans, traces[c][i], loc[r])
      PROVE  Rooted'
  <2>1. PICK t \in Trace : t = traces[c][i]
    BY OwnedTrace DEF Inv
  <2>2. t.span.id # t.request_span.id /\ loc[r] \in Locs /\ spans \in Seq(Span)
    BY <2>1, OwnedTrace DEF Inv, TypeOK, NginxTypeOK, TracingTypeOK
  <2>3. /\ Len(spans') = Len(spans)
        /\ \E F, D, T : Calls(spans, spans', F, D, T)
    BY <1>3, <2>1, <2>2, LogEffect
  <2> QED
    BY <1>1, <2>3, RootedKept
<1> QED
  BY <1>1, <1>2, <1>3

\* A context's first trace stays the one of the newest root.
LEMMA RootedStep ==
  ASSUME Inv, Rooted, Next
  PROVE  Rooted'
<1>1. Main \in Requests
  BY RequestsAssumption
<1>2. ASSUME NEW r \in Requests,
             Rewrite(r) \/ InternalRedirect(r) \/ CreateSubrequest(r)
      PROVE  Rooted'
  <2>1. spans' = spans /\ live' = live /\ traces' = traces
    BY <1>2 DEF Rewrite, InternalRedirect, CreateSubrequest, tracing_vars
  <2> QED
    BY <2>1 DEF Rooted
<1>3. ASSUME NEW r \in Requests, FinalizeSubrequest(r)
      PROVE  Rooted'
  BY <1>3, LogRooted DEF FinalizeSubrequest
<1>4. CASE FinalizeMain \/ TerminateMain
  BY <1>1, <1>4, LogRooted DEF FinalizeMain, TerminateMain
<1>5. CASE DestroyPool
  <2>1. live' = {}
    BY <1>5, NoneLeft DEF Inv, ContextInv
  <2> QED
    BY <2>1 DEF Rooted
<1> QED
  BY <1>2, <1>3, <1>4, <1>5, EnterRooted, LookupRooted DEF Next

\* So a request is traced below the root of the tree under way, whichever
\* request was the first to be traced (OpenTracingContext::on_change_block).
LEMMA AlwaysRooted == Spec => []Rooted
<1>1. Init => Rooted
  BY DEF Init, Rooted
<1>2. Inv /\ Rooted /\ [Next]_vars => Rooted'
  <2> SUFFICES ASSUME Inv, Rooted, [Next]_vars PROVE Rooted'
    OBVIOUS
  <2>1. CASE UNCHANGED vars
    BY <2>1 DEF vars, Rooted
  <2> QED
    BY <2>1, RootedStep
<1> QED
  BY <1>1, <1>2, Invariant, PTL DEF Spec

-----------------------------------------------------------------------------
(* The nodes that spans are. *)

\* A node of the tree.
TreeNode == [kind : {"request", "location"}, request : Requests, parent : Nat,
             state : {"open", "closed", "lost"}]

\* The node that a span is.
NodeOf(s) ==
    [kind |-> s.kind, request |-> s.request,
     parent |-> IF s.parent = Remote THEN 0 ELSE s.parent, state |-> NodeState(s)]

\* A node that a step closes or loses.
InState(node, state) == [node EXCEPT !.state = state]

\* The spans are a sequence of nodes.
LEMMA NodesType ==
  ASSUME spans \in Seq(Span)
  PROVE  /\ SpanNodes \in Seq(TreeNode)
         /\ Len(SpanNodes) = Len(spans)
         /\ DOMAIN SpanNodes = 1 .. Len(spans)
         /\ \A k \in 1 .. Len(spans) : SpanNodes[k] = NodeOf(spans[k])
<1>1. DOMAIN spans = 1 .. Len(spans) /\ Len(spans) \in Nat
  BY LenProperties
<1>2. SpanNodes = [k \in 1 .. Len(spans) |-> NodeOf(spans[k])]
  BY <1>1 DEF SpanNodes, NodeOf
<1>3. ASSUME NEW k \in 1 .. Len(spans)
      PROVE  NodeOf(spans[k]) \in TreeNode
  <2>1. spans[k] \in Span
    OBVIOUS
  <2> QED
    BY <2>1 DEF NodeOf, NodeState, TreeNode, Span, Remote
<1>4. SpanNodes \in [1 .. Len(spans) -> TreeNode]
  BY <1>2, <1>3
<1>5. SpanNodes \in Seq(TreeNode)
  BY <1>1, <1>4, FunctionIsSeq
<1>6. Len(SpanNodes) = Len(spans)
  BY <1>1, <1>4, <1>5, LenProperties
<1> QED
  BY <1>2, <1>4, <1>5, <1>6

\* So they are after a step.
LEMMA NodesTypeNext ==
  ASSUME spans' \in Seq(Span)
  PROVE  /\ SpanNodes' \in Seq(TreeNode)
         /\ Len(SpanNodes') = Len(spans')
         /\ DOMAIN SpanNodes' = 1 .. Len(spans')
         /\ \A k \in 1 .. Len(spans') : SpanNodes'[k] = NodeOf(spans'[k])
<1>1. DOMAIN spans' = 1 .. Len(spans') /\ Len(spans') \in Nat
  BY LenProperties
<1>2. SpanNodes' = [k \in 1 .. Len(spans') |-> NodeOf(spans'[k])]
  BY <1>1 DEF SpanNodes, NodeOf, NodeState
<1>3. ASSUME NEW k \in 1 .. Len(spans')
      PROVE  NodeOf(spans'[k]) \in TreeNode
  <2>1. spans'[k] \in Span
    OBVIOUS
  <2> QED
    BY <2>1 DEF NodeOf, NodeState, TreeNode, Span, Remote
<1>4. SpanNodes' \in [1 .. Len(spans') -> TreeNode]
  BY <1>2, <1>3
<1>5. SpanNodes' \in Seq(TreeNode)
  BY <1>1, <1>4, FunctionIsSeq
<1>6. Len(SpanNodes') = Len(spans')
  BY <1>1, <1>4, <1>5, LenProperties
<1> QED
  BY <1>2, <1>4, <1>5, <1>6

\* What calls make of the node of a span: it changes if it was open only.
LEMMA NodeAfter ==
  ASSUME NEW sp \in Seq(Span), NEW new, NEW F, NEW D, NEW T,
         Calls(sp, new, F, D, T), NEW k \in 1 .. Len(sp),
         k \in F => NodeState(sp[k]) = "open"
  PROVE  NodeOf(new[k]) =
           IF NodeState(sp[k]) # "open" \/ k \notin F \cup D
           THEN NodeOf(sp[k])
           ELSE InState(NodeOf(sp[k]), IF k \in F THEN "closed" ELSE "lost")
<1>1. /\ sp[k].finishes \in Nat
      /\ sp[k].destroyed \in BOOLEAN
  <2>1. sp[k] \in Span
    OBVIOUS
  <2> QED
    BY <2>1 DEF Span
<1>2. /\ new[k].kind = sp[k].kind
      /\ new[k].request = sp[k].request
      /\ new[k].parent = sp[k].parent
      /\ new[k].finishes = IF k \in F THEN sp[k].finishes + 1 ELSE sp[k].finishes
      /\ new[k].destroyed <=> sp[k].destroyed \/ k \in D
  BY DEF Calls
<1>3. NodeState(new[k]) =
        IF NodeState(sp[k]) # "open" \/ k \notin F \cup D
        THEN NodeState(sp[k])
        ELSE IF k \in F THEN "closed" ELSE "lost"
  BY <1>1, <1>2 DEF NodeState
<1> QED
  BY <1>2, <1>3 DEF NodeOf, InState

\* A sequence of nodes is known by its elements.
LEMMA SameNodes ==
  ASSUME NEW s \in Seq(TreeNode), NEW u \in Seq(TreeNode), Len(s) = Len(u),
         \A k \in 1 .. Len(s) : s[k] = u[k]
  PROVE  s = u
BY SeqEqual

\* The nodes after a step are those that its calls make of the open ones,
\* followed by those of the spans it started.
LEMMA NodesAfter ==
  ASSUME spans \in Seq(Span), NEW F, NEW D, NEW T, Calls(spans, spans', F, D, T),
         \A k \in 1 .. Len(spans) : k \in F => NodeState(spans[k]) = "open",
         NEW m \in Seq(TreeNode), Len(m) = Len(spans'),
         \A k \in 1 .. Len(spans) :
           m[k] = IF NodeState(spans[k]) # "open" \/ k \notin F \cup D
                  THEN NodeOf(spans[k])
                  ELSE InState(NodeOf(spans[k]), IF k \in F THEN "closed" ELSE "lost"),
         \A k \in 1 .. Len(spans') :
           k \notin 1 .. Len(spans) => m[k] = NodeOf(spans'[k])
  PROVE  SpanNodes' = m
<1>1. /\ SpanNodes' \in Seq(TreeNode)
      /\ Len(SpanNodes') = Len(spans')
      /\ \A k \in 1 .. Len(spans') : SpanNodes'[k] = NodeOf(spans'[k])
  BY NodesTypeNext DEF Calls
<1>2. ASSUME NEW k \in 1 .. Len(spans')
      PROVE  SpanNodes'[k] = m[k]
  <2>1. CASE k \in 1 .. Len(spans)
    <3>1. NodeOf(spans'[k]) =
            IF NodeState(spans[k]) # "open" \/ k \notin F \cup D
            THEN NodeOf(spans[k])
            ELSE InState(NodeOf(spans[k]), IF k \in F THEN "closed" ELSE "lost")
      BY <2>1, NodeAfter
    <3> QED
      BY <1>1, <2>1, <3>1
  <2>2. CASE k \notin 1 .. Len(spans)
    BY <1>1, <2>2
  <2> QED
    BY <2>1, <2>2
<1> QED
  BY <1>1, <1>2, SameNodes

-----------------------------------------------------------------------------
(* The open nodes. *)

\* An open node is a span of a trace.
LEMMA OpenIsOwned ==
  ASSUME Inv, NEW k \in 1 .. Len(spans), NodeState(spans[k]) = "open"
  PROVE  \E c \in live : \E i \in DOMAIN traces[c] :
           /\ k \in OwnedIds(traces[c][i])
           /\ traces[c][i].request = spans[k].request
           /\ ~Logged(traces[c][i].request)
           /\ k \in Left(traces[c][i]) <=> spans[k].kind = "location"
           /\ k = traces[c][i].request_span.id <=> spans[k].kind = "request"
<1>1. /\ spans \in Seq(Span) /\ DOMAIN spans = 1 .. Len(spans) /\ Len(spans) \in Nat
  BY LenProperties DEF Inv, TypeOK, TracingTypeOK
<1>2. spans[k].finishes = 0 /\ ~spans[k].destroyed
  <2>1. spans[k] \in Span
    BY <1>1
  <2> QED
    BY <2>1 DEF NodeState, Span
<1>3. PICK c \in live : k \in OwnedSpans(c)
  BY <1>1, <1>2 DEF Inv, SpanInv, NoSpanLeaked
<1>4. PICK i \in DOMAIN traces[c] : k \in OwnedIds(traces[c][i])
  BY <1>3 DEF OwnedSpans
<1>5. PICK t \in Trace : t = traces[c][i]
  BY OwnedTrace DEF Inv
<1>6. OwnsItsSpans(t) /\ t.span.id # t.request_span.id
  BY <1>5, OwnedTrace DEF Inv
<1>7. k # 0 /\ (k = t.request_span.id \/ k = t.span.id)
  BY <1>1, <1>4, <1>5 DEF OwnedIds
<1>8. /\ t.request = spans[k].request
      /\ ~Logged(t.request)
      /\ k \in Left(t) <=> spans[k].kind = "location"
      /\ k = t.request_span.id <=> spans[k].kind = "request"
  BY <1>2, <1>6, <1>7 DEF OwnsItsSpans, Left
<1> QED
  BY <1>4, <1>5, <1>8

\* The tree's open nodes of a kind are the open spans of that kind.
LEMMA OpenNodes ==
  ASSUME Inv, NEW kind, NEW r
  PROVE  \A k : k \in Tree!Open(kind, r) <=>
           /\ k \in 1 .. Len(spans)
           /\ spans[k].kind = kind
           /\ spans[k].request = r
           /\ NodeState(spans[k]) = "open"
<1>1. spans \in Seq(Span)
  BY DEF Inv, TypeOK, TracingTypeOK
<1>2. /\ DOMAIN SpanNodes = 1 .. Len(spans)
      /\ \A k \in 1 .. Len(spans) : /\ SpanNodes[k].kind = spans[k].kind
                                    /\ SpanNodes[k].request = spans[k].request
                                    /\ SpanNodes[k].state = NodeState(spans[k])
  BY <1>1, NodesType DEF NodeOf
<1> QED
  BY <1>2 DEF Tree!Open

\* The open nodes of a request that has a trace and was not logged are its
\* request span and, where locations are traced, its location span.
LEMMA OpenOfTrace ==
  ASSUME Inv, NEW c \in live, NEW i \in DOMAIN traces[c], NEW t,
         t = traces[c][i], NEW r, r = t.request, ~Logged(r)
  PROVE  /\ Tree!Open("request", r) = {t.request_span.id}
         /\ Tree!Open("location", r) = Left(t)
<1> DEFINE q == t.request_span.id
<1>1. /\ OwnsItsSpans(t)
      /\ q \in 1 .. Len(spans)
      /\ t.span.id \in 0 .. Len(spans)
      /\ Len(spans) \in Nat
  BY OwnedTrace, LenProperties DEF Inv, TypeOK, TracingTypeOK
<1>2. q \in Tree!Open("request", r)
  <2>1. /\ spans[q].kind = "request"
        /\ spans[q].request = r
        /\ NodeState(spans[q]) = "open"
    BY <1>1 DEF OwnsItsSpans, NodeState
  <2> QED
    BY <1>1, <2>1, OpenNodes
<1>3. ASSUME NEW k \in Left(t)
      PROVE  k \in Tree!Open("location", r)
  <2>1. k = t.span.id /\ t.conf \in TraceLocations /\ k # 0
    BY <1>1, <1>3 DEF Left, OwnsItsSpans
  <2>2. /\ spans[k].kind = "location"
        /\ spans[k].request = r
        /\ NodeState(spans[k]) = "open"
    BY <1>1, <2>1 DEF OwnsItsSpans, NodeState
  <2>3. k \in 1 .. Len(spans)
    BY <1>1, <2>1
  <2> QED
    BY <2>2, <2>3, OpenNodes
<1>4. ASSUME NEW kind \in {"request", "location"}, NEW k \in Tree!Open(kind, r)
      PROVE  IF kind = "request" THEN k = q ELSE k \in Left(t)
  <2>1. /\ k \in 1 .. Len(spans)
        /\ spans[k].kind = kind
        /\ spans[k].request = r
        /\ NodeState(spans[k]) = "open"
    BY <1>4, OpenNodes
  <2>2. PICK d \in live : \E j \in DOMAIN traces[d] :
          /\ traces[d][j].request = spans[k].request
          /\ k \in Left(traces[d][j]) <=> spans[k].kind = "location"
          /\ k = traces[d][j].request_span.id <=> spans[k].kind = "request"
    BY <2>1, OpenIsOwned
  <2>3. PICK j \in DOMAIN traces[d] :
          /\ traces[d][j].request = spans[k].request
          /\ k \in Left(traces[d][j]) <=> spans[k].kind = "location"
          /\ k = traces[d][j].request_span.id <=> spans[k].kind = "request"
    BY <2>2
  <2>4. d = c
    BY OneLive DEF Inv
  <2>5. j = i
    BY <2>1, <2>3, <2>4 DEF Inv, OneTracePerRequest
  <2> QED
    BY <2>1, <2>3, <2>4, <2>5
<1> QED
  BY <1>2, <1>3, <1>4

\* A request that has no trace has no open node.
LEMMA OpenOfNone ==
  ASSUME Inv, NEW c \in live, NEW r, ~HasTrace(c, r), NEW kind
  PROVE  Tree!Open(kind, r) = {}
<1> SUFFICES ASSUME NEW k \in Tree!Open(kind, r) PROVE FALSE
  OBVIOUS
<1>1. /\ k \in 1 .. Len(spans)
      /\ spans[k].request = r
      /\ NodeState(spans[k]) = "open"
  BY OpenNodes
<1>2. PICK d \in live : \E j \in DOMAIN traces[d] :
        traces[d][j].request = spans[k].request
  BY <1>1, OpenIsOwned
<1>3. d = c
  BY OneLive DEF Inv
<1> QED
  BY <1>1, <1>2, <1>3 DEF HasTrace, TracesOf

\* Without a context nothing is open.
LEMMA NothingIsOpen ==
  ASSUME Inv, live = {}
  PROVE  Tree!NothingOpen /\ \A kind, r : Tree!Open(kind, r) = {}
<1>1. spans \in Seq(Span)
  BY DEF Inv, TypeOK, TracingTypeOK
<1>2. \A k \in 1 .. Len(spans) : NodeState(spans[k]) # "open"
  BY OpenIsOwned
<1>3. DOMAIN SpanNodes = 1 .. Len(spans)
      /\ \A k \in 1 .. Len(spans) : SpanNodes[k].state = NodeState(spans[k])
  BY <1>1, NodesType DEF NodeOf
<1>4. Tree!NothingOpen
  BY <1>2, <1>3 DEF Tree!NothingOpen
<1>5. ASSUME NEW kind, NEW r
      PROVE  Tree!Open(kind, r) = {}
  BY <1>2, OpenNodes
<1> QED
  BY <1>4, <1>5

\* Marking nodes changes the open ones among them.
LEMMA MarkedNodes ==
  ASSUME Inv, NEW S, NEW state \in {"closed", "lost"}
  PROVE  /\ Tree!Mark(S, state) \in Seq(TreeNode)
         /\ Len(Tree!Mark(S, state)) = Len(spans)
         /\ \A k \in 1 .. Len(spans) :
              Tree!Mark(S, state)[k] =
                IF k \in S /\ NodeState(spans[k]) = "open"
                THEN InState(NodeOf(spans[k]), state)
                ELSE NodeOf(spans[k])
<1>1. spans \in Seq(Span) /\ Len(spans) \in Nat
  BY LenProperties DEF Inv, TypeOK, TracingTypeOK
<1>2. /\ DOMAIN SpanNodes = 1 .. Len(spans)
      /\ SpanNodes \in Seq(TreeNode)
      /\ \A k \in 1 .. Len(spans) : SpanNodes[k] = NodeOf(spans[k])
      /\ Len(SpanNodes) = Len(spans)
  BY <1>1, NodesType
<1>3. PICK m : m = Tree!Mark(S, state)
  OBVIOUS
<1>4. m = [k \in 1 .. Len(spans) |->
             IF k \in S /\ SpanNodes[k].state = "open"
             THEN [SpanNodes[k] EXCEPT !.state = state] ELSE SpanNodes[k]]
  BY <1>2, <1>3 DEF Tree!Mark
<1>5. \A k \in 1 .. Len(spans) : SpanNodes[k].state = NodeState(spans[k])
  BY <1>2 DEF NodeOf
<1>6. m \in [1 .. Len(spans) -> TreeNode]
  <2>1. \A k \in 1 .. Len(spans) :
          /\ SpanNodes[k] \in TreeNode
          /\ [SpanNodes[k] EXCEPT !.state = state] \in TreeNode
    <3>1. ASSUME NEW k \in 1 .. Len(spans)
          PROVE  SpanNodes[k] \in TreeNode
      BY <1>2
    <3> QED
      BY <3>1 DEF TreeNode
  <2> QED
    BY <1>4, <2>1
<1>7. m \in Seq(TreeNode) /\ Len(m) = Len(spans)
  <2>1. m \in Seq(TreeNode)
    BY <1>1, <1>6, FunctionIsSeq
  <2> QED
    BY <1>1, <1>6, <2>1, LenProperties
<1>8. \A k \in 1 .. Len(spans) :
        m[k] = IF k \in S /\ NodeState(spans[k]) = "open"
               THEN InState(NodeOf(spans[k]), state)
               ELSE NodeOf(spans[k])
  BY <1>2, <1>4, <1>5 DEF InState
<1> QED
  BY <1>3, <1>7, <1>8

-----------------------------------------------------------------------------
(* The steps that start nothing. *)

\* Logging a request that has a trace closes everything it has open.
LEMMA LogEnds ==
  ASSUME Inv, NEW r \in Requests, Processing(r), on_log_request_handler(r)
  PROVE  Tree!End(r) \/ UNCHANGED SpanNodes
<1> DEFINE c == get_opentracing_context(r)
           i == find_trace(c, r)
<1>1. /\ spans \in Seq(Span)
      /\ loc[r] \in Locs
      /\ ~Logged(r)
  BY DEF Inv, TypeOK, NginxTypeOK, TracingTypeOK, Logged, Processing
<1>2. CASE spans' = spans
  BY <1>2 DEF SpanNodes, NodeState
<1>3. CASE /\ c \in live
           /\ HasTrace(c, r)
           /\ spans' = on_log_request(spans, traces[c][i], loc[r])
  <2>1. i \in DOMAIN traces[c] /\ traces[c][i].request = r
    BY <1>3, FoundTrace DEF Inv, TypeOK
  <2>2. PICK t \in Trace : t = traces[c][i]
    BY <1>3, <2>1, OwnedTrace DEF Inv
  <2> DEFINE F == Left(t) \cup {t.request_span.id}
  <2>3. t.span.id # t.request_span.id
    BY <1>3, <2>1, <2>2, OwnedTrace DEF Inv
  <2>4. /\ Len(spans') = Len(spans)
        /\ Calls(spans, spans', F, {}, {active_span(t).id, t.request_span.id})
    BY <1>1, <1>3, <2>2, <2>3, LogEffect
  <2>5. /\ Tree!Open("request", r) = {t.request_span.id}
        /\ Tree!Open("location", r) = Left(t)
    BY <1>1, <1>3, <2>1, <2>2, OpenOfTrace
  <2>6. \A k \in F : NodeState(spans[k]) = "open"
    BY <2>5, OpenNodes
  <2>7. PICK m : m = Tree!Mark(F, "closed")
    OBVIOUS
  <2> HIDE DEF F
  <2>8. /\ m \in Seq(TreeNode)
        /\ Len(m) = Len(spans)
        /\ \A k \in 1 .. Len(spans) :
             m[k] = IF k \in F /\ NodeState(spans[k]) = "open"
                    THEN InState(NodeOf(spans[k]), "closed")
                    ELSE NodeOf(spans[k])
    BY <2>7, MarkedNodes
  <2>9. \A k \in 1 .. Len(spans) :
          m[k] = IF NodeState(spans[k]) # "open" \/ k \notin F \cup {}
                 THEN NodeOf(spans[k])
                 ELSE InState(NodeOf(spans[k]), IF k \in F THEN "closed" ELSE "lost")
    BY <2>8
  <2>10. SpanNodes' = m
    BY <1>1, <2>4, <2>6, <2>8, <2>9, NodesAfter
  <2> QED
    BY <2>5, <2>7, <2>10 DEF Tree!End, F
<1> QED
  BY <1>2, <1>3 DEF on_log_request_handler, UseAfterDelete, tracing_vars

\* The end of the pool loses everything still open.
LEMMA PoolTearsDown ==
  ASSUME Inv, DestroyPool
  PROVE  Tree!Teardown
<1> DEFINE owned == Contexts \cap {cleanups[i] : i \in DOMAIN cleanups}
<1>1. spans \in Seq(Span)
  BY DEF Inv, TypeOK, TracingTypeOK
<1>2. PICK ids : ids = UNION {OwnedSpans(c) : c \in owned}
  OBVIOUS
<1>3. spans' = DestroySpans(spans, ids)
  BY <1>2 DEF DestroyPool
<1>0. PICK F : F = {}
  OBVIOUS
<1>4. Calls(spans, spans', F, ids, F) /\ Len(spans') = Len(spans)
  BY <1>0, <1>1, <1>3, DestroySpansCall
<1>5. ASSUME NEW k \in 1 .. Len(spans), NodeState(spans[k]) = "open"
      PROVE  k \in ids
  <2>1. live \subseteq owned
    BY NoneLeft DEF Inv, ContextInv, DestroyPool
  <2>2. \E c \in live : k \in OwnedSpans(c)
    BY <1>5, OpenIsOwned DEF OwnedSpans
  <2> QED
    BY <1>2, <2>1, <2>2
<1>6. PICK m : m = Tree!Mark(DOMAIN SpanNodes, "lost")
  OBVIOUS
<1>7. /\ m \in Seq(TreeNode)
      /\ Len(m) = Len(spans)
      /\ \A k \in 1 .. Len(spans) :
           m[k] = IF k \in DOMAIN SpanNodes /\ NodeState(spans[k]) = "open"
                  THEN InState(NodeOf(spans[k]), "lost")
                  ELSE NodeOf(spans[k])
  BY <1>6, MarkedNodes
<1>8. DOMAIN SpanNodes = 1 .. Len(spans)
  BY <1>1, NodesType
<1>9. \A k \in 1 .. Len(spans) :
        m[k] = IF NodeState(spans[k]) # "open" \/ k \notin F \cup ids
               THEN NodeOf(spans[k])
               ELSE InState(NodeOf(spans[k]), IF k \in F THEN "closed" ELSE "lost")
  BY <1>0, <1>5, <1>7, <1>8
<1>10. /\ \A k \in 1 .. Len(spans) : k \in F => NodeState(spans[k]) = "open"
       /\ \A k \in 1 .. Len(spans') :
            k \notin 1 .. Len(spans) => m[k] = NodeOf(spans'[k])
       /\ m \in Seq(TreeNode)
       /\ Len(m) = Len(spans')
  BY <1>0, <1>4, <1>7
<1>11. SpanNodes' = m
  BY <1>1, <1>4, <1>9, <1>10, NodesAfter
<1> QED
  BY <1>6, <1>11 DEF Tree!Teardown

-----------------------------------------------------------------------------
(* The steps that start spans. *)

\* What a span that was just started is a node of.
LEMMA StartedNode ==
  ASSUME NEW s, NEW kind \in {"request", "location"}, NEW r \in Requests,
         NEW p \in Nat,
         s.kind = kind, s.request = r, s.parent = p \/ (p = 0 /\ s.parent = Remote),
         s.finishes = 0
  PROVE  /\ ~s.destroyed => NodeOf(s) = Tree!Node(kind, r, p, "open")
         /\ s.destroyed => NodeOf(s) = Tree!Node(kind, r, p, "lost")
         /\ NodeOf(s) \in TreeNode
<1>1. NodeOf(s) = Tree!Node(kind, r, p, IF s.destroyed THEN "lost" ELSE "open")
  <2>1. NodeState(s) = IF s.destroyed THEN "lost" ELSE "open"
    BY DEF NodeState
  <2>2. p = IF s.parent = Remote THEN 0 ELSE s.parent
    BY DEF Remote
  <2> QED
    BY <2>1, <2>2 DEF NodeOf, Tree!Node
<1> QED
  BY <1>1 DEF Tree!Node, TreeNode

\* A request that changes its block closes its location node and may open
\* another.
LEMMA ChangeEnters ==
  ASSUME Inv, NEW r \in Requests, NEW l \in Locs, NEW c \in live,
         phase[r] = "find", ChangeBlock(r, l, c)
  PROVE  Tree!Enter(r)
<1>1. PICK i \in DOMAIN traces[c], a \in FreeAddrs : Changed(r, l, c, i, a)
  BY ChangeShape
<1>2. PICK t \in Trace : t = traces[c][i]
  BY OwnedTrace DEF Inv
<1> DEFINE F == Left(t)
           D == IF l \in TraceLocations THEN {t.span.id} ELSE {}
           T == {active_span(t).id}
           n == Len(spans) + 1
           q == t.request_span.id
<1>3. /\ t.request = r
      /\ Calls(spans, spans', F, D, T)
      /\ Len(spans') = IF l \in TraceLocations THEN n ELSE Len(spans)
      /\ spans \in Seq(Span) /\ Len(spans) \in Nat
  BY <1>1, <1>2, LenProperties DEF Changed, Inv, TypeOK, TracingTypeOK
<1>4. OwnsItsSpans(t) /\ ~Logged(r) /\ q \in 1 .. Len(spans)
  BY <1>2, OwnedTrace DEF Inv, Logged
<1>5. /\ Tree!Open("request", r) = {q}
      /\ Tree!Open("location", r) = F
  BY <1>2, <1>3, <1>4, OpenOfTrace
<1>6. \A k \in F : NodeState(spans[k]) = "open"
  BY <1>5, OpenNodes
<1>7. \A k \in 1 .. Len(spans) : NodeState(spans[k]) = "open" /\ k \in D => k \in F
  <2>1. ASSUME NEW k \in 1 .. Len(spans), NodeState(spans[k]) = "open", k \in D
        PROVE  k \in F
    <3>1. spans[k].finishes = 0
      <4>1. spans[k] \in Span
        BY <1>3
      <4> QED
        BY <2>1, <4>1 DEF NodeState, Span
    <3> QED
      BY <1>3, <1>4, <2>1, <3>1 DEF OwnsItsSpans, Left
  <2> QED
    BY <2>1
<1>8. PICK left : left = Tree!Mark(F, "closed")
  OBVIOUS
<1> HIDE DEF F, D, T
<1>9. /\ left \in Seq(TreeNode)
      /\ Len(left) = Len(spans)
      /\ \A k \in 1 .. Len(spans) :
           left[k] = IF k \in F /\ NodeState(spans[k]) = "open"
                     THEN InState(NodeOf(spans[k]), "closed")
                     ELSE NodeOf(spans[k])
  BY <1>8, MarkedNodes
<1>10. \A k \in 1 .. Len(spans) :
         left[k] = IF NodeState(spans[k]) # "open" \/ k \notin F \cup D
                   THEN NodeOf(spans[k])
                   ELSE InState(NodeOf(spans[k]), IF k \in F THEN "closed" ELSE "lost")
  BY <1>7, <1>9
<1>11. CASE l \notin TraceLocations
  <2>1. SpanNodes' = left
    BY <1>3, <1>6, <1>9, <1>10, <1>11, NodesAfter
  <2> QED
    BY <1>5, <1>8, <2>1 DEF Tree!Enter
<1>12. CASE l \in TraceLocations
  <2>1. PICK node : node = Tree!Node("location", r, q, "open")
    OBVIOUS
  <2>2. /\ spans'[n].kind = "location"
        /\ spans'[n].request = r
        /\ spans'[n].parent = q
        /\ spans'[n].finishes = 0
        /\ ~spans'[n].destroyed
    BY <1>1, <1>2, <1>12 DEF Changed
  <2>3. q \in Nat
    BY <1>4
  <2> HIDE DEF n, q
  <2>4. NodeOf(spans'[n]) = node /\ node \in TreeNode
    BY <2>1, <2>2, <2>3, StartedNode
  <2>5. PICK m : m = Append(left, node)
    OBVIOUS
  <2>6. /\ m \in Seq(TreeNode)
        /\ Len(m) = Len(spans) + 1
        /\ \A k \in 1 .. Len(spans) : m[k] = left[k]
        /\ m[Len(spans) + 1] = node
    BY <1>9, <2>4, <2>5, AppendProperties
  <2>7. Len(m) = Len(spans')
    BY <1>3, <1>12, <2>6 DEF n
  <2>8. \A k \in 1 .. Len(spans') :
          k \notin 1 .. Len(spans) => m[k] = NodeOf(spans'[k])
    BY <1>3, <1>12, <2>4, <2>6 DEF n
  <2>9. \A k \in 1 .. Len(spans) :
          m[k] = IF NodeState(spans[k]) # "open" \/ k \notin F \cup D
                 THEN NodeOf(spans[k])
                 ELSE InState(NodeOf(spans[k]), IF k \in F THEN "closed" ELSE "lost")
    BY <1>10, <2>6
  <2>10. SpanNodes' = m
    BY <1>3, <1>6, <2>6, <2>7, <2>8, <2>9, NodesAfter
  <2> QED
    BY <1>5, <1>8, <2>1, <2>5, <2>10 DEF Tree!Enter
<1> QED
  BY <1>11, <1>12

\* Calls that act on no node that was there leave the tree with more nodes.
LEMMA TreeGrows ==
  ASSUME spans \in Seq(Span), NEW D, Calls(spans, spans', {}, D, {}),
         \A k \in 1 .. Len(spans) : k \notin D,
         NEW new \in Seq(TreeNode), Len(spans') = Len(spans) + Len(new),
         \A j \in 1 .. Len(new) : NodeOf(spans'[Len(spans) + j]) = new[j]
  PROVE  SpanNodes' = SpanNodes \o new
<1>1. /\ SpanNodes \in Seq(TreeNode)
      /\ Len(SpanNodes) = Len(spans)
      /\ \A k \in 1 .. Len(spans) : SpanNodes[k] = NodeOf(spans[k])
  BY NodesType
<1>2. Len(spans) \in Nat /\ Len(new) \in Nat
  BY LenProperties
<1>3. PICK m : m = SpanNodes \o new
  OBVIOUS
<1>4. /\ m \in Seq(TreeNode)
      /\ Len(m) = Len(spans) + Len(new)
      /\ \A k \in 1 .. Len(spans) + Len(new) :
           m[k] = IF k <= Len(spans) THEN SpanNodes[k] ELSE new[k - Len(spans)]
  <2>1. PICK old \in Seq(TreeNode) : old = SpanNodes
    BY <1>1
  <2>2. m = old \o new /\ Len(old) = Len(spans)
    BY <1>1, <1>3, <2>1
  <2>3. /\ m \in Seq(TreeNode)
        /\ Len(m) = Len(old) + Len(new)
        /\ \A k \in 1 .. Len(old) + Len(new) :
             m[k] = IF k <= Len(old) THEN old[k] ELSE new[k - Len(old)]
    BY <2>2, ConcatProperties
  <2> QED
    BY <2>1, <2>2, <2>3
<1>5. PICK F : F = {}
  OBVIOUS
<1>6. /\ Calls(spans, spans', F, D, F)
      /\ \A k \in 1 .. Len(spans) : k \in F => NodeState(spans[k]) = "open"
  BY <1>5
<1>7. \A k \in 1 .. Len(spans) :
        m[k] = IF NodeState(spans[k]) # "open" \/ k \notin F \cup D
               THEN NodeOf(spans[k])
               ELSE InState(NodeOf(spans[k]), IF k \in F THEN "closed" ELSE "lost")
  BY <1>1, <1>2, <1>4, <1>5
<1>8. ASSUME NEW k \in 1 .. Len(spans'), k \notin 1 .. Len(spans)
      PROVE  m[k] = NodeOf(spans'[k])
  <2>1. PICK j \in 1 .. Len(new) : k = Len(spans) + j
    <3>1. k - Len(spans) \in 1 .. Len(new) /\ k = Len(spans) + (k - Len(spans))
      BY <1>2, <1>8
    <3> QED
      BY <3>1
  <2>2. m[k] = new[j]
    <3>1. /\ k \in 1 .. Len(spans) + Len(new)
          /\ ~(k <= Len(spans))
          /\ k - Len(spans) = j
      BY <1>2, <1>8, <2>1
    <3> QED
      BY <1>4, <3>1
  <2> QED
    BY <2>1, <2>2
<1>9. SpanNodes' = m
  BY <1>4, <1>6, <1>7, <1>8, NodesAfter
<1> QED
  BY <1>3, <1>9

\* A span that was just started below p, and perhaps lost at once.
Fresh(s, kind, r, p, state) ==
    /\ s.kind = kind
    /\ s.request = r
    /\ s.parent = p \/ (p = 0 /\ s.parent = Remote)
    /\ s.finishes = 0
    /\ s.destroyed <=> state = "lost"

\* A request span, alone or with its first location span, adds the nodes that
\* a request starts.
LEMMA NodesStarted ==
  ASSUME spans \in Seq(Span), NEW D, Calls(spans, spans', {}, D, {}),
         \A k \in 1 .. Len(spans) : k \notin D,
         NEW r \in Requests, NEW p \in Nat, NEW state \in {"open", "lost"},
         NEW n, n = Len(spans) + 1,
         Len(spans') \in {n, Len(spans) + 2},
         Fresh(spans'[n], "request", r, p, state),
         Len(spans') # n => Fresh(spans'[Len(spans) + 2], "location", r, n, state)
  PROVE  \E new \in Tree!Started(r, p, state) : SpanNodes' = SpanNodes \o new
<1>1. Len(spans) \in Nat /\ n \in Nat /\ Len(SpanNodes) = Len(spans)
  BY LenProperties, NodesType
<1>2. PICK request : request = Tree!Node("request", r, p, state)
  OBVIOUS
<1>3. NodeOf(spans'[n]) = request /\ request \in TreeNode
  BY <1>2, StartedNode DEF Fresh
<1>4. CASE Len(spans') = n
  <2>1. PICK new : new = <<request>>
    OBVIOUS
  <2>2. /\ new \in Seq(TreeNode)
        /\ Len(new) = 1
        /\ new[1] = request
    BY <1>3, <2>1
  <2>3. \A j \in 1 .. Len(new) : NodeOf(spans'[Len(spans) + j]) = new[j]
    BY <1>1, <1>3, <2>2
  <2>4. SpanNodes' = SpanNodes \o new
    BY <1>1, <1>4, <2>2, <2>3, TreeGrows
  <2>5. new \in Tree!Started(r, p, state)
    BY <1>2, <2>1 DEF Tree!Started
  <2> QED
    BY <2>4, <2>5
<1>5. CASE Len(spans') # n
  <2>1. PICK location : location = Tree!Node("location", r, n, state)
    OBVIOUS
  <2>2. NodeOf(spans'[Len(spans) + 2]) = location /\ location \in TreeNode
    BY <1>1, <1>5, <2>1, StartedNode DEF Fresh
  <2>3. PICK new : new = <<request, location>>
    OBVIOUS
  <2>4. /\ new \in Seq(TreeNode)
        /\ Len(new) = 2
        /\ new[1] = request /\ new[2] = location
    BY <1>3, <2>2, <2>3
  <2>5. \A j \in 1 .. Len(new) : NodeOf(spans'[Len(spans) + j]) = new[j]
    <3>1. \A j \in 1 .. Len(new) : j = 1 \/ j = 2
      BY <2>4
    <3> QED
      BY <1>3, <2>2, <2>4, <3>1
  <2>6. SpanNodes' = SpanNodes \o new
    BY <1>1, <1>5, <2>4, <2>5, TreeGrows
  <2>7. new \in Tree!Started(r, p, state)
    BY <1>1, <1>2, <2>1, <2>3 DEF Tree!Started
  <2> QED
    BY <2>6, <2>7
<1> QED
  BY <1>4, <1>5

\* The first block of a client request, or of one whose context broke, is the
\* root of a tree.
LEMMA NewContextBegins ==
  ASSUME Inv, live = {}, NEW r \in Requests, NEW l \in Locs, NewContext(r, l)
  PROVE  Tree!Begin(r)
<1> DEFINE n == Len(spans) + 1
<1>1. /\ spans \in Seq(Span) /\ Len(spans) \in Nat
      /\ None = 0 /\ None \in Nat
      /\ Len(SpanNodes) = Len(spans)
  BY LenProperties, NodesType DEF Inv, TypeOK, TracingTypeOK, None
<1>2. spans' = StartTrace(spans, r, l, None)
  BY DEF NewContext
<1>3. /\ Calls(spans, spans', {}, {}, {})
      /\ Len(spans') = IF l \in TraceLocations THEN Len(spans) + 2 ELSE n
      /\ spans'[n] = RequestSpan(r, l, None)
      /\ l \in TraceLocations => spans'[Len(spans) + 2] = LocationSpan(r, l, n)
  BY <1>1, <1>2, StartEffect
<1>4. Fresh(spans'[n], "request", r, 0, "open")
  BY <1>3 DEF Fresh, RequestSpan, NewSpan, ParentOf, extract_span_context, None
<1>5. l \in TraceLocations => Fresh(spans'[Len(spans) + 2], "location", r, n, "open")
  BY <1>3 DEF Fresh, LocationSpan, NewSpan
<1>6. PICK p \in Nat : p = 0
  OBVIOUS
<1>7. \E new \in Tree!Started(r, p, "open") : SpanNodes' = SpanNodes \o new
  <2>1. \A k \in 1 .. Len(spans) : k \notin {}
    OBVIOUS
  <2>2. Len(spans') \in {n, Len(spans) + 2} /\ (Len(spans') # n => l \in TraceLocations)
    BY <1>1, <1>3
  <2> QED
    BY <1>1, <1>3, <1>4, <1>5, <1>6, <2>1, <2>2, NodesStarted
<1>8. Tree!Parent(p) /\ Tree!Open("request", r) = {}
  BY <1>6, NothingIsOpen DEF Tree!Parent
<1>9. p \in 0 .. Len(SpanNodes)
  BY <1>1, <1>6
<1> QED
  BY <1>7, <1>8, <1>9 DEF Tree!Begin

\* The node that requests hang from is the newest root, and not lost.
LEMMA TreeRoot ==
  ASSUME Inv, Rooted, NEW c \in live, NEW root, root = traces[c][1].request_span.id,
         ~spans[root].destroyed
  PROVE  Tree!Root(root)
<1>1. /\ spans \in Seq(Span) /\ DOMAIN spans = 1 .. Len(spans) /\ Len(spans) \in Nat
      /\ DOMAIN SpanNodes = 1 .. Len(spans)
      /\ \A k \in 1 .. Len(spans) : SpanNodes[k] = NodeOf(spans[k])
  BY LenProperties, NodesType DEF Inv, TypeOK, TracingTypeOK
<1>2. root \in 1 .. Len(spans)
  BY FirstTrace
<1>3. \A k \in 1 .. Len(spans) :
        SpanNodes[k].parent = 0 <=> spans[k].parent \in {None, Remote}
  BY <1>1 DEF NodeOf, None, Remote
<1>4. /\ spans[root].parent \in {None, Remote}
      /\ \A k \in 1 .. Len(spans) : k > root => spans[k].parent \notin {None, Remote}
  BY <1>1 DEF Rooted
<1>5. root \in Tree!Roots /\ \A k \in Tree!Roots : k <= root
  BY <1>1, <1>2, <1>3, <1>4 DEF Tree!Roots
<1>6. SpanNodes[root].state # "lost"
  BY <1>1, <1>2 DEF NodeOf, NodeState
<1> QED
  BY <1>5, <1>6 DEF Tree!Root

\* The first block of another request starts a child of the context's root.
LEMMA AddBegins ==
  ASSUME Inv, Rooted, NEW r \in Requests, NEW l \in Locs, NEW c \in live,
         phase[r] = "find", AddTrace(r, l, c)
  PROVE  Tree!Begin(r)
<1> DEFINE n == Len(spans) + 1
<1>1. /\ spans \in Seq(Span) /\ Len(spans) \in Nat
      /\ ~HasTrace(c, r)
      /\ Len(SpanNodes) = Len(spans)
      /\ DOMAIN SpanNodes = 1 .. Len(spans)
      /\ \A k \in 1 .. Len(spans) : SpanNodes[k] = NodeOf(spans[k])
  BY LenProperties, NodesType DEF AddTrace, Inv, TypeOK, TracingTypeOK
<1>2. PICK root : root = traces[c][1].request_span.id
  OBVIOUS
<1>3. /\ root \in 1 .. Len(spans)
      /\ spans[root].kind = "request"
      /\ ~spans[root].destroyed
  BY <1>1, <1>2, RootOpen
<1>4. root \in Nat /\ root # 0
  BY <1>1, <1>3
<1>5. spans' = StartTrace(spans, r, l, root)
  BY <1>2 DEF AddTrace
<1>6. /\ Calls(spans, spans', {}, {}, {})
      /\ Len(spans') = IF l \in TraceLocations THEN Len(spans) + 2 ELSE n
      /\ spans'[n] = RequestSpan(r, l, root)
      /\ l \in TraceLocations => spans'[Len(spans) + 2] = LocationSpan(r, l, n)
  BY <1>1, <1>4, <1>5, StartEffect
<1>7. Fresh(spans'[n], "request", r, root, "open")
  BY <1>4, <1>6 DEF Fresh, RequestSpan, NewSpan, ParentOf, None
<1>8. l \in TraceLocations => Fresh(spans'[Len(spans) + 2], "location", r, n, "open")
  BY <1>6 DEF Fresh, LocationSpan, NewSpan
<1>9. \E new \in Tree!Started(r, root, "open") : SpanNodes' = SpanNodes \o new
  <2>1. \A k \in 1 .. Len(spans) : k \notin {}
    OBVIOUS
  <2>2. Len(spans') \in {n, Len(spans) + 2} /\ (Len(spans') # n => l \in TraceLocations)
    BY <1>1, <1>6
  <2> QED
    BY <1>1, <1>4, <1>6, <1>7, <1>8, <2>1, <2>2, NodesStarted
<1>10. Tree!Parent(root)
  BY <1>2, <1>3, TreeRoot DEF Tree!Parent
<1>11. Tree!Open("request", r) = {}
  BY <1>1, OpenOfNone
<1>12. root \in 0 .. Len(SpanNodes)
  BY <1>1, <1>3
<1> QED
  BY <1>9, <1>10, <1>11, <1>12 DEF Tree!Begin

\* A context that could not be made leaves lost nodes, or none.
LEMMA NewContextFalls ==
  ASSUME Inv, live = {}, NEW r \in Requests, NEW l \in Locs, NewContextFails(r, l)
  PROVE  Tree!FalseStart(r) \/ UNCHANGED SpanNodes
<1> DEFINE n == Len(spans) + 1
<1>1. /\ spans \in Seq(Span) /\ Len(spans) \in Nat
      /\ None = 0 /\ None \in Nat
      /\ Tree!NothingOpen
  BY LenProperties, NothingIsOpen DEF Inv, TypeOK, TracingTypeOK, None
<1>2. PICK p \in Nat : p = 0
  OBVIOUS
<1>3. ASSUME NEW mid, NEW ids, Calls(spans, mid, {}, {}, {}),
             spans' = DestroySpans(mid, ids),
             \A k \in 1 .. Len(mid) : k \in ids <=> k \notin 1 .. Len(spans),
             \A k \in 1 .. Len(spans) : k \notin ids,
             Len(mid) \in {n, Len(spans) + 2},
             mid[n] = RequestSpan(r, l, None),
             Len(mid) # n => mid[Len(spans) + 2] = LocationSpan(r, l, n)
      PROVE  Tree!FalseStart(r)
  <2>1. mid \in Seq(Span) /\ Calls(mid, spans', {}, ids, {}) /\ Len(spans') = Len(mid)
    BY <1>3, DestroySpansCall DEF Calls
  <2>2. Calls(spans, spans', {}, ids, {})
    <3>1. Calls(spans, spans', {} \cup {}, {} \cup ids, {} \cup {})
      BY <1>1, <1>3, <2>1, CallsCompose
    <3> QED
      BY <3>1
  <2>3. n \in 1 .. Len(mid) /\ n \in ids
    BY <1>1, <1>3
  <2>4. Fresh(spans'[n], "request", r, p, "lost")
    <3>1. /\ mid[n].kind = "request"
          /\ mid[n].request = r
          /\ mid[n].parent \in {0, Remote}
          /\ mid[n].finishes = 0
      BY <1>3 DEF RequestSpan, NewSpan, ParentOf, extract_span_context, None
    <3> QED
      BY <1>2, <2>1, <2>3, <3>1 DEF Calls, Fresh
  <2>5. ASSUME Len(spans') # n
        PROVE  Fresh(spans'[Len(spans) + 2], "location", r, n, "lost")
    <3>1. /\ mid[Len(spans) + 2].kind = "location"
          /\ mid[Len(spans) + 2].request = r
          /\ mid[Len(spans) + 2].parent = n
          /\ mid[Len(spans) + 2].finishes = 0
      BY <1>3, <2>1, <2>5 DEF LocationSpan, NewSpan
    <3>2. Len(spans) + 2 \in 1 .. Len(mid) /\ Len(spans) + 2 \in ids
      BY <1>1, <1>3, <2>1, <2>5
    <3> QED
      BY <2>1, <3>1, <3>2 DEF Calls, Fresh
  <2>6. \A k \in 1 .. Len(spans) : k \notin ids
    BY <1>3
  <2>7. Len(spans') \in {n, Len(spans) + 2}
    BY <1>3, <2>1
  <2>8. \E new \in Tree!Started(r, p, "lost") : SpanNodes' = SpanNodes \o new
    BY <1>1, <1>2, <2>2, <2>4, <2>5, <2>6, <2>7, NodesStarted
  <2> QED
    BY <1>1, <1>2, <2>8 DEF Tree!FalseStart
<1>4. CASE UNCHANGED spans
  BY <1>4 DEF SpanNodes, NodeState
<1>5. CASE spans' = DestroySpans(Append(spans, RequestSpan(r, l, None)), {n})
  <2>1. PICK mid : mid = Append(spans, RequestSpan(r, l, None))
    OBVIOUS
  <2>2. RequestSpan(r, l, None) \in Span
    BY <1>1, StartedSpanType
  <2>3. /\ Calls(spans, mid, {}, {}, {})
        /\ Len(mid) = n
        /\ mid[n] = RequestSpan(r, l, None)
    BY <1>1, <2>1, <2>2, StartCall
  <2>4. PICK ids : ids = {n}
    OBVIOUS
  <2>5. /\ \A k \in 1 .. Len(mid) : k \in ids <=> k \notin 1 .. Len(spans)
        /\ \A k \in 1 .. Len(spans) : k \notin ids
    BY <1>1, <2>3, <2>4
  <2>6. spans' = DestroySpans(mid, ids)
    BY <1>5, <2>1, <2>4
  <2> QED
    BY <1>3, <2>3, <2>5, <2>6
<1>6. CASE spans' = DestroySpans(StartTrace(spans, r, l, None), n .. Len(spans) + 2)
  <2>1. PICK mid : mid = StartTrace(spans, r, l, None)
    OBVIOUS
  <2>2. PICK ids : ids = n .. Len(spans) + 2
    OBVIOUS
  <2>3. /\ Calls(spans, mid, {}, {}, {})
        /\ Len(mid) = IF l \in TraceLocations THEN Len(spans) + 2 ELSE n
        /\ mid[n] = RequestSpan(r, l, None)
        /\ l \in TraceLocations => mid[Len(spans) + 2] = LocationSpan(r, l, n)
    BY <1>1, <2>1, StartEffect
  <2>4. /\ \A k \in 1 .. Len(mid) : k \in ids <=> k \notin 1 .. Len(spans)
        /\ \A k \in 1 .. Len(spans) : k \notin ids
    BY <1>1, <2>2, <2>3
  <2>5. spans' = DestroySpans(mid, ids)
    BY <1>6, <2>1, <2>2
  <2>6. /\ Len(mid) \in {n, Len(spans) + 2}
        /\ Len(mid) # n => mid[Len(spans) + 2] = LocationSpan(r, l, n)
    BY <2>3
  <2> QED
    BY <1>3, <2>3, <2>4, <2>5, <2>6
<1> QED
  BY <1>4, <1>5, <1>6 DEF NewContextFails

\* The nodes after a breakdown: those of S are closed and the others lost.
Fallen(S) ==
    [i \in DOMAIN SpanNodes |->
       IF SpanNodes[i].state = "open" /\ i \notin S
       THEN [SpanNodes[i] EXCEPT !.state = "lost"]
       ELSE Tree!Mark(S, "closed")[i]]

\* A breakdown changes the open nodes only.
LEMMA FallenNodes ==
  ASSUME Inv, NEW S
  PROVE  /\ Fallen(S) \in Seq(TreeNode)
         /\ Len(Fallen(S)) = Len(spans)
         /\ \A k \in 1 .. Len(spans) :
              Fallen(S)[k] =
                IF NodeState(spans[k]) # "open" THEN NodeOf(spans[k])
                ELSE InState(NodeOf(spans[k]), IF k \in S THEN "closed" ELSE "lost")
<1>1. spans \in Seq(Span) /\ Len(spans) \in Nat
  BY LenProperties DEF Inv, TypeOK, TracingTypeOK
<1>2. /\ DOMAIN SpanNodes = 1 .. Len(spans)
      /\ SpanNodes \in Seq(TreeNode)
      /\ \A k \in 1 .. Len(spans) : SpanNodes[k] = NodeOf(spans[k])
  BY <1>1, NodesType
<1>3. PICK left : left = Tree!Mark(S, "closed")
  OBVIOUS
<1>4. /\ left \in Seq(TreeNode)
      /\ Len(left) = Len(spans)
      /\ \A k \in 1 .. Len(spans) :
           left[k] = IF k \in S /\ NodeState(spans[k]) = "open"
                     THEN InState(NodeOf(spans[k]), "closed")
                     ELSE NodeOf(spans[k])
  BY <1>3, MarkedNodes
<1>5. PICK m : m = Fallen(S)
  OBVIOUS
<1>6. m = [k \in 1 .. Len(spans) |->
             IF SpanNodes[k].state = "open" /\ k \notin S
             THEN InState(SpanNodes[k], "lost") ELSE left[k]]
  BY <1>2, <1>3, <1>5 DEF Fallen, InState
<1>7. ASSUME NEW k \in 1 .. Len(spans)
      PROVE  m[k] = IF NodeState(spans[k]) = "open" /\ k \notin S
                    THEN InState(NodeOf(spans[k]), "lost") ELSE left[k]
  <2>1. SpanNodes[k] = NodeOf(spans[k])
    BY <1>2
  <2>2. SpanNodes[k].state = NodeState(spans[k])
    BY <2>1 DEF NodeOf
  <2> QED
    BY <1>6, <2>1, <2>2
<1>8. \A k \in 1 .. Len(spans) :
        m[k] = IF NodeState(spans[k]) # "open" THEN NodeOf(spans[k])
               ELSE InState(NodeOf(spans[k]), IF k \in S THEN "closed" ELSE "lost")
  BY <1>4, <1>7
<1>9. m \in [1 .. Len(spans) -> TreeNode]
  <2>1. ASSUME NEW k \in 1 .. Len(spans)
        PROVE  m[k] \in TreeNode
    <3>1. NodeOf(spans[k]) \in TreeNode /\ left[k] \in TreeNode
      BY <1>2, <1>4, ElementOfSeq
    <3>2. InState(NodeOf(spans[k]), "lost") \in TreeNode
      BY <3>1 DEF InState, TreeNode
    <3> QED
      BY <1>7, <3>1, <3>2
  <2> QED
    BY <1>6, <2>1
<1>10. m \in Seq(TreeNode) /\ Len(m) = Len(spans)
  <2>1. m \in Seq(TreeNode)
    BY <1>1, <1>9, FunctionIsSeq
  <2> QED
    BY <1>1, <1>9, <2>1, LenProperties
<1> QED
  BY <1>5, <1>8, <1>10

\* When the context is destroyed all it owns falls, except for the location
\* node just closed.
LEMMA ContextFalls ==
  ASSUME Inv, NEW c \in live, NEW r \in Requests,
         NEW F, F = Tree!Open("location", r),
         NEW D, OwnedSpans(c) \subseteq D,
         NEW T, Calls(spans, spans', F, D, T),
         NEW n, n = Len(spans) + 1,
         NEW p \in 1 .. Len(spans),
         \/ Len(spans') = Len(spans)
         \/ /\ Len(spans') = n
            /\ spans'[n].kind = "request"
            /\ spans'[n].request = r
            /\ spans'[n].parent = p
            /\ spans'[n].finishes = 0
            /\ spans'[n].destroyed
            /\ Tree!Root(p)
  PROVE  Tree!BreakDown(r)
<1>1. /\ spans \in Seq(Span) /\ Len(spans) \in Nat /\ p \in Nat
      /\ DOMAIN SpanNodes = 1 .. Len(spans)
  BY LenProperties, NodesType DEF Inv, TypeOK, TracingTypeOK
<1>2. \A k \in 1 .. Len(spans) : k \in F => NodeState(spans[k]) = "open"
  BY OpenNodes
<1>3. ASSUME NEW k \in 1 .. Len(spans), NodeState(spans[k]) = "open"
      PROVE  k \in D
  <2>1. PICK d \in live : k \in OwnedSpans(d)
    BY <1>3, OpenIsOwned DEF OwnedSpans
  <2>2. d = c
    BY OneLive DEF Inv
  <2> QED
    BY <2>1, <2>2
<1>4. PICK m : m = Fallen(F)
  OBVIOUS
<1>5. /\ m \in Seq(TreeNode)
      /\ Len(m) = Len(spans)
      /\ \A k \in 1 .. Len(spans) :
           m[k] = IF NodeState(spans[k]) # "open" THEN NodeOf(spans[k])
                  ELSE InState(NodeOf(spans[k]), IF k \in F THEN "closed" ELSE "lost")
  BY <1>4, FallenNodes
<1>6. \A k \in 1 .. Len(spans) :
        m[k] = IF NodeState(spans[k]) # "open" \/ k \notin F \cup D
               THEN NodeOf(spans[k])
               ELSE InState(NodeOf(spans[k]), IF k \in F THEN "closed" ELSE "lost")
  BY <1>3, <1>5
<1>7. Tree!BreakDown(r) <=>
        \/ SpanNodes' = m
        \/ \E i \in DOMAIN SpanNodes :
             /\ Tree!Root(i)
             /\ SpanNodes' = Append(m, Tree!Node("request", r, i, "lost"))
  BY <1>4 DEF Tree!BreakDown, Fallen
<1>8. CASE Len(spans') = Len(spans)
  <2>1. SpanNodes' = m
    BY <1>1, <1>2, <1>5, <1>6, <1>8, NodesAfter
  <2> QED
    BY <1>7, <2>1
<1>9. CASE Len(spans') # Len(spans)
  <2>1. PICK node : node = Tree!Node("request", r, p, "lost")
    OBVIOUS
  <2>2. NodeOf(spans'[n]) = node /\ node \in TreeNode
    BY <1>1, <1>9, <2>1, StartedNode
  <2>3. PICK more : more = Append(m, node)
    OBVIOUS
  <2>4. /\ more \in Seq(TreeNode)
        /\ Len(more) = Len(spans) + 1
        /\ \A k \in 1 .. Len(spans) : more[k] = m[k]
        /\ more[Len(spans) + 1] = node
    BY <1>5, <2>2, <2>3, AppendProperties
  <2>5. /\ Len(more) = Len(spans')
        /\ \A k \in 1 .. Len(spans') :
             k \notin 1 .. Len(spans) => more[k] = NodeOf(spans'[k])
    BY <1>1, <1>9, <2>2, <2>4
  <2>6. \A k \in 1 .. Len(spans) :
          more[k] = IF NodeState(spans[k]) # "open" \/ k \notin F \cup D
                    THEN NodeOf(spans[k])
                    ELSE InState(NodeOf(spans[k]), IF k \in F THEN "closed" ELSE "lost")
    BY <1>6, <2>4
  <2>7. SpanNodes' = more
    BY <1>1, <1>2, <2>4, <2>5, <2>6, NodesAfter
  <2> QED
    BY <1>1, <1>7, <1>9, <2>1, <2>3, <2>7
<1> QED
  BY <1>8, <1>9

\* A block that cannot be entered takes the tree down.
LEMMA ChangeFailsBreaks ==
  ASSUME Inv, Rooted, NEW r \in Requests, NEW l \in Locs, NEW c \in live,
         phase[r] = "find", ChangeBlockFails(r, l, c)
  PROVE  Tree!BreakDown(r)
<1> DEFINE i == find_trace(c, r)
<1>1. /\ spans \in Seq(Span) /\ Len(spans) \in Nat
      /\ c = CleanupData /\ c # 0
      /\ ~Logged(r)
  BY LenProperties, OneLive DEF Inv, TypeOK, TracingTypeOK, Logged
<1>2. PICK ids : ids = OwnedSpans(c)
  OBVIOUS
<1>3. PICK n : n = Len(spans) + 1
  OBVIOUS
<1>4. PICK F : F = Tree!Open("location", r)
  OBVIOUS
<1>5. PICK root : root = traces[c][1].request_span.id
  OBVIOUS
<1>6. ASSUME NEW sp, destroy_opentracing_context(r, sp)
      PROVE  spans' = DestroySpans(sp, ids)
  BY <1>1, <1>2, <1>6 DEF destroy_opentracing_context
<1>7. CASE /\ HasTrace(c, r)
           /\ destroy_opentracing_context(r, on_exit_block(spans, traces[c][i]))
  <2>1. i \in DOMAIN traces[c] /\ traces[c][i].request = r
    BY <1>7, FoundTrace DEF Inv, TypeOK
  <2>2. PICK t \in Trace : t = traces[c][i]
    BY <2>1, OwnedTrace DEF Inv
  <2>3. PICK sp : sp = on_exit_block(spans, t)
    OBVIOUS
  <2>4. F = Left(t)
    BY <1>1, <1>4, <2>1, <2>2, OpenOfTrace
  <2>5. PICK T : T = {active_span(t).id}
    OBVIOUS
  <2>6. Calls(spans, sp, F, {}, T) /\ Len(sp) = Len(spans) /\ sp \in Seq(Span)
    BY <1>1, <2>3, <2>4, <2>5, ExitEffect DEF Calls
  <2>7. spans' = DestroySpans(sp, ids)
    BY <1>6, <1>7, <2>2, <2>3
  <2>8. Calls(sp, spans', {}, ids, {}) /\ Len(spans') = Len(spans)
    BY <2>6, <2>7, DestroySpansCall
  <2>9. Calls(spans, spans', F, {} \cup ids, T)
    <3>1. Calls(spans, spans', F \cup {}, {} \cup ids, T \cup {})
      BY <1>1, <2>6, <2>8, CallsCompose
    <3> QED
      BY <3>1
  <2>10. t.request_span.id \in 1 .. Len(spans) /\ OwnedSpans(c) \subseteq {} \cup ids
    BY <1>2, <2>1, <2>2, OwnedTrace DEF Inv
  <2> QED
    BY <1>3, <1>4, <2>8, <2>9, <2>10, ContextFalls
<1>8. CASE ~HasTrace(c, r) /\ destroy_opentracing_context(r, spans)
  <2>1. F = {}
    BY <1>4, <1>8, OpenOfNone
  <2>2. spans' = DestroySpans(spans, ids)
    BY <1>6, <1>8
  <2>3. Calls(spans, spans', F, ids, F) /\ Len(spans') = Len(spans)
    BY <1>1, <2>1, <2>2, DestroySpansCall
  <2>4. root \in 1 .. Len(spans) /\ OwnedSpans(c) \subseteq ids
    BY <1>2, <1>5, <1>8, RootOpen
  <2> QED
    BY <1>3, <1>4, <2>3, <2>4, ContextFalls
<1>9. CASE /\ ~HasTrace(c, r)
           /\ destroy_opentracing_context(
                r, DestroySpans(Append(spans, RequestSpan(r, l, root)), {n}))
  <2>1. PICK s : s = RequestSpan(r, l, root)
    OBVIOUS
  <2>2. root \in 1 .. Len(spans)
    BY <1>5, <1>9, RootOpen
  <2>3. /\ s \in Span
        /\ s.kind = "request"
        /\ s.parent = root
        /\ s.request = r
        /\ s.finishes = 0
    <3>1. root \in Nat /\ root # 0
      BY <1>1, <2>2
    <3> QED
      BY <2>1, <3>1, StartedSpanType DEF RequestSpan, NewSpan, ParentOf, None
  <2>4. PICK one : one = Append(spans, s)
    OBVIOUS
  <2>5. /\ Calls(spans, one, {}, {}, {})
        /\ Len(one) = n
        /\ one[n] = s
        /\ one \in Seq(Span)
        /\ n \in 1 .. Len(one)
    BY <1>1, <1>3, <2>3, <2>4, StartCall DEF Calls
  <2>6. PICK broken : broken = DestroySpans(one, {n})
    OBVIOUS
  <2>7. Calls(one, broken, {}, {n}, {}) /\ Len(broken) = n /\ broken \in Seq(Span)
    BY <2>5, <2>6, DestroySpansCall DEF Calls
  <2>8. spans' = DestroySpans(broken, ids)
    BY <1>6, <1>9, <2>1, <2>4, <2>6
  <2>9. Calls(broken, spans', {}, ids, {}) /\ Len(spans') = n
    BY <2>7, <2>8, DestroySpansCall
  <2>10. Calls(one, spans', {}, {n} \cup ids, {})
    <3>1. Calls(one, spans', {} \cup {}, {n} \cup ids, {} \cup {})
      BY <2>5, <2>7, <2>9, CallsCompose
    <3> QED
      BY <3>1
  <2>11. PICK D : D = {n} \cup ids
    OBVIOUS
  <2>12. F = {} /\ OwnedSpans(c) \subseteq D
    BY <1>2, <1>4, <1>9, <2>11, OpenOfNone
  <2>13. Calls(spans, spans', F, D, F)
    <3>1. Calls(spans, spans', {} \cup {}, {} \cup ({n} \cup ids), {} \cup {})
      BY <1>1, <2>5, <2>10, CallsCompose
    <3> QED
      BY <2>11, <2>12, <3>1
  <2>14. /\ spans'[n].kind = "request"
         /\ spans'[n].request = r
         /\ spans'[n].parent = root
         /\ spans'[n].finishes = 0
         /\ spans'[n].destroyed
    BY <2>3, <2>5, <2>10 DEF Calls
  <2>15. Tree!Root(root)
    <3>1. ~spans[root].destroyed
      BY <1>5, <1>9, RootOpen
    <3> QED
      BY <1>5, <3>1, TreeRoot
  <2> QED
    BY <1>3, <1>4, <2>2, <2>9, <2>12, <2>13, <2>14, <2>15, ContextFalls
<1> QED
  BY <1>3, <1>5, <1>7, <1>8, <1>9 DEF ChangeBlockFails

-----------------------------------------------------------------------------
(* The refinement. *)

\* A request that enters a block takes a step of the tree, or none.
LEMMA EnterBlockTree ==
  ASSUME Inv, Rooted, NEW r \in Requests, NEW l \in Locs, EnterBlock(r, l)
  PROVE  Tree!Next \/ UNCHANGED SpanNodes
<1>1. phase[r] = "find" /\ on_enter_block(r, l)
  BY DEF EnterBlock
<1>2. CASE UNCHANGED spans
  BY <1>2 DEF SpanNodes, NodeState
<1>3. ASSUME get_opentracing_context(r) = 0
      PROVE  live = {}
  <2>1. CleanupData = 0
    BY <1>1, <1>3, NothingToRecover DEF Inv
  <2> QED
    BY <2>1 DEF Inv, ContextInv, NewestEntryOwns
<1>4. CASE get_opentracing_context(r) = 0
  <2>1. NewContext(r, l) => Tree!Begin(r)
    BY <1>3, <1>4, NewContextBegins
  <2>2. NewContextFails(r, l) => Tree!FalseStart(r) \/ UNCHANGED SpanNodes
    BY <1>3, <1>4, NewContextFalls
  <2>3. NewContext(r, l) \/ NewContextFails(r, l) \/ UNCHANGED spans
    BY <1>1, <1>3, <1>4 DEF on_enter_block, UseAfterDelete, tracing_vars
  <2> QED
    BY <1>2, <2>1, <2>2, <2>3 DEF Tree!Next
<1>5. CASE get_opentracing_context(r) # 0
  <2>1. ASSUME NEW c \in live
        PROVE  /\ ChangeBlock(r, l, c) => Tree!Enter(r)
               /\ AddTrace(r, l, c) => Tree!Begin(r)
               /\ ChangeBlockFails(r, l, c) => Tree!BreakDown(r)
    BY <1>1, ChangeEnters, AddBegins, ChangeFailsBreaks
  <2>2. \/ \E c \in live :
             ChangeBlock(r, l, c) \/ AddTrace(r, l, c) \/ ChangeBlockFails(r, l, c)
        \/ UNCHANGED spans
    BY <1>1, <1>5 DEF on_enter_block, UseAfterDelete, tracing_vars
  <2> QED
    BY <1>2, <2>1, <2>2 DEF Tree!Next
<1> QED
  BY <1>4, <1>5

\* Every step of the context is a step of the tree, or none.
LEMMA TreeStep ==
  ASSUME Inv, Rooted, Next
  PROVE  Tree!Next \/ UNCHANGED SpanNodes
<1>1. Main \in Requests
  BY RequestsAssumption
<1>2. CASE UNCHANGED spans
  BY <1>2 DEF SpanNodes, NodeState
<1>3. ASSUME NEW r \in Requests,
             \/ Rewrite(r)
             \/ InternalRedirect(r)
             \/ CreateSubrequest(r)
             \/ expand_opentracing_context_variable(r)
             \/ expand_opentracing_binary_context_variable(r)
      PROVE  UNCHANGED spans
  BY <1>3 DEF Rewrite, InternalRedirect, CreateSubrequest, tracing_vars, UseAfterDelete,
              expand_opentracing_context_variable,
              expand_opentracing_binary_context_variable
<1>4. ASSUME NEW r \in Requests, Processing(r),
             on_log_request_handler(r) \/ UNCHANGED tracing_vars
      PROVE  Tree!Next \/ UNCHANGED SpanNodes
  BY <1>2, <1>4, LogEnds DEF Tree!Next, tracing_vars
<1>5. ASSUME NEW r \in Requests, FinalizeSubrequest(r)
      PROVE  Tree!Next \/ UNCHANGED SpanNodes
  BY <1>4, <1>5 DEF FinalizeSubrequest
<1>6. CASE FinalizeMain \/ TerminateMain
  BY <1>1, <1>4, <1>6 DEF FinalizeMain, TerminateMain
<1>7. CASE DestroyPool
  BY <1>7, PoolTearsDown DEF Tree!Next
<1> QED
  BY <1>2, <1>3, <1>5, <1>6, <1>7, EnterBlockTree DEF Next

\* The handlers (opentracing_handler.cpp) keep the promise of TraceTree: what
\* each does to the spans through contexts, ctx slots and the cleanup list is
\* one step of a tree of request and location nodes, or none.
THEOREM ImplementsTree == Spec => ImplementsTraceTree
<1>1. Init => Tree!Init
  BY DEF Init, Tree!Init, SpanNodes
<1>2. Inv /\ Rooted /\ [Next]_vars => [Tree!Next]_SpanNodes
  <2> SUFFICES ASSUME Inv, Rooted, [Next]_vars
               PROVE  Tree!Next \/ UNCHANGED SpanNodes
    OBVIOUS
  <2>1. CASE UNCHANGED vars
    BY <2>1 DEF vars, SpanNodes, NodeState
  <2> QED
    BY <2>1, TreeStep
<1> QED
  BY <1>1, <1>2, Invariant, AlwaysRooted, PTL DEF Spec, ImplementsTraceTree, Tree!Spec

=============================================================================
