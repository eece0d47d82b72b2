---------------------------- MODULE Propagation ----------------------------
(***************************************************************************)
(* A span context on its way through nginx, key by key: read from the      *)
(* client's headers (extract_span_context.cpp), and sent on to an upstream *)
(* in headers whose names were fixed when the configuration was read       *)
(* (discover_span_context_keys.cpp, opentracing_directive.cpp) and whose   *)
(* values are looked up per request (opentracing_variable.cpp,             *)
(* span_context_querier.cpp). TracingContext knows an expansion by the     *)
(* span it is of; here it is the pairs the tracer gave.                    *)
(*                                                                         *)
(* One request is followed from its headers to its last upstream request.  *)
(***************************************************************************)
EXTENDS Integers, Sequences, SequencesExt

CONSTANTS
    Lowercase,          \* the lower-case form of each upper-case letter
    KeyLists,           \* the keys a tracer may inject for a span, in order
    Addr,               \* addresses of spans
    NoAddr,             \* nullptr
    PartSize,           \* elements in a part of an ngx_list_t
    MaxHeaders,         \* bound on the client's headers
    MaxSpans            \* bound on the spans started for the request

ASSUME LowercaseAssumption ==
    /\ \A c, d \in DOMAIN Lowercase : Lowercase[c] = Lowercase[d] => c = d
    /\ \A c \in DOMAIN Lowercase : Lowercase[c] \notin DOMAIN Lowercase
    /\ {"-", "_"} \cap (DOMAIN Lowercase \cup {Lowercase[c] : c \in DOMAIN Lowercase}) = {}
ASSUME KeyListsAssumption == KeyLists \subseteq Seq(Seq(STRING))
ASSUME PropagationBounds ==
    /\ PartSize \in Nat \ {0}
    /\ MaxHeaders \in Nat /\ MaxSpans \in Nat \ {0}
    /\ NoAddr \notin Addr

VARIABLES
    \* the configuration
    fastcgi,            \* opentracing_fastcgi_propagate_context was given
    span_context_keys,  \* what discover_span_context_keys found
    \* the client's headers
    parts,              \* headers_in.headers: a list of arrays of headers
    reader,             \* Extract: "idle", in its "loop" or "done"
    part, i,            \* for_each's position, i from 0
    callbacks,          \* the headers f was called with
    failures,           \* history: how many of those calls failed
    result,             \* the last f succeeded
    \* the trace
    injects,            \* the keys each span's context is injected with
    request_span,       \* address of span 1, NoAddr before it starts
    span,               \* number and address of the location span
    traced,             \* loc_conf_->enable_locations
    values_span,        \* the querier's members
    span_context_expansion,
    expansions,         \* Inject calls since the block was entered
    sent                \* the headers added to the last upstream request

headers_vars == <<parts, reader, part, i, callbacks, failures, result>>
block_vars == <<injects, request_span, span, traced>>
querier_vars == <<values_span, span_context_expansion, expansions>>
vars == <<fastcgi, span_context_keys, headers_vars, block_vars, querier_vars, sent>>

-----------------------------------------------------------------------------
(* Keys are sequences of characters. *)

tolower(c) == IF c \in DOMAIN Lowercase THEN Lowercase[c] ELSE c
toupper(c) ==
    IF \E d \in DOMAIN Lowercase : Lowercase[d] = c
    THEN CHOOSE d \in DOMAIN Lowercase : Lowercase[d] = c ELSE c

\* Mutant: dashes are kept.
header_transform_lower(c) == tolower(c)

header_transform(c) == IF c = "-" THEN "_" ELSE tolower(c)

cgi_transform(c) == IF c = "-" THEN "_" ELSE toupper(c)

\* The name after $opentracing_context_ for a key.
Suffix(key) == [n \in DOMAIN key |-> header_transform(key[n])]

make_fastcgi_span_context_key(key) ==
    [prefix |-> "HTTP_", key |-> [n \in DOMAIN key |-> cgi_transform(key[n])]]

HeaderName(key) ==
    IF fastcgi THEN make_fastcgi_span_context_key(key) ELSE [prefix |-> "", key |-> key]

-----------------------------------------------------------------------------
(* Reading the headers (for_each, NgxHeaderCarrierReader::ForeachKey).     *)

Headers == FlattenSeq(parts)
Garbage == 0

\* nginx pushes a header: in the last part, or in a new one when it is full.
ngx_list_push ==
    /\ reader = "idle" /\ request_span = NoAddr /\ Len(Headers) < MaxHeaders
    /\ LET header == Len(Headers) + 1
       IN  parts' = IF Len(Last(parts)) < PartSize
                    THEN Front(parts) \o <<Append(Last(parts), header)>>
                    ELSE Append(parts, <<header>>)
    /\ UNCHANGED <<fastcgi, span_context_keys, reader, part, i, callbacks,
                   failures, result, block_vars, querier_vars, sent>>

extract_span_context ==
    /\ reader = "idle" /\ request_span = NoAddr
    /\ reader' = "loop" /\ result' = TRUE /\ part' = 1 /\ i' = 0
    /\ UNCHANGED <<fastcgi, span_context_keys, parts, callbacks, failures,
                   block_vars, querier_vars, sent>>

\* Mutant: the index goes on counting in the next part.
next_element_no_reset ==
    [part |-> IF i >= Len(parts[part]) THEN part + 1 ELSE part, i |-> i]

\* Where one pass of the loop finds its element.
next_element ==
    IF i >= Len(parts[part]) THEN [part |-> part + 1, i |-> 0]
                             ELSE [part |-> part, i |-> i]

\* One pass. Once f has failed the loop runs on without it.
for_each ==
    /\ reader = "loop"
    /\ \/ /\ i >= Len(parts[part]) /\ part = Len(parts)
          /\ reader' = "done"
          /\ UNCHANGED <<part, i, callbacks, failures, result>>
       \/ /\ i < Len(parts[part]) \/ part < Len(parts)
          /\ part' = next_element.part /\ i' = next_element.i + 1
          /\ \/ ~result /\ UNCHANGED <<callbacks, failures, result>>
             \/ /\ result
                /\ callbacks' = Append(callbacks,
                                       IF i' <= Len(parts[part'])
                                       THEN parts[part'][i'] ELSE Garbage)
                /\ result' \in BOOLEAN
                /\ failures' = IF result' THEN failures ELSE failures + 1
          /\ UNCHANGED reader
    /\ UNCHANGED <<fastcgi, span_context_keys, parts, block_vars, querier_vars, sent>>

-----------------------------------------------------------------------------
(* The request and its blocks, as TracingContext has them in full.         *)

\* The request span starts, after the headers were read or without it when
\* the location does not trust them, and with it the first block.
StartRequest ==
    /\ reader \in {"idle", "done"} /\ request_span = NoAddr
    /\ \E a \in Addr, keys \in KeyLists :
         request_span' = a /\ injects' = <<keys>>
    /\ UNCHANGED <<fastcgi, span_context_keys, headers_vars, span, traced,
                   querier_vars, sent>>

\* on_change_block. The new location span is allocated while the old one is
\* still held; a block without a span of its own keeps it too.
ChangeBlock ==
    /\ request_span # NoAddr
    /\ \/ /\ traced' = TRUE
          /\ Len(injects) < MaxSpans
          /\ \E a \in Addr \ {request_span, span.addr}, keys \in KeyLists :
               /\ span' = [no |-> Len(injects) + 1, addr |-> a]
               /\ injects' = Append(injects, keys)
       \/ /\ traced /\ traced' = FALSE
          /\ UNCHANGED <<injects, span>>
    /\ expansions' = 0
    /\ UNCHANGED <<fastcgi, span_context_keys, headers_vars, request_span,
                   values_span, span_context_expansion, sent>>

active_span == IF traced THEN span ELSE [no |-> 1, addr |-> request_span]

-----------------------------------------------------------------------------
(* The querier.                                                            *)

Empty == [span |-> 0, key |-> <<>>]

\* Mutant: the keys are kept as the tracer gave them.
Expansion_untransformed(no, keys) ==
    [n \in DOMAIN keys |-> <<keys[n], [span |-> no, key |-> keys[n]]>>]

\* SpanContextValueExpander::Set for each pair of a context.
Expansion(no, keys) ==
    [n \in DOMAIN keys |-> <<Suffix(keys[n]), [span |-> no, key |-> keys[n]]>>]

\* Mutant: the old expansion is not cleared.
expand_span_context_values_keep ==
    /\ values_span' = active_span.addr
    /\ \E n \in 0 .. Len(injects[active_span.no]) :
         span_context_expansion' = span_context_expansion
           \o Expansion(active_span.no, SubSeq(injects[active_span.no], 1, n))
    /\ expansions' = expansions + 1

\* Mutant: a failed Inject is tried again at the next variable.
expand_span_context_values_retry ==
    \E n \in 0 .. Len(injects[active_span.no]) :
      /\ values_span' = IF n < Len(injects[active_span.no])
                        THEN NoAddr ELSE active_span.addr
      /\ span_context_expansion' =
           Expansion(active_span.no, SubSeq(injects[active_span.no], 1, n))
      /\ expansions' = expansions + 1

\* Inject may fail after any number of pairs; what it set is kept.
expand_span_context_values ==
    /\ values_span' = active_span.addr
    /\ \E n \in 0 .. Len(injects[active_span.no]) :
         span_context_expansion' =
           Expansion(active_span.no, SubSeq(injects[active_span.no], 1, n))
    /\ expansions' = expansions + 1

\* The value of the first pair with the key, empty without one.
FirstValue(expansion, suffix) ==
    LET n == SelectInSeq(expansion, LAMBDA pair : pair[1] = suffix)
    IN  IF n = 0 THEN Empty ELSE expansion[n][2]

\* Looking a first variable up fills the expansion, others then read it.
lookup_value ==
    \/ /\ active_span.addr # values_span
       /\ expand_span_context_values
    \/ /\ active_span.addr = values_span
       /\ UNCHANGED querier_vars

\* One $opentracing_context_ variable is read, say for an access log.
expand_opentracing_context_variable ==
    /\ request_span # NoAddr
    /\ lookup_value
    /\ UNCHANGED <<fastcgi, span_context_keys, headers_vars, block_vars, sent>>

\* nginx builds an upstream request: each header that the directive set up
\* (propagate_opentracing_context and its two sisters) is evaluated, in one
\* event. The first one expands the active span's context if need be, and the
\* others find its address cached: one lookup_value stands for all of them.
CreateUpstreamRequest ==
    /\ request_span # NoAddr /\ span_context_keys # <<>>
    /\ lookup_value
    /\ sent' = [n \in DOMAIN span_context_keys |->
                  [name  |-> HeaderName(span_context_keys[n]),
                   value |-> FirstValue(span_context_expansion',
                                        Suffix(span_context_keys[n]))]]
    /\ UNCHANGED <<fastcgi, span_context_keys, headers_vars, block_vars>>

-----------------------------------------------------------------------------
\* The keys that the tracer injected for the dummy span. When that Inject fails
\* the configuration is rejected, and there is no request.
discover_span_context_keys == KeyLists

Init ==
    /\ fastcgi \in BOOLEAN
    /\ span_context_keys \in discover_span_context_keys
    /\ parts = <<<<>>>> /\ reader = "idle" /\ part = 1 /\ i = 0
    /\ callbacks = <<>> /\ failures = 0 /\ result = TRUE
    /\ injects = <<>> /\ request_span = NoAddr
    /\ span = [no |-> 0, addr |-> NoAddr] /\ traced = FALSE
    /\ values_span = NoAddr /\ span_context_expansion = <<>> /\ expansions = 0
    /\ sent = <<>>

Next ==
    \/ ngx_list_push \/ extract_span_context \/ for_each
    \/ StartRequest \/ ChangeBlock
    \/ expand_opentracing_context_variable \/ CreateUpstreamRequest

Spec == Init /\ [][Next]_vars

-----------------------------------------------------------------------------
(* Properties.                                                             *)

\* Characters, and keys, that differ at most in case and in "-" for "_".
AlikeCharacters(c, d) ==
    \/ c = d \/ {c, d} = {"-", "_"}
    \/ c \in DOMAIN Lowercase /\ Lowercase[c] = d
    \/ d \in DOMAIN Lowercase /\ Lowercase[d] = c
Alike(key1, key2) ==
    /\ DOMAIN key1 = DOMAIN key2
    /\ \A n \in DOMAIN key1 : AlikeCharacters(key1[n], key2[n])

\* The callback sees the client's headers in order, each once, nothing past
\* the end of a part, and all of them unless it failed: then the last it saw
\* is the one it failed at, and the failure is what Extract is told
\* (ForeachKey's callback in for_each over the parts of the list, utility.h).
EachHeaderReadOnce ==
    /\ IsPrefix(callbacks, Headers)
    /\ failures = IF result THEN 0 ELSE 1
    /\ reader = "done" /\ result => callbacks = Headers

\* The headers of one upstream request never mix the contexts of two spans,
\* though each is looked up on its own and spans come and go between requests.
OneSpanPerRequest ==
    \A m, n \in DOMAIN sent :
      Empty \notin {sent[m].value, sent[n].value} =>
        sent[m].value.span = sent[n].value.span

\* The keys of an expansion that are alike to a key.
AlikeKeys(expansion, key) ==
    {pair[2].key : pair \in {p \in Range(expansion) : Alike(p[2].key, key)}}

CarriesContext(header, key, expansion) ==
    /\ header.value.key \in AlikeKeys(expansion, key) \cup {Empty.key}
    /\ AlikeKeys(expansion, key) = {key} => header.value.key = key

\* A header carries the value that the tracer gave for its own key, wherever
\* that key comes in the context, unless another key of the context is alike
\* up to case and dashes; and never the value of a key that is not. What comes
\* after the failure of Inject is sent empty.
HeadersCarryContext ==
    [][sent' # sent =>
         \A n \in DOMAIN sent' :
           CarriesContext(sent'[n], span_context_keys[n], span_context_expansion')]_vars

\* The context is injected once for all the variables read in a block, even
\* when that fails: "it will only be expanded once" (request_tracing.cpp, the
\* comment on lookup_span_context_value).
ExpandedOncePerBlock == expansions <= 1

\* Two keys that become one FastCGI parameter are read from one variable, so
\* that the parameter never has two values.
ParametersAgree ==
    \A m, n \in DOMAIN sent :
      fastcgi /\ sent[m].name = sent[n].name => sent[m].value = sent[n].value
=============================================================================
