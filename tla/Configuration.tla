---------------------------- MODULE Configuration ----------------------------
(***************************************************************************)
(* From nginx.conf to a worker with a tracer: the module's directives      *)
(* (opentracing_directive.cpp, opentracing_conf_handler.cpp), the merging  *)
(* of a block's configuration with that of the block around it             *)
(* (ngx_http_opentracing_module.cpp), and the loading of the tracer, once  *)
(* in the master to discover its header keys and once in the worker        *)
(* (load_tracer.cpp, discover_span_context_keys.cpp).                      *)
(*                                                                         *)
(* nginx parses the file in order, opening and closing nested blocks, and  *)
(* merges the blocks from the outermost in once it has all of them.        *)
(***************************************************************************)
EXTENDS Integers, Sequences, FiniteSets, SequencesExt

CONSTANTS
    Blocks,         \* http, server and location blocks
    Http,           \* the outermost block
    Around,         \* the block around each other block
    Libraries,      \* tracer libraries with their configuration files
    Loadable,       \* those that load and construct a tracer
    KeysOf,         \* the keys, in order, that each library's tracer injects
    None,           \* no library, no tracer
    Commands,       \* the directives of nginx's modules, in module order
    Malformed,      \* a pattern that ngx_http_script_compile refuses
    Patterns,       \* the key arguments of opentracing_tag directives
    KeyOf,          \* what a pattern evaluates to in the request considered
    Values,         \* the value arguments
    DefaultTags,    \* default_opentracing_tags, in order
    MaxDirectives   \* bound on the directives in the file

Unset == "unset"   \* NGX_CONF_UNSET, and a script that is not given

ASSUME BlocksAssumption ==
    /\ Http \in Blocks
    /\ Unset \notin Blocks
    /\ Around \in [Blocks \ {Http} -> Blocks]
ASSUME LibrariesAssumption ==
    /\ Loadable \subseteq Libraries
    /\ KeysOf \in [Libraries -> Seq(STRING)]
    /\ None \notin Libraries
ASSUME CommandsAssumption ==
    Commands \in Seq([name : STRING, blocks : SUBSET Blocks, takes : SUBSET Nat,
                      is_block : BOOLEAN])
ASSUME MaxDirectivesAssumption == MaxDirectives \in Nat

\* Directives of the proxy, fastcgi and grpc modules that carry headers.
Propagators == {"proxy_set_header", "fastcgi_param", "grpc_set_header"}

\* Flags with the value merging gives them when no block sets them; scripts
\* have none.
Default == [enable |-> "off", enable_locations |-> "on",
            trust_incoming_span |-> "on"]
Flags == DOMAIN Default
Scripts == {"operation_name_script", "loc_operation_name_script"}

VARIABLES
    status,             \* parsing, merging, merged, ready, serving, exited, rejected
    block,              \* the block being parsed
    opened,             \* the blocks parsed so far
    merged,             \* the blocks merged so far
    written,            \* the directives of each block, in order
    slots,              \* flags and scripts of each block's loc_conf
    arrays,             \* ngx_arrays of tags
    tags,               \* loc_conf->tags: an index in arrays, 0 for null
    tracer_library,     \* main_conf->tracer_library
    span_context_keys,  \* main_conf->span_context_keys
    headers,            \* headers each block adds to upstream requests
    default_tags,       \* main_conf->tags
    handlers,           \* the module's handlers in nginx's phases
    global_tracer       \* Tracer::Global() in the worker

main_conf_vars == <<tracer_library, span_context_keys>>
loc_conf_vars == <<slots, arrays, tags>>
vars == <<status, block, opened, merged, written, slots, arrays, tags,
          tracer_library, span_context_keys, headers, default_tags, handlers,
          global_tracer>>
init_vars == <<default_tags, handlers>>

Tag(key, value) == [key |-> key, value |-> value]

Init ==
    /\ status = "parsing"
    /\ block = Http
    /\ opened = {Http}
    /\ merged = {Http}
    /\ written = [b \in Blocks |-> <<>>]
    /\ slots = [b \in Blocks |-> [s \in Flags \cup Scripts |-> Unset]]
    /\ arrays = <<>>
    /\ tags = [b \in Blocks |-> 0]
    /\ tracer_library = None
    /\ span_context_keys = <<>>
    /\ headers = [b \in Blocks |-> <<>>]
    /\ default_tags = <<>>
    /\ handlers = [rewrite |-> <<>>, log |-> <<>>]
    /\ global_tracer = None

-----------------------------------------------------------------------------
(* Parsing. *)

OpenBlock(b) ==
    /\ status = "parsing"
    /\ b \in Blocks \ opened
    /\ Around[b] = block
    /\ block' = b
    /\ opened' = opened \cup {b}
    /\ UNCHANGED <<status, merged, written, loc_conf_vars, main_conf_vars,
                   headers, init_vars, global_tracer>>

CloseBlock ==
    /\ status = "parsing"
    /\ IF block = Http
       THEN /\ status' = IF opened = merged THEN "merged" ELSE "merging"
            /\ UNCHANGED block
       ELSE block' = Around[block] /\ UNCHANGED status
    /\ UNCHANGED <<opened, merged, written, loc_conf_vars, main_conf_vars,
                   headers, init_vars, global_tracer>>

Count == FoldSet(LAMBDA b, n : n + Len(written[b]), 0, Blocks)

\* The next directive of the block. It is rejected, and the file with it, or
\* takes effect.
Directive(d) ==
    /\ status = "parsing"
    /\ Count < MaxDirectives
    /\ written' = [written EXCEPT ![block] = Append(@, d)]
    /\ UNCHANGED <<block, opened, merged, init_vars, global_tracer>>

Accepted == status' = status
Rejected == status' = "rejected"

\* ngx_conf_set_flag_slot and set_script both refuse a second value.
set_slot(s, value) ==
    /\ Directive([set |-> s, to |-> value])
    /\ IF slots[block][s] # Unset
       THEN Rejected /\ UNCHANGED slots
       ELSE Accepted /\ slots' = [slots EXCEPT ![block][s] = value]
    /\ UNCHANGED <<arrays, tags, main_conf_vars, headers>>

ngx_conf_set_flag_slot(flag, value) == set_slot(flag, value)

\* NgxScript::compile. A pattern without variables is not compiled at all.
compile(pattern) == pattern # Malformed

\* A script that compiles is known by the block that gives it.
set_script(s) ==
    \/ set_slot(s, block)
    \/ /\ Directive([set |-> s, to |-> Malformed])
       /\ Rejected
       /\ UNCHANGED <<loc_conf_vars, main_conf_vars, headers>>

set_opentracing_operation_name == set_script("operation_name_script")
set_opentracing_location_operation_name == set_script("loc_operation_name_script")

\* Mutant: the index of the array that is created is one too high.
set_opentracing_tag_off_by_one(key, value) ==
    /\ Directive([set |-> "tag", to |-> Tag(key, value)])
    /\ Accepted
    /\ arrays' = Append(arrays, <<Tag(key, value)>>)
    /\ tags' = [tags EXCEPT ![block] = Len(arrays) + 2]
    /\ UNCHANGED <<slots, main_conf_vars, headers>>

\* The tag is in the array before its scripts are compiled.
set_opentracing_tag(key, value) ==
    /\ Directive([set |-> "tag", to |-> Tag(key, value)])
    /\ IF compile(key) /\ compile(value) THEN Accepted ELSE Rejected
    /\ IF tags[block] = 0
       THEN /\ arrays' = Append(arrays, <<Tag(key, value)>>)
            /\ tags' = [tags EXCEPT ![block] = Len(arrays) + 1]
       ELSE /\ arrays' = [arrays EXCEPT ![tags[block]] = Append(@, Tag(key, value))]
            /\ UNCHANGED tags
    /\ UNCHANGED <<slots, main_conf_vars, headers>>

HttpAndServers == {Http} \cup {b \in Blocks \ {Http} : Around[b] = Http}

\* The library loads and makes a tracer (Worker has the steps).
load_tracer(library) == library \in Loadable

\* What may be discovered: the keys that the tracer injects for a dummy span,
\* in order, or null when there is no tracer or its Inject fails.
discover_span_context_keys(library) ==
    {[null |-> TRUE, keys |-> <<>>]} \cup
      IF load_tracer(library) THEN {[null |-> FALSE, keys |-> KeysOf[library]]} ELSE {}

\* opentracing_load_tracer is allowed in http and server blocks, any number of
\* times. The library is stored before its keys are discovered, and so is null.
set_tracer(library) ==
    /\ block \in HttpAndServers
    /\ Directive([set |-> "tracer", to |-> library])
    /\ tracer_library' = library
    /\ \E found \in discover_span_context_keys(library) :
         /\ span_context_keys' = found.keys
         /\ IF found.null THEN Rejected ELSE Accepted
    /\ UNCHANGED <<loc_conf_vars, headers>>

\* One header for each key.
HeadersFor(directive, keys) ==
    [i \in DOMAIN keys |-> [by |-> directive, key |-> keys[i]]]

\* Mutant: a tracer need not be loaded before.
propagate_opentracing_context_unchecked(directive) ==
    /\ Directive([set |-> directive, to |-> Unset])
    /\ Accepted
    /\ headers' = [headers EXCEPT ![block] =
                     @ \o HeadersFor(directive, span_context_keys)]
    /\ UNCHANGED <<loc_conf_vars, main_conf_vars>>

\* The first directive with the name that is allowed in the block is run, unless
\* it opens a block itself or takes another number of arguments. The header
\* directives accept what they are given.
opentracing_conf_handler(directive, arguments) ==
    LET at == SelectInSeq(Commands, LAMBDA c : c.name = directive /\ block \in c.blocks)
    IN  /\ at # 0
        /\ ~Commands[at].is_block
        /\ arguments \in Commands[at].takes

\* The three opentracing_*propagate_context directives hand one directive per
\* key, a name and a value, to opentracing_conf_handler. The first one refused
\* rejects the file.
propagate_opentracing_context(directive) ==
    /\ Directive([set |-> directive, to |-> Unset])
    /\ IF \/ tracer_library = None
          \/ /\ span_context_keys # <<>>
             /\ ~opentracing_conf_handler(directive, 2)
       THEN Rejected /\ UNCHANGED headers
       ELSE /\ Accepted
            /\ headers' = [headers EXCEPT ![block] =
                             @ \o HeadersFor(directive, span_context_keys)]
    /\ UNCHANGED <<loc_conf_vars, main_conf_vars>>

-----------------------------------------------------------------------------
(* Merging. *)

\* Mutant: the outer block's setting comes first.
MergedSlots_outer_first(prev, conf) ==
    [s \in Flags \cup Scripts |->
       IF prev[s] # Unset THEN prev[s]
       ELSE IF conf[s] # Unset \/ s \in Scripts THEN conf[s]
       ELSE Default[s]]

\* ngx_conf_merge_value, and the same for scripts, which have no default.
MergedSlots(prev, conf) ==
    [s \in Flags \cup Scripts |->
       IF conf[s] # Unset THEN conf[s]
       ELSE IF prev[s] # Unset \/ s \in Scripts THEN prev[s]
       ELSE Default[s]]

KeysIn(ts) == {ts[i].key : i \in DOMAIN ts}

\* The last tag with a key, as a map filled in order keeps it.
LastTag(ts, key) == ts[SelectLastInSeq(ts, LAMBDA t : t.key = key)]

\* Mutant: the outer block's tags are put in the map last.
MergedTags_outer_last(prev, conf) ==
    {[i \in DOMAIN order |-> IF order[i] \in KeysIn(prev)
                             THEN LastTag(prev, order[i])
                             ELSE LastTag(conf, order[i])] :
       order \in SetToSeqs(KeysIn(prev) \cup KeysIn(conf))}

\* merged_tags: conf's tags over prev's. It is an unordered_map: the order in
\* which it is read back is any order.
MergedTags(prev, conf) ==
    {[i \in DOMAIN order |-> IF order[i] \in KeysIn(conf)
                             THEN LastTag(conf, order[i])
                             ELSE LastTag(prev, order[i])] :
       order \in SetToSeqs(KeysIn(prev) \cup KeysIn(conf))}

\* The map is written back over conf's array, which is never shortened.
WrittenOver(new, old) == new \o SubSeq(old, Len(new) + 1, Len(old))

\* Mutant: the joined tags are written to the outer block's array.
merge_opentracing_loc_conf_into_prev(b) ==
    LET prev == tags[Around[b]]
        conf == tags[b]
    IN  /\ status = "merging"
        /\ b \in opened \ merged
        /\ Around[b] \in merged
        /\ IF prev # 0 /\ conf # 0
           THEN /\ \E new \in MergedTags(arrays[prev], arrays[conf]) :
                     arrays' = [arrays EXCEPT ![prev] = WrittenOver(new, @)]
                /\ tags' = [tags EXCEPT ![b] = prev]
           ELSE UNCHANGED <<tags, arrays>>
        /\ merged' = merged \cup {b}
        /\ status' = IF merged' = opened THEN "merged" ELSE status
        /\ UNCHANGED <<block, opened, written, slots, main_conf_vars, headers,
                       init_vars, global_tracer>>

\* A block is merged with the block around it, already merged; the http block's
\* own settings are used only as prev.
merge_opentracing_loc_conf(b) ==
    LET prev == tags[Around[b]]
        conf == tags[b]
    IN  /\ status = "merging"
        /\ b \in opened \ merged
        /\ Around[b] \in merged
        /\ slots' = [slots EXCEPT ![b] = MergedSlots(slots[Around[b]], @)]
        /\ IF prev # 0 /\ conf = 0
           THEN tags' = [tags EXCEPT ![b] = prev] /\ UNCHANGED arrays
           ELSE IF prev # 0
           THEN /\ \E new \in MergedTags(arrays[prev], arrays[conf]) :
                     arrays' = [arrays EXCEPT ![conf] = WrittenOver(new, @)]
                /\ UNCHANGED tags
           ELSE UNCHANGED <<tags, arrays>>
        /\ merged' = merged \cup {b}
        /\ status' = IF merged' = opened THEN "merged" ELSE status
        /\ UNCHANGED <<block, opened, written, main_conf_vars, headers,
                       init_vars, global_tracer>>

\* opentracing_module_init, after the merging: main_conf->tags is made of the
\* default tags, and the handlers join those of their phases.
opentracing_module_init ==
    /\ status = "merged"
    /\ status' = "ready"
    /\ handlers' = [handlers EXCEPT !.rewrite = Append(@, "on_enter_block"),
                                   !.log = Append(@, "on_log_request")]
    /\ default_tags' = DefaultTags
    /\ UNCHANGED <<block, opened, merged, written, loc_conf_vars, main_conf_vars,
                   headers, global_tracer>>

-----------------------------------------------------------------------------
(* The worker. *)

\* opentracing_init_worker: without a library the worker serves untraced; a
\* library that no longer loads stops the worker.
opentracing_init_worker ==
    /\ status = "ready"
    /\ \/ /\ tracer_library = None
          /\ status' = "serving"
          /\ UNCHANGED global_tracer
       \/ /\ tracer_library # None
          /\ status' = "serving"
          /\ global_tracer' = tracer_library
       \/ /\ tracer_library # None
          /\ status' = "exited"
          /\ UNCHANGED global_tracer
    /\ UNCHANGED <<block, opened, merged, written, loc_conf_vars, main_conf_vars,
                   headers, init_vars>>

opentracing_exit_worker ==
    /\ status = "serving"
    /\ status' = "exited"
    /\ global_tracer' = None
    /\ UNCHANGED <<block, opened, merged, written, loc_conf_vars, main_conf_vars,
                   headers, init_vars>>

-----------------------------------------------------------------------------
Next ==
    \/ \E b \in Blocks : OpenBlock(b) \/ merge_opentracing_loc_conf(b)
    \/ CloseBlock
    \/ \E flag \in Flags, value \in {"on", "off"} :
         ngx_conf_set_flag_slot(flag, value)
    \/ set_opentracing_operation_name
    \/ set_opentracing_location_operation_name
    \/ \E p \in Patterns \cup {Malformed}, v \in Values \cup {Malformed} :
         set_opentracing_tag(p, v)
    \/ \E library \in Libraries : set_tracer(library)
    \/ \E directive \in Propagators : propagate_opentracing_context(directive)
    \/ opentracing_module_init
    \/ opentracing_init_worker
    \/ opentracing_exit_worker

Spec == Init /\ [][Next]_vars

-----------------------------------------------------------------------------
(* What the file says, read off its directives. *)

\* A block, the block around it, and so on to http.
Enclosing(b) ==
    {c \in Blocks : \A S \in SUBSET Blocks :
       b \in S /\ (\A d \in S \ {Http} : Around[d] \in S) => c \in S}

\* The directives in a block and the blocks around it, as places in the file.
InScope(b) == UNION {{c} \X DOMAIN written[c] : c \in Enclosing(b)}
At(place) == written[place[1]][place[2]]

\* Of some places, the last one in the innermost block.
Nearest(places) ==
    CHOOSE p \in places : \A q \in places :
      q[1] \in Enclosing(p[1]) /\ (q[1] = p[1] => q[2] <= p[2])

\* Where a slot, or a tag whose pattern is one of some, is set for a block.
SlotSet(b, s) == {p \in InScope(b) : At(p).set = s}
TagSet(b, ps) == {p \in InScope(b) : At(p).set = "tag" /\ At(p).to.key \in ps}

TagsOf(b) == IF tags[b] = 0 THEN <<>> ELSE arrays[tags[b]]

Merged == status \in {"merged", "ready", "serving"}

-----------------------------------------------------------------------------
(* Properties. *)

Keys == UNION {ToSet(KeysOf[library]) : library \in Libraries}

\* Every variable has its type; loc_conf->tags is null or an array there is.
TypeOK ==
    /\ status \in {"parsing", "merging", "merged", "ready", "serving", "exited",
                   "rejected"}
    /\ block \in opened
    /\ Http \in merged /\ merged \subseteq opened /\ opened \subseteq Blocks
    /\ slots \in [Blocks -> [Flags \cup Scripts -> {Unset, "on", "off"} \cup Blocks]]
    /\ arrays \in Seq(Seq([key : Patterns \cup {Malformed},
                           value : Values \cup {Malformed}]))
    /\ tags \in [Blocks -> 0 .. Len(arrays)]
    /\ {tracer_library, global_tracer} \subseteq Libraries \cup {None}
    /\ span_context_keys \in Seq(Keys)
    /\ headers \in [Blocks -> Seq([by : Propagators, key : Keys])]
    /\ default_tags \in {<<>>, DefaultTags}
    /\ handlers \in [{"rewrite", "log"} -> Seq({"on_enter_block", "on_log_request"})]

\* After merging, a flag or script of a block is the one its innermost
\* enclosing block gives, else the default (merge_opentracing_loc_conf).
NearestSlotWins ==
    Merged => \A b \in opened \ {Http}, s \in Flags \cup Scripts :
      slots[b][s] = IF SlotSet(b, s) # {} THEN At(Nearest(SlotSet(b, s))).to
                    ELSE IF s \in Flags THEN Default[s] ELSE Unset

\* After merging, the last tag with a key pattern, the one that is in effect,
\* is the last one of the innermost block that has the pattern: none is lost,
\* left over or taken from an outer block, whatever the map's order.
NearestTagWins ==
    Merged => \A b \in opened, p \in Patterns :
      /\ p \in KeysIn(TagsOf(b)) <=> TagSet(b, {p}) # {}
      /\ TagSet(b, {p}) # {} =>
           LastTag(TagsOf(b), p) = At(Nearest(TagSet(b, {p}))).to

\* Merging a block changes the tags of no other, although blocks come to
\* share arrays and a merge writes into one.
MergeTouchesOneBlock ==
    [][\A b \in opened : (status = "merging" /\ ~(b \in merged' \ merged))
         => TagsOf(b)' = TagsOf(b)]_vars

\* opentracing_load_tracer is given once at most.
OneTracer ==
    \A b, c \in Blocks : \A i \in DOMAIN written[b], j \in DOMAIN written[c] :
      written[b][i].set = "tracer" /\ written[c][j].set = "tracer" => <<b, i>> = <<c, j>>

\* The keys of the headers that a block sends by a directive.
KeysSentBy(b, directive) ==
    {h.key : h \in {g \in ToSet(headers[b]) : g.by = directive}}

\* A file that loads one tracer: each block that propagates sends exactly the
\* keys of the tracer the worker runs, however the directives are ordered.
LoadedOncePropagates ==
    status = "serving" /\ OneTracer =>
      \A b \in Blocks : \A i \in DOMAIN written[b] :
        written[b][i].set \in Propagators =>
          /\ global_tracer # None
          /\ KeysSentBy(b, written[b][i].set) = ToSet(KeysOf[global_tracer])

-----------------------------------------------------------------------------
(* What a comment and the documentation say, and the code does not do. *)

\* "keep the value from the most specific configuration"
\* (ngx_http_opentracing_module.cpp): of the tags that set the same key of the
\* span, the last one comes from the innermost block that has one.
MostSpecificTagWins ==
    Merged => \A b \in opened, k \in {KeyOf[p] : p \in Patterns} :
      LET same == {p \in Patterns : KeyOf[p] = k}
          last == SelectLastInSeq(TagsOf(b), LAMBDA t : t.key \in same)
      IN  TagSet(b, same) # {} =>
            TagsOf(b)[last].value = At(Nearest(TagSet(b, same))).to.value
=============================================================================
