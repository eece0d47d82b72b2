------------------------ MODULE Configuration_proofs ------------------------
(***************************************************************************)
(* Theorems about Configuration, for any blocks, libraries, patterns,      *)
(* values, commands and length of the file:                                *)
(*                                                                         *)
(*   TypeCorrect       every variable keeps its type;                      *)
(*   MergeLocal        merging a block changes the tags of no other;       *)
(*   KeysOfTheTracer   with one tracer in the file, its keys are sent;     *)
(*   NearestSlots, NearestTags   what a block has after merging is what    *)
(*                     the innermost block around it gives.                *)
(***************************************************************************)
EXTENDS Configuration, TLAPS, SequenceTheorems, FiniteSetTheorems,
        NaturalsInduction, WellFoundedInduction

TagType == [key : Patterns \cup {Malformed}, value : Values \cup {Malformed}]

Names == Flags \cup Scripts \cup Propagators \cup {"tag", "tracer"}
Arguments ==
    {"on", "off", Malformed, Unset} \cup Blocks \cup Libraries \cup TagType
Directives == [set : Names, to : Arguments]

\* The file as far as it was read, which TypeOK leaves open, and the blocks
\* around an opened block.
TypeInv ==
    /\ TypeOK
    /\ written \in [Blocks -> Seq(Directives)]
    /\ \A b \in opened \ {Http} : Around[b] \in opened

\* The names of the settings and directives, written out.
LEMMA Strings ==
    /\ Flags \cup Scripts = {"enable", "enable_locations", "trust_incoming_span",
                             "operation_name_script", "loc_operation_name_script"}
    /\ \A s \in Flags : Default[s] \in {"on", "off"}
    /\ Propagators = {"proxy_set_header", "fastcgi_param", "grpc_set_header"}
    /\ Unset = "unset"
  BY DEF Flags, Scripts, Default, Propagators, Unset

-----------------------------------------------------------------------------
(* The tags that merging joins. *)

\* A set of numbers has a least one.
LEMMA LeastOfNaturals ==
    ASSUME NEW T, T \subseteq Nat, T # {}
    PROVE  \E x \in T : \A y \in T : x =< y
<1>1. \E x \in T : \A y \in T : ~(<<y, x>> \in OpToRel(<, Nat))
  BY WFMin, NatLessThanWellFounded, Zenon
<1>2. \A x, y \in Nat : y < x => <<y, x>> \in OpToRel(<, Nat)
  BY DEF OpToRel
<1>3. \A x, y \in Nat : ~(y < x) => x =< y
  OBVIOUS
<1> QED
  BY <1>1, <1>2, <1>3

\* A set of positions in a sequence has a last one.
LEMMA GreatestOfSome ==
    ASSUME NEW n \in Nat, NEW I, I \subseteq 1 .. n, I # {}
    PROVE  \E x \in I : \A y \in I : x >= y
<1> DEFINE J == {n - x : x \in I}
<1>0. \A x \in I : n - x \in Nat
  OBVIOUS
<1>1. J \subseteq Nat /\ J # {}
  BY <1>0
<1>2. \E x \in J : \A y \in J : x =< y
  <2> HIDE DEF J
  <2> QED
    BY <1>1, LeastOfNaturals, Zenon
<1>3. PICK z \in I : \A y \in J : n - z =< y
  BY <1>2
<1>4. \A y \in I : n - z <= n - y
  BY <1>3
<1> QED
  BY <1>3, <1>4

\* The keys of an array's tags are finitely many.
LEMMA KeysFinite ==
    ASSUME NEW ts \in Seq(TagType)
    PROVE  IsFiniteSet(KeysIn(ts))
<1> DEFINE f == [i \in DOMAIN ts |-> ts[i].key]
<1>1. DOMAIN ts = 1 .. Len(ts) /\ Len(ts) \in Int
  BY LenProperties
<1>2. IsFiniteSet(DOMAIN ts)
  BY <1>1, FS_Interval
<1>3. f \in Surjection(DOMAIN ts, KeysIn(ts))
  BY DEF Surjection, KeysIn
<1> QED
  BY <1>2, <1>3, FS_Surjection

\* The last tag with a key that an array has is a tag.
LEMMA LastTagType ==
    ASSUME NEW ts \in Seq(TagType), NEW key \in KeysIn(ts)
    PROVE  LastTag(ts, key) \in TagType
<1> DEFINE I == {i \in 1 .. Len(ts) : ts[i].key = key}
<1>1. Len(ts) \in Nat /\ DOMAIN ts = 1 .. Len(ts) /\ \A i \in 1 .. Len(ts) : ts[i] \in TagType
  BY LenProperties
<1>2. I # {} /\ I \subseteq 1 .. Len(ts)
  BY <1>1 DEF KeysIn
<1>3. SelectLastInSeq(ts, LAMBDA t : t.key = key) = Max(I)
  BY <1>2 DEF SelectLastInSeq
<1>4. Max(I) \in I
  <2>1. \E x \in I : \A y \in I : x >= y
    BY <1>1, <1>2, GreatestOfSome
  <2> QED
    BY <2>1 DEF Max
<1> QED
  BY <1>1, <1>2, <1>3, <1>4 DEF LastTag

\* What the map of merged tags is read back as are tags.
LEMMA MergedTagsType ==
    ASSUME NEW prev \in Seq(TagType), NEW conf \in Seq(TagType),
           NEW new \in MergedTags(prev, conf)
    PROVE  new \in Seq(TagType)
<1> DEFINE K == KeysIn(prev) \cup KeysIn(conf)
<1>1. IsFiniteSet(K)
  BY KeysFinite, FS_Union
<1>2. Cardinality(K) \in Nat
  BY <1>1, FS_CardinalityType
<1>3. PICK order \in [1 .. Cardinality(K) -> K] :
        new = [i \in DOMAIN order |-> IF order[i] \in KeysIn(conf)
                                      THEN LastTag(conf, order[i])
                                      ELSE LastTag(prev, order[i])]
  BY DEF MergedTags, SetToSeqs
<1>4. new = [i \in 1 .. Cardinality(K) |-> IF order[i] \in KeysIn(conf)
                                            THEN LastTag(conf, order[i])
                                            ELSE LastTag(prev, order[i])]
  BY <1>3
<1>5. \A i \in 1 .. Cardinality(K) :
        (IF order[i] \in KeysIn(conf) THEN LastTag(conf, order[i])
                                      ELSE LastTag(prev, order[i])) \in TagType
  BY <1>3, LastTagType
<1> HIDE DEF K
<1>6. \A i \in 1 .. Cardinality(K) : new[i] \in TagType
  BY <1>4, <1>5
<1>7. new \in [1 .. Cardinality(K) -> TagType]
  BY <1>4, <1>6
<1> QED
  BY <1>2, <1>7

\* So is what it is written over.
LEMMA WrittenOverType ==
    ASSUME NEW new \in Seq(TagType), NEW old \in Seq(TagType)
    PROVE  WrittenOver(new, old) \in Seq(TagType)
<1>1. Len(new) + 1 \in Int /\ Len(old) \in Int /\ Len(new) \in Nat
  BY LenProperties
<1>2. \A i \in Len(new) + 1 .. Len(old) : old[i] \in TagType
  BY <1>1, LenProperties
<1>3. SubSeq(old, Len(new) + 1, Len(old)) \in Seq(TagType)
  BY <1>1, <1>2, SubSeqProperties
<1> QED
  BY <1>3, ConcatProperties DEF WrittenOver

-----------------------------------------------------------------------------
(* Type correctness. *)

\* What a directive adds to the file, whatever becomes of it.
LEMMA DirectiveAdds ==
    ASSUME TypeInv, NEW d \in Directives, Directive(d)
    PROVE  /\ written' \in [Blocks -> Seq(Directives)]
           /\ block \in Blocks
           /\ \A b \in Blocks \ {block} : written'[b] = written[b]
           /\ DOMAIN written[block] = 1 .. Len(written[block])
           /\ Len(written[block]) \in Nat
           /\ DOMAIN written'[block] = 1 .. Len(written[block]) + 1
           /\ \A i \in 1 .. Len(written[block]) : written'[block][i] = written[block][i]
           /\ written'[block][Len(written[block]) + 1] = d
<1>1. block \in Blocks /\ written[block] \in Seq(Directives)
  BY DEF TypeInv, TypeOK
<1>2. /\ Append(written[block], d) \in Seq(Directives)
      /\ written' = [written EXCEPT ![block] = Append(written[block], d)]
  BY <1>1, AppendProperties DEF Directive
<1>3. written'[block] = Append(written[block], d)
  BY <1>1, <1>2 DEF TypeInv
<1>4. /\ DOMAIN Append(written[block], d) = 1 .. Len(Append(written[block], d))
      /\ Len(Append(written[block], d)) = Len(written[block]) + 1
  BY <1>1, <1>2, LenProperties, AppendProperties
<1> QED
  BY <1>1, <1>2, <1>3, <1>4, LenProperties, AppendProperties DEF TypeInv

\* What it leaves alone.
LEMMA DirectiveKeeps ==
    ASSUME NEW d, Directive(d)
    PROVE  /\ status = "parsing"
           /\ UNCHANGED <<block, opened, merged, default_tags, handlers, global_tracer>>
BY DEF Directive, init_vars

\* A setting that is taken, or refused, keeps the types.
LEMMA SlotTypes ==
    ASSUME TypeInv, NEW s \in Flags \cup Scripts, NEW value \in {"on", "off"} \cup Blocks,
           NEW d \in Directives, Directive(d),
           Accepted \/ Rejected,
           \/ UNCHANGED slots
           \/ slots' = [slots EXCEPT ![block][s] = value],
           UNCHANGED <<arrays, tags, main_conf_vars, headers>>
    PROVE  TypeInv'
<1>1. /\ status = "parsing" /\ status' \in {"parsing", "rejected"}
      /\ UNCHANGED <<block, opened, merged, default_tags, handlers, global_tracer,
                     arrays, tags, tracer_library, span_context_keys, headers>>
      /\ written' \in [Blocks -> Seq(Directives)]
      /\ block \in Blocks
  BY DirectiveAdds, DirectiveKeeps DEF Accepted, Rejected, main_conf_vars
<1> DEFINE SlotValues == {Unset, "on", "off"} \cup Blocks
<1>2. slots \in [Blocks -> [Flags \cup Scripts -> SlotValues]] /\ value \in SlotValues
  BY DEF TypeInv, TypeOK
<1> HIDE DEF SlotValues
<1>3. slots' \in [Blocks -> [Flags \cup Scripts -> SlotValues]]
  <2>1. CASE slots' = [slots EXCEPT ![block][s] = value]
    <3>1. [slots[block] EXCEPT ![s] = value] \in [Flags \cup Scripts -> SlotValues]
      BY <1>1, <1>2
    <3>2. slots' = [slots EXCEPT ![block] = [slots[block] EXCEPT ![s] = value]]
      BY <2>1
    <3> QED
      BY <3>1, <3>2, <1>2
  <2> QED
    BY <2>1, <1>2
<1> QED
  BY <1>1, <1>3 DEF TypeInv, TypeOK, SlotValues

\* So does a tag, in a new array or one that the block has.
LEMMA TagsTypes ==
    ASSUME TypeInv, NEW key \in Patterns \cup {Malformed},
           NEW value \in Values \cup {Malformed}, set_opentracing_tag(key, value)
    PROVE  TypeInv'
<1> DEFINE tag == Tag(key, value)
           d == [set |-> "tag", to |-> tag]
<1>0. tag \in TagType
  BY DEF Tag, TagType
<1>1. tag \in TagType /\ d \in Directives
  <2>1. tag \in Arguments
    BY <1>0 DEF Arguments
  <2>2. \A to \in Arguments : [set |-> "tag", to |-> to] \in Directives
    BY DEF Directives, Names
  <2> QED
    BY <1>0, <2>1, <2>2
<1>2. Directive(d)
  BY DEF set_opentracing_tag
<1>3. /\ status = "parsing" /\ status' \in {"parsing", "rejected"}
      /\ UNCHANGED <<block, opened, merged, default_tags, handlers, global_tracer,
                     slots, tracer_library, span_context_keys, headers>>
      /\ written' \in [Blocks -> Seq(Directives)]
      /\ block \in Blocks
  BY <1>1, <1>2, DirectiveAdds, DirectiveKeeps
  DEF set_opentracing_tag, Accepted, Rejected, main_conf_vars
<1>4. /\ arrays \in Seq(Seq(TagType)) /\ tags \in [Blocks -> 0 .. Len(arrays)]
      /\ Len(arrays) \in Nat /\ DOMAIN arrays = 1 .. Len(arrays)
  BY LenProperties DEF TypeInv, TypeOK, TagType
<1>5. arrays' \in Seq(Seq(TagType)) /\ tags' \in [Blocks -> 0 .. Len(arrays')]
  <2>1. CASE tags[block] = 0
    <3>1. <<tag>> \in Seq(TagType)
      BY <1>1
    <3>2. arrays' = Append(arrays, <<tag>>) /\ tags' = [tags EXCEPT ![block] = Len(arrays) + 1]
      BY <2>1 DEF set_opentracing_tag
    <3>3. arrays' \in Seq(Seq(TagType)) /\ Len(arrays') = Len(arrays) + 1
      BY <3>1, <3>2, <1>4, AppendProperties
    <3>4. 0 .. Len(arrays) \subseteq 0 .. Len(arrays') /\ Len(arrays) + 1 \in 0 .. Len(arrays')
      BY <3>3, <1>4
    <3> QED
      BY <3>2, <3>3, <3>4, <1>3, <1>4
  <2>2. CASE tags[block] # 0
    <3>1. tags[block] \in 1 .. Len(arrays)
      BY <2>2, <1>3, <1>4
    <3>2. arrays[tags[block]] \in Seq(TagType)
      BY <3>1, <1>4, LenProperties
    <3>3. Append(arrays[tags[block]], tag) \in Seq(TagType)
      BY <3>2, <1>1, AppendProperties
    <3>4. /\ arrays' = [arrays EXCEPT ![tags[block]] = Append(arrays[tags[block]], tag)]
          /\ tags' = tags
      BY <2>2 DEF set_opentracing_tag
    <3>5. arrays' \in Seq(Seq(TagType)) /\ Len(arrays') = Len(arrays)
      BY <3>1, <3>3, <3>4, <1>4, ExceptSeq
    <3> QED
      BY <3>4, <3>5, <1>4
  <2> QED
    BY <2>1, <2>2
<1> QED
  BY <1>3, <1>5 DEF TypeInv, TypeOK, TagType

HeaderType == [by : Propagators, key : Keys]

\* The keys that a library injects are keys.
LEMMA KeysTyped ==
    ASSUME NEW library \in Libraries
    PROVE  KeysOf[library] \in Seq(Keys)
<1>1. KeysOf[library] \in Seq(STRING)
  BY LibrariesAssumption
<1>2. /\ KeysOf[library] \in [1 .. Len(KeysOf[library]) -> STRING]
      /\ Len(KeysOf[library]) \in Nat
      /\ DOMAIN KeysOf[library] = 1 .. Len(KeysOf[library])
  BY <1>1, LenProperties
<1>3. \A i \in DOMAIN KeysOf[library] : KeysOf[library][i] \in Keys
  BY DEF Keys, ToSet
<1>4. KeysOf[library] \in [1 .. Len(KeysOf[library]) -> Keys]
  BY <1>2, <1>3
<1> QED
  BY <1>2, <1>4

\* opentracing_load_tracer keeps the types, whether the library loads or not.
LEMMA TracerTypes ==
    ASSUME TypeInv, NEW library \in Libraries, set_tracer(library)
    PROVE  TypeInv'
<1> DEFINE d == [set |-> "tracer", to |-> library]
<1>1. d \in Directives /\ Directive(d)
  <2>1. \A to \in Arguments : [set |-> "tracer", to |-> to] \in Directives
    BY DEF Directives, Names
  <2>2. library \in Arguments
    BY DEF Arguments
  <2> QED
    BY <2>1, <2>2 DEF set_tracer
<1>2. /\ status = "parsing" /\ status' \in {"parsing", "rejected"}
      /\ UNCHANGED <<block, opened, merged, default_tags, handlers, global_tracer,
                     slots, arrays, tags, headers>>
      /\ written' \in [Blocks -> Seq(Directives)]
      /\ tracer_library' \in Libraries
      /\ span_context_keys' = <<>> \/ span_context_keys' = KeysOf[library]
  BY <1>1, DirectiveAdds, DirectiveKeeps
  DEF set_tracer, Accepted, Rejected, loc_conf_vars, discover_span_context_keys
<1>3. span_context_keys' \in Seq(Keys)
  <2>1. <<>> \in Seq(Keys) /\ KeysOf[library] \in Seq(Keys)
    BY KeysTyped, EmptySeq
  <2> QED
    BY <1>2, <2>1
<1> QED
  BY <1>2, <1>3 DEF TypeInv, TypeOK

\* The headers of a block that propagates: those it had and one for each key.
LEMMA HeadersAdded ==
    ASSUME NEW T, NEW K, NEW before \in Seq(T), NEW keys \in Seq(K), NEW directive,
           \A key \in K : [by |-> directive, key |-> key] \in T
    PROVE  /\ before \o HeadersFor(directive, keys) \in Seq(T)
           /\ ToSet(before \o HeadersFor(directive, keys)) =
                ToSet(before) \cup {[by |-> directive, key |-> key] : key \in ToSet(keys)}
<1> DEFINE added == HeadersFor(directive, keys)
<1>1. /\ DOMAIN keys = 1 .. Len(keys) /\ Len(keys) \in Nat
      /\ \A i \in DOMAIN keys : keys[i] \in K
      /\ DOMAIN before = 1 .. Len(before) /\ Len(before) \in Nat
  BY LenProperties
<1>2. \A i \in DOMAIN keys : added[i] \in T
  BY <1>1 DEF HeadersFor
<1>3. added \in [1 .. Len(keys) -> T]
  BY <1>1, <1>2 DEF HeadersFor
<1>4. added \in Seq(T) /\ Len(added) = Len(keys)
  BY <1>1, <1>3
<1>5. \A i \in DOMAIN keys : added[i] = [by |-> directive, key |-> keys[i]]
  BY DEF HeadersFor
<1> HIDE DEF added
<1>6. /\ before \o added \in Seq(T)
      /\ Len(before \o added) = Len(before) + Len(keys)
      /\ \A i \in 1 .. Len(before) + Len(keys) :
           (before \o added)[i] = IF i <= Len(before) THEN before[i]
                                  ELSE added[i - Len(before)]
  <2>1. /\ before \o added \in Seq(T)
        /\ Len(before \o added) = Len(before) + Len(added)
        /\ \A i \in 1 .. Len(before) + Len(added) :
             (before \o added)[i] = IF i <= Len(before) THEN before[i]
                                    ELSE added[i - Len(before)]
    BY <1>4, ConcatProperties
  <2> QED
    BY <2>1, <1>4
<1>7. DOMAIN (before \o added) = 1 .. Len(before) + Len(keys)
  BY <1>6, LenProperties
<1>8. ToSet(before \o added) \subseteq ToSet(before) \cup ToSet(added)
  <2> SUFFICES ASSUME NEW i \in 1 .. Len(before) + Len(keys)
               PROVE  (before \o added)[i] \in ToSet(before) \cup ToSet(added)
    BY <1>7 DEF ToSet
  <2>1. CASE i <= Len(before)
    BY <2>1, <1>1, <1>6 DEF ToSet
  <2>2. CASE ~(i <= Len(before))
    <3>1. i - Len(before) \in DOMAIN added
      BY <2>2, <1>1, <1>3
    <3>2. (before \o added)[i] = added[i - Len(before)]
      BY <2>2, <1>1, <1>6
    <3>3. added[i - Len(before)] \in ToSet(added)
      BY <3>1 DEF ToSet
    <3> QED
      BY <3>2, <3>3
  <2> QED
    BY <2>1, <2>2
<1>9. ToSet(before) \subseteq ToSet(before \o added)
  <2> SUFFICES ASSUME NEW i \in DOMAIN before
               PROVE  before[i] \in ToSet(before \o added)
    BY DEF ToSet
  <2>1. i \in 1 .. Len(before) + Len(keys) /\ i <= Len(before)
    BY <1>1
  <2> QED
    BY <2>1, <1>6, <1>7 DEF ToSet
<1>10. ToSet(added) \subseteq ToSet(before \o added)
  <2> SUFFICES ASSUME NEW i \in DOMAIN added
               PROVE  added[i] \in ToSet(before \o added)
    BY DEF ToSet
  <2>1. i \in 1 .. Len(keys)
    BY <1>3
  <2>2. /\ Len(before) + i \in 1 .. Len(before) + Len(keys)
        /\ ~(Len(before) + i <= Len(before))
        /\ Len(before) + i - Len(before) = i
    BY <2>1, <1>1
  <2>3. (before \o added)[Len(before) + i] = added[i]
    BY <2>2, <1>6
  <2> QED
    BY <2>2, <2>3, <1>7 DEF ToSet
<1>11. ToSet(added) = {[by |-> directive, key |-> key] : key \in ToSet(keys)}
  <2>1. DOMAIN added = DOMAIN keys
    BY <1>1, <1>3
  <2> QED
    BY <2>1, <1>5 DEF ToSet
<1> QED
  BY <1>6, <1>8, <1>9, <1>10, <1>11 DEF added

\* So does a propagation directive.
LEMMA PropagateTypes ==
    ASSUME TypeInv, NEW directive \in Propagators,
           propagate_opentracing_context(directive)
    PROVE  TypeInv'
<1> DEFINE d == [set |-> directive, to |-> Unset]
<1>1. d \in Directives /\ Directive(d)
  <2>1. Unset \in Arguments
    BY DEF Arguments
  <2>2. directive \in Names /\ [set : Names, to : Arguments] = Directives
    BY DEF Names, Directives
  <2>3. d \in [set : Names, to : Arguments]
    BY <2>1, <2>2
  <2>4. Directive(d)
    BY DEF propagate_opentracing_context
  <2> QED
    BY <2>2, <2>3, <2>4
<1>2. /\ status = "parsing" /\ status' \in {"parsing", "rejected"}
      /\ UNCHANGED <<block, opened, merged, default_tags, handlers, global_tracer,
                     slots, arrays, tags, tracer_library, span_context_keys>>
      /\ written' \in [Blocks -> Seq(Directives)]
      /\ block \in Blocks
  BY <1>1, DirectiveAdds, DirectiveKeeps
  DEF propagate_opentracing_context, Accepted, Rejected, loc_conf_vars, main_conf_vars
<1>3. headers' \in [Blocks -> Seq(HeaderType)]
  <2> DEFINE new == headers[block] \o HeadersFor(directive, span_context_keys)
  <2>1. headers \in [Blocks -> Seq(HeaderType)] /\ span_context_keys \in Seq(Keys)
    BY DEF TypeInv, TypeOK, HeaderType
  <2>2. \A key \in Keys : [by |-> directive, key |-> key] \in HeaderType
    BY DEF HeaderType
  <2>3. headers[block] \in Seq(HeaderType)
    BY <1>2, <2>1
  <2>4. new \in Seq(HeaderType)
    BY <2>1, <2>2, <2>3, HeadersAdded, Zenon
  <2>5. headers' = headers \/ headers' = [headers EXCEPT ![block] = new]
    BY DEF propagate_opentracing_context
  <2> HIDE DEF new
  <2> QED
    BY <1>2, <2>1, <2>4, <2>5
<1> QED
  BY <1>2, <1>3 DEF TypeInv, TypeOK, HeaderType

\* So do the directives that give a slot a value,
LEMMA SlotActionTypes ==
    ASSUME TypeInv, NEW s \in Flags \cup Scripts, NEW value \in {"on", "off"} \cup Blocks,
           set_slot(s, value)
    PROVE  TypeInv'
<1> DEFINE d == [set |-> s, to |-> value]
<1>1. s \in Names /\ value \in Arguments /\ [set : Names, to : Arguments] = Directives
  BY DEF Names, Arguments, Directives
<1>2. d \in [set : Names, to : Arguments]
  BY <1>1
<1>3. /\ Directive(d)
      /\ Accepted \/ Rejected
      /\ UNCHANGED slots \/ slots' = [slots EXCEPT ![block][s] = value]
      /\ UNCHANGED <<arrays, tags, main_conf_vars, headers>>
  BY DEF set_slot
<1> HIDE DEF d
<1> QED
  BY <1>1, <1>2, <1>3, SlotTypes

\* and those whose script compiles or does not.
LEMMA ScriptTypes ==
    ASSUME TypeInv, NEW s \in Scripts, set_script(s)
    PROVE  TypeInv'
<1> DEFINE d == [set |-> s, to |-> Malformed]
<1>0. block \in Blocks
  BY DEF TypeInv, TypeOK
<1>1. CASE set_slot(s, block)
  BY <1>0, <1>1, SlotActionTypes
<1>2. CASE ~set_slot(s, block)
  <2>1. s \in Names /\ Malformed \in Arguments /\ [set : Names, to : Arguments] = Directives
    BY DEF Names, Arguments, Directives
  <2>2. d \in [set : Names, to : Arguments]
    BY <2>1
  <2>3. /\ Directive(d)
        /\ Rejected
        /\ UNCHANGED slots
        /\ UNCHANGED <<arrays, tags, main_conf_vars, headers>>
    BY <1>2 DEF set_script, loc_conf_vars
  <2> HIDE DEF d
  <2> QED
    BY <1>0, <2>1, <2>2, <2>3, SlotTypes
<1> QED
  BY <1>1, <1>2

\* So does the merging of a block.
LEMMA MergeTypes ==
    ASSUME TypeInv, NEW b \in Blocks, merge_opentracing_loc_conf(b)
    PROVE  TypeInv'
<1> DEFINE prev == tags[Around[b]]
           conf == tags[b]
           SlotValues == {Unset, "on", "off"} \cup Blocks
<1>1. /\ b \in opened \ merged /\ b # Http
      /\ Around[b] \in merged /\ Around[b] \in Blocks
  BY DEF merge_opentracing_loc_conf, TypeInv, TypeOK
<1>2. /\ status = "merging" /\ status' \in {"merging", "merged"}
      /\ UNCHANGED <<block, opened, written, default_tags, handlers, global_tracer,
                     tracer_library, span_context_keys, headers>>
      /\ merged' = merged \cup {b}
      /\ slots' = [slots EXCEPT ![b] = MergedSlots(slots[Around[b]], slots[b])]
  BY DEF merge_opentracing_loc_conf, main_conf_vars, init_vars
<1>3. slots' \in [Blocks -> [Flags \cup Scripts -> SlotValues]]
  <2>0. slots \in [Blocks -> [Flags \cup Scripts -> SlotValues]]
    BY DEF TypeInv, TypeOK
  <2>1. \A s \in Flags : Default[s] \in SlotValues
    BY Strings
  <2> HIDE DEF SlotValues
  <2>2. MergedSlots(slots[Around[b]], slots[b]) \in [Flags \cup Scripts -> SlotValues]
    BY <1>1, <2>0, <2>1 DEF MergedSlots
  <2> QED
    BY <1>2, <2>0, <2>2
<1>4. /\ arrays \in Seq(Seq(TagType)) /\ tags \in [Blocks -> 0 .. Len(arrays)]
      /\ Len(arrays) \in Nat
      /\ \A i \in 1 .. Len(arrays) : arrays[i] \in Seq(TagType)
  <2>1. arrays \in Seq(Seq(TagType)) /\ tags \in [Blocks -> 0 .. Len(arrays)]
    BY DEF TypeInv, TypeOK, TagType
  <2> QED
    BY <2>1, LenProperties
<1>5. arrays' \in Seq(Seq(TagType)) /\ tags' \in [Blocks -> 0 .. Len(arrays')]
  <2>1. CASE prev # 0 /\ conf = 0
    <3>1. tags' = [tags EXCEPT ![b] = prev] /\ arrays' = arrays
      BY <2>1 DEF merge_opentracing_loc_conf
    <3> QED
      BY <3>1, <1>1, <1>4
  <2>2. CASE prev # 0 /\ conf # 0
    <3>1. PICK new \in MergedTags(arrays[prev], arrays[conf]) :
            /\ arrays' = [arrays EXCEPT ![conf] = WrittenOver(new, arrays[conf])]
            /\ tags' = tags
      BY <2>2 DEF merge_opentracing_loc_conf
    <3>2. /\ prev \in 1 .. Len(arrays) /\ conf \in 1 .. Len(arrays)
          /\ arrays[prev] \in Seq(TagType) /\ arrays[conf] \in Seq(TagType)
      BY <2>2, <1>1, <1>4
    <3>3. WrittenOver(new, arrays[conf]) \in Seq(TagType)
      BY <3>1, <3>2, MergedTagsType, WrittenOverType
    <3>4. arrays' \in Seq(Seq(TagType)) /\ Len(arrays') = Len(arrays)
      BY <3>1, <3>2, <3>3, <1>4, ExceptSeq
    <3> QED
      BY <3>1, <3>4, <1>4
  <2>3. CASE prev = 0
    <3>1. UNCHANGED <<tags, arrays>>
      BY <2>3 DEF merge_opentracing_loc_conf
    <3> QED
      BY <3>1, <1>4
  <2> QED
    BY <2>1, <2>2, <2>3
<1> QED
  BY <1>1, <1>2, <1>3, <1>5 DEF TypeInv, TypeOK, TagType

\* The types hold before the file is read, and for good.
LEMMA InitTypes == Init => TypeInv
<1> SUFFICES ASSUME Init PROVE TypeInv
  OBVIOUS
<1>1. block = Http /\ opened = {Http} /\ merged = {Http} /\ Http \in Blocks
  BY BlocksAssumption DEF Init
<1>2. slots \in [Blocks -> [Flags \cup Scripts -> {Unset, "on", "off"} \cup Blocks]]
  BY DEF Init
<1>3. /\ arrays = <<>> /\ tags = [b \in Blocks |-> 0]
      /\ headers = [b \in Blocks |-> <<>>] /\ written = [b \in Blocks |-> <<>>]
  BY DEF Init
<1>4. handlers \in [{"rewrite", "log"} -> Seq({"on_enter_block", "on_log_request"})]
  <2>1. handlers = [rewrite |-> <<>>, log |-> <<>>]
    BY DEF Init
  <2> DEFINE H == Seq({"on_enter_block", "on_log_request"})
  <2>2. <<>> \in H
    OBVIOUS
  <2> HIDE DEF H
  <2>3. [rewrite |-> <<>>, log |-> <<>>] \in [{"rewrite", "log"} -> H]
    BY <2>2
  <2> QED
    BY <2>1, <2>3 DEF H
<1> QED
  BY <1>1, <1>2, <1>3, <1>4 DEF Init, TypeInv, TypeOK

\* One case for each action.
LEMMA NextTypes == TypeInv /\ [Next]_vars => TypeInv'
<1> SUFFICES ASSUME TypeInv, [Next]_vars PROVE TypeInv'
  OBVIOUS
<1>1. ASSUME NEW b \in Blocks, OpenBlock(b) PROVE TypeInv'
  BY <1>1 DEF OpenBlock, TypeInv, TypeOK, loc_conf_vars, main_conf_vars, init_vars
<1>2. ASSUME NEW b \in Blocks, merge_opentracing_loc_conf(b) PROVE TypeInv'
  BY <1>2, MergeTypes
<1>3. CASE CloseBlock
  <2>1. /\ status' \in {status, "merging", "merged"}
        /\ block' \in opened
        /\ UNCHANGED <<opened, merged, written, slots, arrays, tags, tracer_library,
                       span_context_keys, headers, default_tags, handlers, global_tracer>>
    BY <1>3 DEF CloseBlock, TypeInv, TypeOK, loc_conf_vars, main_conf_vars, init_vars
  <2> QED
    BY <2>1 DEF TypeInv, TypeOK
<1>4. ASSUME NEW flag \in Flags, NEW value \in {"on", "off"},
             ngx_conf_set_flag_slot(flag, value)
      PROVE  TypeInv'
  BY <1>4, SlotActionTypes DEF ngx_conf_set_flag_slot
<1>5. CASE set_opentracing_operation_name \/ set_opentracing_location_operation_name
  <2>1. PICK s \in Scripts : set_script(s)
    BY <1>5 DEF set_opentracing_operation_name, set_opentracing_location_operation_name,
                Scripts
  <2> QED
    BY <2>1, ScriptTypes
<1>6. ASSUME NEW p \in Patterns \cup {Malformed}, NEW v \in Values \cup {Malformed},
             set_opentracing_tag(p, v)
      PROVE  TypeInv'
  BY <1>6, TagsTypes
<1>7. ASSUME NEW library \in Libraries, set_tracer(library) PROVE TypeInv'
  BY <1>7, TracerTypes
<1>8. ASSUME NEW directive \in Propagators, propagate_opentracing_context(directive)
      PROVE  TypeInv'
  BY <1>8, PropagateTypes
<1>9. CASE opentracing_module_init
  <2>1. /\ status' = "ready" /\ default_tags' = DefaultTags
        /\ handlers' = [handlers EXCEPT !.rewrite = Append(handlers.rewrite, "on_enter_block"),
                                        !.log = Append(handlers.log, "on_log_request")]
        /\ UNCHANGED <<block, opened, merged, written, slots, arrays, tags, tracer_library,
                       span_context_keys, headers, global_tracer>>
    BY <1>9 DEF opentracing_module_init, loc_conf_vars, main_conf_vars
  <2>2. handlers' \in [{"rewrite", "log"} -> Seq({"on_enter_block", "on_log_request"})]
    <3> DEFINE H == {"on_enter_block", "on_log_request"}
    <3>1. handlers.rewrite \in Seq(H) /\ handlers.log \in Seq(H)
      BY DEF TypeInv, TypeOK
    <3>2. /\ Append(handlers.rewrite, "on_enter_block") \in Seq(H)
          /\ Append(handlers.log, "on_log_request") \in Seq(H)
      BY <3>1, AppendProperties
    <3> QED
      BY <2>1, <3>2 DEF TypeInv, TypeOK
  <2> QED
    BY <2>1, <2>2 DEF TypeInv, TypeOK
<1>10. CASE opentracing_init_worker
  BY <1>10 DEF opentracing_init_worker, TypeInv, TypeOK, loc_conf_vars, main_conf_vars,
               init_vars
<1>11. CASE opentracing_exit_worker
  BY <1>11 DEF opentracing_exit_worker, TypeInv, TypeOK, loc_conf_vars, main_conf_vars,
               init_vars
<1>12. CASE UNCHANGED vars
  BY <1>12 DEF vars, TypeInv, TypeOK
<1> QED
  BY <1>1, <1>2, <1>3, <1>4, <1>5, <1>6, <1>7, <1>8, <1>9, <1>10, <1>11, <1>12 DEF Next

LEMMA Typed == Spec => []TypeInv
BY InitTypes, NextTypes, PTL DEF Spec

\* Every variable keeps its type; loc_conf->tags is null or an array there is,
\* and what merging reads back from its map are tags (merge_opentracing_loc_conf).
THEOREM TypeCorrect == Spec => []TypeOK
<1>1. TypeInv => TypeOK
  BY DEF TypeInv
<1> QED
  BY <1>1, Typed, PTL

-----------------------------------------------------------------------------
(* Shared arrays. *)

\* Blocks come to share an array by merging only.
SharedInv ==
    \A b, c \in Blocks :
      b # c /\ tags[b] # 0 /\ tags[b] = tags[c] => b \in merged /\ c \in merged

\* Every step keeps two unmerged blocks from sharing an array.
LEMMA SharedStep == TypeInv /\ SharedInv /\ [Next]_vars => SharedInv'
<1> SUFFICES ASSUME TypeInv, SharedInv, [Next]_vars PROVE SharedInv'
  OBVIOUS
<1>1. CASE tags' = tags /\ merged \subseteq merged'
  BY <1>1 DEF SharedInv
<1>2. ASSUME NEW key, NEW value, set_opentracing_tag(key, value), tags[block] = 0
      PROVE  SharedInv'
  <2>1. /\ block \in Blocks /\ tags \in [Blocks -> 0 .. Len(arrays)] /\ Len(arrays) \in Nat
        /\ merged' = merged
        /\ tags' = [tags EXCEPT ![block] = Len(arrays) + 1]
    <3>1. arrays \in Seq(Seq([key : Patterns \cup {Malformed}, value : Values \cup {Malformed}]))
      BY DEF TypeInv, TypeOK
    <3>2. Len(arrays) \in Nat
      BY <3>1, LenProperties
    <3> QED
      BY <1>2, <3>2 DEF set_opentracing_tag, Directive, TypeInv, TypeOK
  <2>2. \A b \in Blocks \ {block} : tags'[b] = tags[b] /\ tags'[b] # Len(arrays) + 1
    BY <2>1
  <2>3. tags'[block] = Len(arrays) + 1
    BY <2>1
  <2> QED
    BY <2>1, <2>2, <2>3 DEF SharedInv
<1>3. ASSUME NEW b \in Blocks, merge_opentracing_loc_conf(b)
      PROVE  SharedInv'
  <2>1. /\ Around[b] \in merged /\ Around[b] \in Blocks /\ merged' = merged \cup {b}
        /\ tags \in [Blocks -> 0 .. Len(arrays)]
        /\ tags' = tags \/ tags' = [tags EXCEPT ![b] = tags[Around[b]]]
    BY <1>3 DEF merge_opentracing_loc_conf, TypeInv, TypeOK
  <2>2. CASE tags' = tags
    BY <2>1, <2>2 DEF SharedInv
  <2>3. CASE tags' = [tags EXCEPT ![b] = tags[Around[b]]]
    <3>1. \A c \in Blocks \ {b} : tags'[c] = tags[c]
      BY <2>1, <2>3
    <3>2. tags'[b] = tags[Around[b]]
      BY <2>1, <2>3
    <3>3. \A c \in Blocks : tags[c] # 0 /\ tags[c] = tags[Around[b]] => c \in merged
      BY <2>1 DEF SharedInv
    <3> QED
      BY <2>1, <3>1, <3>2, <3>3 DEF SharedInv
  <2> QED
    BY <2>1, <2>2, <2>3
<1>4. \/ tags' = tags /\ merged \subseteq merged'
      \/ \E p, v : set_opentracing_tag(p, v) /\ tags[block] = 0
      \/ \E b \in Blocks : merge_opentracing_loc_conf(b)
  BY DEF Next, vars, OpenBlock, CloseBlock, ngx_conf_set_flag_slot, set_slot, Directive,
         set_opentracing_operation_name, set_opentracing_location_operation_name, set_script,
         set_opentracing_tag, set_tracer, propagate_opentracing_context, loc_conf_vars,
         opentracing_module_init, opentracing_init_worker, opentracing_exit_worker
<1> QED
  BY <1>1, <1>2, <1>3, <1>4

LEMMA SharedByMerging == Spec => []SharedInv
<1>1. Init => SharedInv
  BY DEF Init, SharedInv
<1> QED
  BY <1>1, Typed, SharedStep, PTL DEF Spec

\* The only step of the merging is the merge of one block.
LEMMA MergingStep ==
    ASSUME TypeInv, [Next]_vars, status = "merging"
    PROVE  UNCHANGED vars \/ \E b \in Blocks : merge_opentracing_loc_conf(b)
BY DEF Next, OpenBlock, CloseBlock, ngx_conf_set_flag_slot, set_slot, Directive,
       set_opentracing_operation_name, set_opentracing_location_operation_name, set_script,
       set_opentracing_tag, set_tracer, propagate_opentracing_context,
       opentracing_module_init, opentracing_init_worker, opentracing_exit_worker

\* Merging a block leaves the tags of every other one as they are.
LEMMA MergeWritesItsOwn ==
    ASSUME TypeInv, SharedInv, NEW b \in Blocks, merge_opentracing_loc_conf(b),
           NEW c \in Blocks, c # b
    PROVE  TagsOf(c)' = TagsOf(c)
<1>1. /\ b \notin merged /\ c \in Blocks /\ tags \in [Blocks -> 0 .. Len(arrays)]
      /\ tags' = tags \/ tags' = [tags EXCEPT ![b] = tags[Around[b]]]
  BY DEF merge_opentracing_loc_conf, TypeInv, TypeOK
<1>2. tags'[c] = tags[c]
  BY <1>1
<1>3. CASE arrays' = arrays
  BY <1>2, <1>3 DEF TagsOf
<1>4. ASSUME NEW new, tags[b] # 0,
             arrays' = [arrays EXCEPT ![tags[b]] = WrittenOver(new, arrays[tags[b]])]
      PROVE  TagsOf(c)' = TagsOf(c)
  <2>1. tags[c] # 0 => tags[c] # tags[b]
    BY <1>1, <1>4 DEF SharedInv
  <2>2. CASE tags[c] = 0
    BY <2>2, <1>2 DEF TagsOf
  <2>3. CASE tags[c] # 0
    <3>1. arrays'[tags[c]] = arrays[tags[c]]
      <4>1. tags[c] \in DOMAIN arrays
        <5>1. arrays \in Seq(Seq([key : Patterns \cup {Malformed}, value : Values \cup {Malformed}]))
          BY DEF TypeInv, TypeOK
        <5>2. DOMAIN arrays = 1 .. Len(arrays) /\ Len(arrays) \in Nat
          BY <5>1, LenProperties
        <5>3. tags[c] \in 0 .. Len(arrays)
          BY <1>1
        <5> QED
          BY <5>2, <5>3, <2>3
      <4> QED
        BY <4>1, <2>1, <2>3, <1>4
    <3> QED
      BY <3>1, <2>3, <1>2 DEF TagsOf
  <2> QED
    BY <2>2, <2>3
<1>5. \/ arrays' = arrays
      \/ /\ tags[b] # 0
         /\ \E new : arrays' = [arrays EXCEPT ![tags[b]] =
                                  WrittenOver(new, arrays[tags[b]])]
  BY DEF merge_opentracing_loc_conf
<1> QED
  BY <1>3, <1>4, <1>5

\* Blocks share arrays once merged, and a merge writes into an array: it is never
\* one that another block reads (merge_opentracing_loc_conf).
THEOREM MergeLocal == Spec => MergeTouchesOneBlock
<1> DEFINE A == \A b \in opened : (status = "merging" /\ ~(b \in merged' \ merged))
                                 => TagsOf(b)' = TagsOf(b)
<1>1. TypeInv /\ SharedInv /\ [Next]_vars => [A]_vars
  <2> SUFFICES ASSUME TypeInv, SharedInv, [Next]_vars, ~(UNCHANGED vars),
                      NEW c \in opened, status = "merging", ~(c \in merged' \ merged)
               PROVE  TagsOf(c)' = TagsOf(c)
    OBVIOUS
  <2>1. PICK b \in Blocks : merge_opentracing_loc_conf(b)
    BY MergingStep
  <2>2. c # b /\ c \in Blocks
    BY <2>1 DEF merge_opentracing_loc_conf, TypeInv, TypeOK
  <2> QED
    BY <2>1, <2>2, MergeWritesItsOwn
<1> QED
  BY <1>1, Typed, SharedByMerging, PTL DEF Spec, MergeTouchesOneBlock

-----------------------------------------------------------------------------
(* The keys that are sent. *)

TracerWritten ==
    \E b \in Blocks : \E i \in DOMAIN written[b] : written[b][i].set = "tracer"

\* A library that is stored was named in the file, and its keys are the ones
\* known. Without one nothing was propagated; with one tracer in the file the
\* blocks that propagate send all of its keys, and no block sends others.
SentInv ==
    /\ tracer_library # None =>
         TracerWritten /\ span_context_keys = KeysOf[tracer_library]
    /\ tracer_library = None => \A b \in Blocks : headers[b] = <<>>
    /\ \A b \in Blocks : \A i \in DOMAIN written[b] :
         written[b][i].set \in Propagators => tracer_library # None
    /\ OneTracer => \A b \in Blocks, directive \in Propagators :
         KeysSentBy(b, directive) \subseteq ToSet(span_context_keys)
    /\ OneTracer => \A b \in Blocks : \A i \in DOMAIN written[b] :
         written[b][i].set \in Propagators =>
           ToSet(span_context_keys) \subseteq KeysSentBy(b, written[b][i].set)

WorkerInv ==
    /\ status \in {"parsing", "merging", "merged", "ready"} => global_tracer = None
    /\ status = "serving" => global_tracer = tracer_library

KeysInv == WorkerInv /\ (status # "rejected" => SentInv)

\* The file only grows.
LEMMA FileGrows ==
    ASSUME TypeInv, NEW d \in Directives, Directive(d)
    PROVE  /\ \A b \in Blocks : \A i \in DOMAIN written[b] :
                i \in DOMAIN written'[b] /\ written'[b][i] = written[b][i]
           /\ \A b \in Blocks : \A i \in DOMAIN written'[b] :
                \/ i \in DOMAIN written[b] /\ written'[b][i] = written[b][i]
                \/ b = block /\ i = Len(written[block]) + 1 /\ written'[b][i] = d
           /\ Len(written[block]) + 1 \in DOMAIN written'[block]
           /\ Len(written[block]) + 1 \notin DOMAIN written[block]
<1>1. /\ block \in Blocks
      /\ \A b \in Blocks \ {block} : written'[b] = written[b]
      /\ DOMAIN written[block] = 1 .. Len(written[block])
      /\ Len(written[block]) \in Nat
      /\ DOMAIN written'[block] = 1 .. Len(written[block]) + 1
      /\ \A i \in 1 .. Len(written[block]) : written'[block][i] = written[block][i]
      /\ written'[block][Len(written[block]) + 1] = d
  BY DirectiveAdds
<1>2. \A i \in 1 .. Len(written[block]) + 1 :
        i \in 1 .. Len(written[block]) \/ i = Len(written[block]) + 1
  BY <1>1
<1>3. /\ Len(written[block]) + 1 \in 1 .. Len(written[block]) + 1
      /\ Len(written[block]) + 1 \notin 1 .. Len(written[block])
      /\ 1 .. Len(written[block]) \subseteq 1 .. Len(written[block]) + 1
  BY <1>1
<1> QED
  BY <1>1, <1>2, <1>3, Zenon

\* A file with one tracer had at most one before its last directive.
LEMMA OneTracerBefore ==
    ASSUME TypeInv, NEW d \in Directives, Directive(d), OneTracer'
    PROVE  OneTracer
BY FileGrows DEF OneTracer

\* Directives that are neither opentracing_load_tracer nor a propagation.
LEMMA OthersSendNothing ==
    ASSUME TypeInv, SentInv, NEW d \in Directives, Directive(d),
           d.set \notin Propagators,
           UNCHANGED <<main_conf_vars, headers>>
    PROVE  SentInv'
<1>1. /\ UNCHANGED <<tracer_library, span_context_keys, headers>>
      /\ OneTracer' => OneTracer
      /\ TracerWritten => TracerWritten'
      /\ \A b, directive : KeysSentBy(b, directive)' = KeysSentBy(b, directive)
  BY OneTracerBefore, FileGrows DEF main_conf_vars, TracerWritten, KeysSentBy
<1>2. \A b \in Blocks : \A i \in DOMAIN written'[b] :
        written'[b][i].set \in Propagators =>
          i \in DOMAIN written[b] /\ written'[b][i] = written[b][i]
  BY FileGrows
<1> QED
  BY <1>1, <1>2 DEF SentInv

\* opentracing_load_tracer, while it is the only one: nothing was sent before.
LEMMA TracerKeys ==
    ASSUME TypeInv, SentInv, NEW library \in Libraries, set_tracer(library),
           status' # "rejected"
    PROVE  SentInv'
<1> DEFINE d == [set |-> "tracer", to |-> library]
<1>1. d \in Directives /\ Directive(d) /\ d.set = "tracer"
  <2>1. "tracer" \in Names /\ library \in Arguments /\ [set : Names, to : Arguments] = Directives
    BY DEF Names, Arguments, Directives
  <2>2. d \in [set : Names, to : Arguments]
    BY <2>1
  <2>3. Directive(d)
    BY DEF set_tracer
  <2> QED
    BY <2>1, <2>2, <2>3
<1> HIDE DEF d
<1>2. /\ tracer_library' = library /\ library # None /\ headers' = headers
      /\ span_context_keys' = KeysOf[library]
      /\ block \in Blocks
  BY LibrariesAssumption
  DEF set_tracer, Rejected, discover_span_context_keys, TypeInv, TypeOK
<1>3. TracerWritten'
  BY <1>1, <1>2, FileGrows DEF TracerWritten
<1>4. ASSUME OneTracer' PROVE tracer_library = None
  <2> SUFFICES ASSUME TracerWritten PROVE FALSE
    BY DEF SentInv
  <2>0. PICK b \in Blocks : \E i \in DOMAIN written[b] : written[b][i].set = "tracer"
    BY DEF TracerWritten
  <2>1. PICK i \in DOMAIN written[b] : written[b][i].set = "tracer"
    BY <2>0
  <2>2. i \in DOMAIN written'[b] /\ written'[b][i].set = "tracer"
    BY <2>1, <1>1, FileGrows
  <2>3. /\ Len(written[block]) + 1 \in DOMAIN written'[block]
        /\ written'[block][Len(written[block]) + 1].set = "tracer"
    BY <1>1, DirectiveAdds, FileGrows
  <2>4. <<b, i>> = <<block, Len(written[block]) + 1>>
    BY <1>2, <1>4, <2>2, <2>3 DEF OneTracer
  <2> QED
    BY <2>1, <2>4, <1>1, FileGrows
<1>5. \A b \in Blocks : \A i \in DOMAIN written'[b] :
        written'[b][i].set \in Propagators =>
          i \in DOMAIN written[b] /\ written'[b][i] = written[b][i]
  BY <1>1, FileGrows DEF Propagators
<1>6. ASSUME OneTracer', NEW b \in Blocks, NEW directive \in Propagators
      PROVE  KeysSentBy(b, directive)' = {}
  BY <1>2, <1>4, <1>6 DEF SentInv, KeysSentBy, ToSet
<1> QED
  BY <1>2, <1>3, <1>4, <1>5, <1>6 DEF SentInv

\* A propagation directive sends the keys known when it is read.
LEMMA PropagatedKeys ==
    ASSUME TypeInv, SentInv, NEW directive \in Propagators,
           propagate_opentracing_context(directive), status' # "rejected"
    PROVE  SentInv'
<1> DEFINE d == [set |-> directive, to |-> Unset]
<1>1. d \in Directives /\ Directive(d) /\ d.set = directive
  <2>1. Unset \in Arguments /\ directive \in Names /\ [set : Names, to : Arguments] = Directives
    BY DEF Names, Arguments, Directives
  <2>2. d \in [set : Names, to : Arguments]
    BY <2>1
  <2>3. Directive(d)
    BY DEF propagate_opentracing_context
  <2> QED
    BY <2>1, <2>2, <2>3
<1> HIDE DEF d
<1>2. /\ tracer_library # None
      /\ UNCHANGED <<tracer_library, span_context_keys>>
      /\ headers' = [headers EXCEPT ![block] =
                       headers[block] \o HeadersFor(directive, span_context_keys)]
  BY DEF propagate_opentracing_context, Rejected, main_conf_vars
<1>3. /\ headers \in [Blocks -> Seq(HeaderType)] /\ span_context_keys \in Seq(Keys)
      /\ block \in Blocks
      /\ \A key \in Keys : [by |-> directive, key |-> key] \in HeaderType
  BY DEF TypeInv, TypeOK, HeaderType
<1>4. /\ \A b \in Blocks \ {block} : headers'[b] = headers[b]
      /\ ToSet(headers'[block]) =
           ToSet(headers[block]) \cup
             {[by |-> directive, key |-> key] : key \in ToSet(span_context_keys)}
  <2>1. headers[block] \in Seq(HeaderType)
    BY <1>3
  <2>2. ToSet(headers[block] \o HeadersFor(directive, span_context_keys)) =
          ToSet(headers[block]) \cup
            {[by |-> directive, key |-> key] : key \in ToSet(span_context_keys)}
    BY <1>3, <2>1, HeadersAdded
  <2>3. headers'[block] = headers[block] \o HeadersFor(directive, span_context_keys)
    BY <1>2, <1>3
  <2> QED
    BY <1>2, <1>3, <2>2, <2>3
<1> DEFINE new == {[by |-> directive, key |-> key] : key \in ToSet(span_context_keys)}
<1>5. /\ \A b, e, k : k \in KeysSentBy(b, e) <=>
           \E h \in ToSet(headers[b]) : h.by = e /\ h.key = k
      /\ \A b, e, k : k \in KeysSentBy(b, e)' <=>
           \E h \in ToSet(headers'[b]) : h.by = e /\ h.key = k
      /\ \A e, k : (\E h \in new : h.by = e /\ h.key = k) <=>
           e = directive /\ k \in ToSet(span_context_keys)
  <2>1. \A key : [by |-> directive, key |-> key].by = directive /\ [by |-> directive, key |-> key].key = key
    OBVIOUS
  <2>2. \A h : h \in new <=> \E key \in ToSet(span_context_keys) : h = [by |-> directive, key |-> key]
    OBVIOUS
  <2>3. \A e, k : (\E h \in new : h.by = e /\ h.key = k) <=>
          e = directive /\ k \in ToSet(span_context_keys)
    <3> SUFFICES ASSUME NEW e, NEW k
                 PROVE  (\E h \in new : h.by = e /\ h.key = k) <=>
                          e = directive /\ k \in ToSet(span_context_keys)
      OBVIOUS
    <3> HIDE DEF new
    <3>1. ASSUME NEW h \in new, h.by = e, h.key = k
          PROVE  e = directive /\ k \in ToSet(span_context_keys)
      <4>1. PICK key \in ToSet(span_context_keys) : h = [by |-> directive, key |-> key]
        BY <2>2
      <4> QED
        BY <4>1, <3>1, <2>1
    <3>2. ASSUME e = directive, k \in ToSet(span_context_keys)
          PROVE  \E h \in new : h.by = e /\ h.key = k
      <4>1. [by |-> directive, key |-> k] \in new
        BY <3>2, <2>2
      <4> QED
        BY <4>1, <3>2, <2>1
    <3> QED
      BY <3>1, <3>2
  <2> QED
    BY <2>3 DEF KeysSentBy
<1>6. \A b \in Blocks : \A e, k :
        k \in KeysSentBy(b, e)' <=>
          k \in KeysSentBy(b, e) \/ (b = block /\ e = directive /\ k \in ToSet(span_context_keys))
  <2> SUFFICES ASSUME NEW b \in Blocks, NEW e, NEW k
               PROVE  k \in KeysSentBy(b, e)' <=>
                        \/ k \in KeysSentBy(b, e)
                        \/ b = block /\ e = directive /\ k \in ToSet(span_context_keys)
    OBVIOUS
  <2> HIDE DEF new
  <2>1. CASE b # block
    BY <2>1, <1>4, <1>5
  <2>2. CASE b = block
    <3>1. ToSet(headers'[b]) = ToSet(headers[b]) \cup new
      BY <2>2, <1>4 DEF new
    <3>2. (\E h \in ToSet(headers'[b]) : h.by = e /\ h.key = k) <=>
            \/ \E h \in ToSet(headers[b]) : h.by = e /\ h.key = k
            \/ \E h \in new : h.by = e /\ h.key = k
      BY <3>1
    <3> QED
      BY <3>2, <2>2, <1>5
  <2> QED
    BY <2>1, <2>2
<1>8. OneTracer' => OneTracer
  BY <1>1, OneTracerBefore
<1>9. TracerWritten => TracerWritten'
  BY <1>1, FileGrows DEF TracerWritten
<1>10. \A b \in Blocks : \A i \in DOMAIN written'[b] :
         \/ i \in DOMAIN written[b] /\ written'[b][i] = written[b][i]
         \/ b = block /\ written'[b][i].set = directive
  BY <1>1, FileGrows
<1>11. ASSUME OneTracer', NEW b \in Blocks, NEW e \in Propagators
       PROVE  /\ KeysSentBy(b, e)' \subseteq ToSet(span_context_keys)
              /\ KeysSentBy(b, e) \subseteq KeysSentBy(b, e)'
  <2>1. KeysSentBy(b, e) \subseteq ToSet(span_context_keys)
    BY <1>8, <1>11 DEF SentInv
  <2>2. \A k : k \in KeysSentBy(b, e)' <=>
          k \in KeysSentBy(b, e) \/ (b = block /\ e = directive /\ k \in ToSet(span_context_keys))
    BY <1>6
  <2> HIDE DEF new
  <2> QED
    BY <2>1, <2>2
<1>12. ASSUME OneTracer', NEW b \in Blocks, NEW i \in DOMAIN written'[b],
              NEW e \in Propagators, written'[b][i].set = e
       PROVE  ToSet(span_context_keys) \subseteq KeysSentBy(b, e)'
  <2>1. CASE i \in DOMAIN written[b] /\ written'[b][i] = written[b][i]
    <3>1. ToSet(span_context_keys) \subseteq KeysSentBy(b, e)
      <4>1. written[b][i].set = e
        BY <2>1, <1>12
      <4> QED
        BY <4>1, <2>1, <1>8, <1>12 DEF SentInv
    <3> QED
      BY <3>1, <1>11, <1>12
  <2>2. CASE b = block /\ written'[b][i].set = directive
    BY <2>2, <1>6, <1>12
  <2> QED
    BY <2>1, <2>2, <1>10
<1>13. /\ OneTracer' => \A b \in Blocks, e \in Propagators :
            KeysSentBy(b, e)' \subseteq ToSet(span_context_keys)'
       /\ (OneTracer => \A b \in Blocks : \A i \in DOMAIN written[b] :
            written[b][i].set \in Propagators =>
              ToSet(span_context_keys) \subseteq KeysSentBy(b, written[b][i].set))'
  BY <1>2, <1>11, <1>12
<1>14. /\ tracer_library' # None =>
            TracerWritten' /\ span_context_keys' = KeysOf[tracer_library']
       /\ tracer_library' # None
  BY <1>2, <1>9 DEF SentInv
<1> QED
  BY <1>13, <1>14 DEF SentInv

\* Every step of the file, the merging and the worker keeps what is sent.
LEMMA KeysStep == TypeInv /\ KeysInv /\ [Next]_vars => KeysInv'
<1> SUFFICES ASSUME TypeInv, KeysInv, [Next]_vars PROVE KeysInv'
  OBVIOUS
<1>1. ASSUME NEW d \in Directives, Directive(d), Accepted \/ Rejected,
             status' # "rejected" => SentInv'
      PROVE  KeysInv'
  BY <1>1 DEF KeysInv, WorkerInv, Directive, Accepted, Rejected
<1>2. ASSUME UNCHANGED <<written, main_conf_vars, headers>>,
             status' # "rejected" => status # "rejected",
             WorkerInv'
      PROVE  KeysInv'
  <2>1. UNCHANGED <<written, tracer_library, span_context_keys, headers>>
    BY <1>2 DEF main_conf_vars
  <2>2. SentInv => SentInv'
    BY <2>1 DEF SentInv, TracerWritten, OneTracer, KeysSentBy
  <2> QED
    BY <1>2, <2>2 DEF KeysInv
<1>3. ASSUME NEW d \in Directives, Directive(d), Accepted \/ Rejected,
             d.set \notin Propagators, UNCHANGED <<main_conf_vars, headers>>
      PROVE  KeysInv'
  <2>1. SentInv
    BY <1>3 DEF KeysInv, Directive
  <2> QED
    BY <1>1, <1>3, <2>1, OthersSendNothing
<1>4. ASSUME NEW s \in Flags \cup Scripts, NEW value \in {"on", "off"} \cup Blocks,
             set_slot(s, value)
      PROVE  KeysInv'
  <2> DEFINE d == [set |-> s, to |-> value]
  <2>1. d \in Directives /\ d.set \notin Propagators
    BY Strings DEF Directives, Names, Arguments
  <2>2. Directive(d) /\ (Accepted \/ Rejected) /\ UNCHANGED <<main_conf_vars, headers>>
    BY <1>4 DEF set_slot
  <2> HIDE DEF d
  <2> QED
    BY <1>3, <2>1, <2>2
<1>5. ASSUME NEW s \in Scripts, set_script(s) PROVE KeysInv'
  <2> DEFINE d == [set |-> s, to |-> Malformed]
  <2>1. CASE set_slot(s, block)
    BY <2>1, <1>4 DEF TypeInv, TypeOK
  <2>2. CASE ~set_slot(s, block)
    <3>1. d \in Directives /\ d.set \notin Propagators
      BY Strings DEF Directives, Names, Arguments
    <3>2. Directive(d) /\ Rejected /\ UNCHANGED <<main_conf_vars, headers>>
      BY <1>5, <2>2 DEF set_script
    <3> HIDE DEF d
    <3> QED
      BY <1>3, <3>1, <3>2
  <2> QED
    BY <2>1, <2>2
<1>6. ASSUME NEW p \in Patterns \cup {Malformed}, NEW v \in Values \cup {Malformed},
             set_opentracing_tag(p, v)
      PROVE  KeysInv'
  <2> DEFINE d == [set |-> "tag", to |-> Tag(p, v)]
  <2>1. "tag" \in Names /\ Tag(p, v) \in Arguments
        /\ [set : Names, to : Arguments] = Directives
    BY DEF Names, Arguments, Directives, Tag, TagType
  <2>2. d \in [set : Names, to : Arguments] /\ d.set \notin Propagators
    BY <2>1 DEF Propagators
  <2>3. Directive(d) /\ (Accepted \/ Rejected) /\ UNCHANGED <<main_conf_vars, headers>>
    BY <1>6 DEF set_opentracing_tag
  <2> HIDE DEF d
  <2> QED
    BY <1>3, <2>1, <2>2, <2>3
<1>7. ASSUME NEW library \in Libraries, set_tracer(library) PROVE KeysInv'
  <2>1. status = "parsing" /\ (Accepted \/ Rejected)
    BY <1>7 DEF set_tracer, Directive
  <2>2. WorkerInv'
    BY <1>7, <2>1 DEF KeysInv, WorkerInv, set_tracer, Directive, Accepted, Rejected
  <2>3. SentInv
    BY <2>1 DEF KeysInv
  <2> QED
    BY <1>7, <2>2, <2>3, TracerKeys DEF KeysInv
<1>8. ASSUME NEW directive \in Propagators, propagate_opentracing_context(directive)
      PROVE  KeysInv'
  <2>1. status = "parsing" /\ (Accepted \/ Rejected)
    BY <1>8 DEF propagate_opentracing_context, Directive
  <2>2. WorkerInv'
    BY <1>8, <2>1
    DEF KeysInv, WorkerInv, propagate_opentracing_context, Directive, Accepted, Rejected
  <2>3. SentInv
    BY <2>1 DEF KeysInv
  <2> QED
    BY <1>8, <2>2, <2>3, PropagatedKeys DEF KeysInv
<1>9. ASSUME NEW b \in Blocks, OpenBlock(b) \/ merge_opentracing_loc_conf(b)
      PROVE  KeysInv'
  <2>1. /\ UNCHANGED <<written, main_conf_vars, headers, global_tracer>>
        /\ status \in {"parsing", "merging"} /\ status' \in {"parsing", "merging", "merged"}
    BY <1>9 DEF OpenBlock, merge_opentracing_loc_conf
  <2> QED
    BY <1>2, <2>1 DEF KeysInv, WorkerInv
<1>10. CASE CloseBlock \/ opentracing_module_init \/ UNCHANGED vars
  <2>1. /\ UNCHANGED <<written, tracer_library, span_context_keys, headers, global_tracer>>
        /\ \/ status' = status
           \/ status = "parsing" /\ status' \in {"merging", "merged"}
           \/ status = "merged" /\ status' = "ready"
    BY <1>10 DEF CloseBlock, opentracing_module_init, vars, main_conf_vars
  <2> QED
    BY <1>2, <2>1 DEF KeysInv, WorkerInv, main_conf_vars
<1>11. CASE opentracing_init_worker
  <2>1. /\ UNCHANGED <<written, tracer_library, span_context_keys, headers>>
        /\ status = "ready" /\ status' \in {"serving", "exited"}
        /\ status' = "serving" => \/ tracer_library = None /\ global_tracer' = global_tracer
                                 \/ global_tracer' = tracer_library
    BY <1>11 DEF opentracing_init_worker, main_conf_vars
  <2> QED
    BY <1>2, <2>1 DEF KeysInv, WorkerInv, main_conf_vars
<1>12. CASE opentracing_exit_worker
  <2>1. /\ UNCHANGED <<written, tracer_library, span_context_keys, headers>>
        /\ status = "serving" /\ status' = "exited"
    BY <1>12 DEF opentracing_exit_worker, main_conf_vars
  <2> QED
    BY <1>2, <2>1 DEF KeysInv, WorkerInv, main_conf_vars
<1>13. CASE set_opentracing_operation_name \/ set_opentracing_location_operation_name
  <2>1. PICK s \in Scripts : set_script(s)
    BY <1>13 DEF set_opentracing_operation_name, set_opentracing_location_operation_name,
                 Scripts
  <2> QED
    BY <2>1, <1>5
<1>14. ASSUME NEW flag \in Flags, NEW value \in {"on", "off"},
              ngx_conf_set_flag_slot(flag, value)
       PROVE  KeysInv'
  BY <1>4, <1>14 DEF ngx_conf_set_flag_slot
<1> QED
  BY <1>6, <1>7, <1>8, <1>9, <1>10, <1>11, <1>12, <1>13, <1>14 DEF Next

LEMMA KeysKnown == Spec => []KeysInv
<1>1. Init => KeysInv
  <2> SUFFICES ASSUME Init PROVE KeysInv
    OBVIOUS
  <2>1. /\ status = "parsing" /\ tracer_library = None /\ global_tracer = None
        /\ \A b \in Blocks : headers[b] = <<>> /\ written[b] = <<>>
    BY DEF Init
  <2>2. \A b \in Blocks : \A directive : KeysSentBy(b, directive) = {}
    BY <2>1 DEF KeysSentBy, ToSet
  <2> QED
    BY <2>1, <2>2 DEF KeysInv, WorkerInv, SentInv
<1> QED
  BY <1>1, Typed, KeysStep, PTL DEF Spec

\* Whatever the order of the directives in the file and the nesting of its
\* blocks: with one opentracing_load_tracer, a block that propagates sends
\* exactly the keys of the tracer the worker runs (propagate_opentracing_context).
THEOREM KeysOfTheTracer == Spec => []LoadedOncePropagates
<1>1. KeysInv => LoadedOncePropagates
  <2> SUFFICES ASSUME KeysInv, status = "serving", OneTracer, NEW b \in Blocks,
                      NEW i \in DOMAIN written[b], NEW directive \in Propagators,
                      written[b][i].set = directive
               PROVE  /\ global_tracer # None
                      /\ KeysSentBy(b, directive) = ToSet(KeysOf[global_tracer])
    BY DEF LoadedOncePropagates
  <2>1. SentInv /\ global_tracer = tracer_library
    BY DEF KeysInv, WorkerInv
  <2>2. tracer_library # None /\ span_context_keys = KeysOf[tracer_library]
    BY <2>1 DEF SentInv
  <2>3. KeysSentBy(b, directive) = ToSet(span_context_keys)
    <3>1. KeysSentBy(b, directive) \subseteq ToSet(span_context_keys)
      BY <2>1 DEF SentInv
    <3>2. ToSet(span_context_keys) \subseteq KeysSentBy(b, directive)
      BY <2>1 DEF SentInv
    <3> QED
      BY <3>1, <3>2
  <2> QED
    BY <2>1, <2>2, <2>3
<1> QED
  BY <1>1, KeysKnown, PTL

-----------------------------------------------------------------------------
(* The blocks around a block. *)

\* A block, and what is around what is around it, is the smallest such set.
LEMMA EnclosingBlocks ==
    ASSUME NEW b \in Blocks
    PROVE  /\ b \in Enclosing(b) /\ Enclosing(b) \subseteq Blocks
           /\ \A c \in Enclosing(b) \ {Http} : Around[c] \in Enclosing(b)
           /\ \A S \in SUBSET Blocks :
                b \in S /\ (\A d \in S \ {Http} : Around[d] \in S) => Enclosing(b) \subseteq S
<1>1. b \in Enclosing(b) /\ Enclosing(b) \subseteq Blocks
  BY DEF Enclosing
<1>2. ASSUME NEW S \in SUBSET Blocks, b \in S, \A d \in S \ {Http} : Around[d] \in S
      PROVE  Enclosing(b) \subseteq S
  BY <1>2 DEF Enclosing
<1>3. ASSUME NEW c \in Enclosing(b) \ {Http}
      PROVE  Around[c] \in Enclosing(b)
  <2>1. c \in Blocks /\ Around[c] \in Blocks
    BY <1>1, BlocksAssumption
  <2>2. ASSUME NEW S \in SUBSET Blocks, b \in S, \A d \in S \ {Http} : Around[d] \in S
        PROVE  Around[c] \in S
    BY <1>2, <2>2
  <2> QED BY <2>1, <2>2 DEF Enclosing
<1> QED BY <1>1, <1>2, <1>3

\* What encloses a block around a block encloses that; they are the block and
\* those around the next one; http has none around it.
LEMMA EnclosingAround ==
    ASSUME NEW b \in Blocks
    PROVE  /\ \A c \in Enclosing(b) : Enclosing(c) \subseteq Enclosing(b)
           /\ b # Http => Enclosing(b) = {b} \cup Enclosing(Around[b])
           /\ b = Http => Enclosing(b) = {Http}
<1>1. ASSUME NEW c \in Enclosing(b)
      PROVE  Enclosing(c) \subseteq Enclosing(b)
  <2>1. c \in Blocks /\ Enclosing(b) \in SUBSET Blocks
    BY EnclosingBlocks
  <2>2. \A d \in Enclosing(b) \ {Http} : Around[d] \in Enclosing(b)
    BY EnclosingBlocks
  <2> QED BY <2>1, <2>2, EnclosingBlocks
<1>2. ASSUME b # Http
      PROVE  Enclosing(b) = {b} \cup Enclosing(Around[b])
  <2> DEFINE S == {b} \cup Enclosing(Around[b])
  <2>1. Around[b] \in Blocks /\ Around[b] \in Enclosing(b) /\ b \in Enclosing(b)
    BY <1>2, BlocksAssumption, EnclosingBlocks
  <2>2. S \in SUBSET Blocks /\ Around[b] \in S
    BY <2>1, EnclosingBlocks
  <2>3. \A d \in S \ {Http} : Around[d] \in S
    BY <2>1, EnclosingBlocks
  <2>4. Enclosing(b) \subseteq S
    BY <2>2, <2>3, EnclosingBlocks
  <2>5. S \subseteq Enclosing(b)
    BY <1>1, <2>1
  <2> QED BY <2>4, <2>5
<1>3. ASSUME b = Http
      PROVE  Enclosing(b) = {Http}
  <2>1. {Http} \in SUBSET Blocks /\ \A d \in {Http} \ {Http} : Around[d] \in {Http}
    BY BlocksAssumption
  <2> QED BY <1>3, <2>1, EnclosingBlocks
<1> QED BY <1>1, <1>2, <1>3

\* No opened block is around itself.
Nested == \A b \in opened \ {Http} : b \notin Enclosing(Around[b])

\* The blocks around an opened one are opened: a block is opened in another.
LEMMA EnclosingOpened ==
    ASSUME TypeInv, NEW b \in opened
    PROVE  b \in Blocks /\ Enclosing(b) \subseteq opened
  BY EnclosingBlocks DEF TypeInv, TypeOK

\* A block is opened in one that is opened, and it was not before.
LEMMA NestedStep ==
    ASSUME TypeInv, Nested, [Next]_vars
    PROVE  Nested'
<1>1. CASE opened' = opened
  BY <1>1 DEF Nested, Enclosing
<1>2. ASSUME NEW b \in Blocks, OpenBlock(b)
      PROVE  Nested'
  <2>1. /\ block \in opened /\ b \notin opened /\ Around[b] = block
        /\ opened' = opened \cup {b}
    BY <1>2 DEF OpenBlock, TypeInv, TypeOK
  <2>2. b \notin Enclosing(Around[b])
    BY <2>1, EnclosingOpened
  <2> QED BY <2>1, <2>2 DEF Nested, Enclosing
<1>3. opened' = opened \/ \E b \in Blocks : OpenBlock(b)
  BY DEF Next, vars, CloseBlock, ngx_conf_set_flag_slot, set_slot, Directive,
         set_opentracing_operation_name, set_opentracing_location_operation_name, set_script,
         set_opentracing_tag, set_tracer, propagate_opentracing_context, loc_conf_vars,
         merge_opentracing_loc_conf,
         opentracing_module_init, opentracing_init_worker, opentracing_exit_worker
<1> QED BY <1>1, <1>2, <1>3

\* The place in a block after all others of some in it is the nearest: the
\* block is not around those around it.
LEMMA NearestIs ==
    ASSUME TypeInv, Nested, NEW b \in opened, NEW P \in SUBSET InScope(b),
           NEW i \in Nat, <<b, i>> \in P,
           \A q \in P : q[1] = b => q[2] \in Nat /\ q[2] <= i
    PROVE  Nearest(P) = <<b, i>>
<1>1. b \in Blocks
  BY EnclosingOpened
<1>2. \A q \in P : q[1] \in Enclosing(b) /\ q = <<q[1], q[2]>>
  BY DEF InScope
<1> DEFINE Is(p) == \A q \in P : q[1] \in Enclosing(p[1]) /\ (q[1] = p[1] => q[2] <= p[2])
<1>3. Is(<<b, i>>)
  BY <1>2
<1>4. ASSUME NEW p \in P, Is(p)
      PROVE  p = <<b, i>>
  <2>1. p[1] \in Enclosing(b) /\ b \in Enclosing(p[1])
    BY <1>2, <1>4
  <2>2. p[1] = b
    <3>1. CASE b = Http
      BY <1>1, <2>1, <3>1, EnclosingAround
    <3>2. CASE b # Http
      <4>1. Around[b] \in Blocks
        BY <1>1, <3>2, BlocksAssumption
      <4>2. p[1] # b => b \in Enclosing(Around[b])
        BY <1>1, <2>1, <3>2, <4>1, EnclosingAround
      <4> QED BY <3>2, <4>2 DEF Nested
    <3> QED BY <3>1, <3>2
  <2>3. p[2] \in Nat /\ p[2] <= i /\ i <= p[2]
    BY <1>4, <2>2
  <2> QED BY <1>2, <2>2, <2>3
<1>5. Nearest(P) = CHOOSE p \in P : Is(p)
  BY DEF Nearest
<1> HIDE DEF Is
<1> QED BY <1>3, <1>4, <1>5

-----------------------------------------------------------------------------
(* Settings. *)

Settings == Flags \cup Scripts

\* While the file is read only http counts as merged, and then all blocks are.
MergedInv ==
    /\ status = "parsing" => merged = {Http}
    /\ Merged => merged = opened

\* The statuses follow each other.
LEMMA MergedStep ==
    ASSUME TypeInv, MergedInv, [Next]_vars
    PROVE  MergedInv'
  BY DEF TypeInv, TypeOK, MergedInv, Merged, Next, vars, OpenBlock, CloseBlock,
         ngx_conf_set_flag_slot, set_slot, Directive, Accepted, Rejected,
         set_opentracing_operation_name, set_opentracing_location_operation_name, set_script,
         set_opentracing_tag, set_tracer, propagate_opentracing_context, loc_conf_vars,
         merge_opentracing_loc_conf,
         opentracing_module_init, opentracing_init_worker, opentracing_exit_worker

\* A step that does not reject the file adds a directive to it that is no
\* setting and no tag, or gives a setting, or a tag, or merges a block, or leaves
\* the file and the blocks' configurations alone.
LEMMA StepKinds ==
    ASSUME TypeInv, [Next]_vars, status' # "rejected"
    PROVE  \/ \E d \in Directives : /\ Directive(d) /\ d.set \notin Settings \cup {"tag"}
                                    /\ UNCHANGED loc_conf_vars
           \/ \E s \in Settings, value \in {"on", "off"} \cup Blocks : set_slot(s, value)
           \/ \E key \in Patterns \cup {Malformed}, value \in Values \cup {Malformed} :
                set_opentracing_tag(key, value)
           \/ \E b \in Blocks : merge_opentracing_loc_conf(b)
           \/ UNCHANGED <<written, merged, slots, arrays, tags>>
<1>1. ASSUME NEW set \in Propagators \cup {"tracer"}, NEW to \in Libraries \cup {Unset},
             Directive([set |-> set, to |-> to]), UNCHANGED loc_conf_vars
      PROVE  \E d \in Directives : /\ Directive(d) /\ d.set \notin Settings \cup {"tag"}
                                   /\ UNCHANGED loc_conf_vars
  <2> DEFINE d == [set |-> set, to |-> to]
  <2>1. set \in Names /\ to \in Arguments
    BY DEF Names, Arguments
  <2>2. d \in Directives
    BY <2>1 DEF Directives
  <2>3. d.set \notin Settings \cup {"tag"}
    BY Strings DEF Settings
  <2> QED BY <1>1, <2>2, <2>3
<1>2. ASSUME NEW library \in Libraries, set_tracer(library)
      PROVE  \E d \in Directives : /\ Directive(d) /\ d.set \notin Settings \cup {"tag"}
                                   /\ UNCHANGED loc_conf_vars
  BY <1>1, <1>2 DEF set_tracer
<1>3. ASSUME NEW directive \in Propagators, propagate_opentracing_context(directive)
      PROVE  \E d \in Directives : /\ Directive(d) /\ d.set \notin Settings \cup {"tag"}
                                   /\ UNCHANGED loc_conf_vars
  BY <1>1, <1>3 DEF propagate_opentracing_context
<1>4. ASSUME NEW s \in Scripts, set_script(s)
      PROVE  \E value \in {"on", "off"} \cup Blocks : set_slot(s, value)
  BY <1>4 DEF set_script, Rejected, Directive, TypeInv, TypeOK
<1>5. \/ \E b \in Blocks : merge_opentracing_loc_conf(b)
      \/ \E flag \in Flags, value \in {"on", "off"} : set_slot(flag, value)
      \/ \E s \in Scripts : set_script(s)
      \/ \E key \in Patterns \cup {Malformed}, value \in Values \cup {Malformed} :
           set_opentracing_tag(key, value)
      \/ \E library \in Libraries : set_tracer(library)
      \/ \E directive \in Propagators : propagate_opentracing_context(directive)
      \/ UNCHANGED <<written, merged, slots, arrays, tags>>
  BY DEF Next, vars, OpenBlock, CloseBlock, ngx_conf_set_flag_slot, Scripts,
         set_opentracing_operation_name, set_opentracing_location_operation_name,
         loc_conf_vars,
         opentracing_module_init, opentracing_init_worker, opentracing_exit_worker
<1> QED BY <1>2, <1>3, <1>4, <1>5 DEF Settings

\* The directives of a block that give a setting, or a tag with a pattern.
SlotAt(b, s) == {i \in DOMAIN written[b] : written[b][i].set = s}
TagAt(b, p) == {i \in DOMAIN written[b] : written[b][i].set = "tag" /\ written[b][i].to.key = p}

\* Where a directive is added.
Added == Len(written[block]) + 1

\* A directive is added to those of its block that set the same.
LEMMA PlacesGrow ==
    ASSUME TypeInv, NEW d \in Directives, Directive(d)
    PROVE  /\ block \in Blocks /\ Added \in Nat /\ Added \notin DOMAIN written[block]
           /\ \A i \in DOMAIN written[block] : i \in Nat /\ i <= Added
           /\ written'[block][Added] = d
           /\ \A b \in Blocks : \A i \in DOMAIN written[b] : written'[b][i] = written[b][i]
           /\ \A s : \A b \in Blocks :
                SlotAt(b, s)' = IF b = block /\ d.set = s THEN SlotAt(b, s) \cup {Added}
                                ELSE SlotAt(b, s)
           /\ \A p : \A b \in Blocks :
                TagAt(b, p)' = IF b = block /\ d.set = "tag" /\ d.to.key = p
                               THEN TagAt(b, p) \cup {Added}
                               ELSE TagAt(b, p)
<1>1. /\ block \in Blocks /\ DOMAIN written[block] = 1 .. Len(written[block])
      /\ Len(written[block]) \in Nat /\ written'[block][Added] = d
  BY DirectiveAdds DEF Added
<1>2. Added \in Nat /\ \A i \in DOMAIN written[block] : i \in Nat /\ i <= Added
  BY <1>1 DEF Added
<1>3. /\ \A b \in Blocks : \A i \in DOMAIN written[b] :
           i \in DOMAIN written'[b] /\ written'[b][i] = written[b][i]
      /\ \A b \in Blocks : \A i \in DOMAIN written'[b] :
           \/ i \in DOMAIN written[b] /\ written'[b][i] = written[b][i]
           \/ b = block /\ i = Added /\ written'[b][i] = d
      /\ Added \in DOMAIN written'[block] /\ Added \notin DOMAIN written[block]
  BY FileGrows DEF Added
<1>4. ASSUME NEW s, NEW b \in Blocks
      PROVE  SlotAt(b, s)' = IF b = block /\ d.set = s THEN SlotAt(b, s) \cup {Added}
                             ELSE SlotAt(b, s)
  <2>1. CASE b = block /\ d.set = s
    BY <1>1, <1>3, <2>1 DEF SlotAt
  <2>2. CASE ~(b = block /\ d.set = s)
    BY <1>1, <1>3, <2>2 DEF SlotAt
  <2> QED BY <2>1, <2>2
<1>5. ASSUME NEW p, NEW b \in Blocks
      PROVE  TagAt(b, p)' = IF b = block /\ d.set = "tag" /\ d.to.key = p
                            THEN TagAt(b, p) \cup {Added}
                            ELSE TagAt(b, p)
  <2>1. CASE b = block /\ d.set = "tag" /\ d.to.key = p
    BY <1>1, <1>3, <2>1 DEF TagAt
  <2>2. CASE ~(b = block /\ d.set = "tag" /\ d.to.key = p)
    BY <1>1, <1>3, <2>2 DEF TagAt
  <2> QED BY <2>1, <2>2
<1> QED BY <1>1, <1>2, <1>3, <1>4, <1>5

\* What is in scope in a block: its own directives and what is around it.
LEMMA ScopeAround ==
    ASSUME NEW b \in Blocks
    PROVE  /\ b # Http => InScope(b) = ({b} \X DOMAIN written[b]) \cup InScope(Around[b])
           /\ b = Http => InScope(b) = {b} \X DOMAIN written[b]
           /\ \A i : <<b, i>> \in InScope(b) => i \in DOMAIN written[b]
           /\ \A i \in DOMAIN written[b] : <<b, i>> \in InScope(b)
           /\ \A q \in InScope(b) : q[1] = b => q[2] \in DOMAIN written[b]
  BY EnclosingBlocks, EnclosingAround DEF InScope

\* The setting in effect in a block.
InEffect(b, s) ==
    IF SlotSet(b, s) # {} THEN At(Nearest(SlotSet(b, s))).to
    ELSE IF s \in Flags THEN Default[s] ELSE Unset

\* Every setting that is given is a value. A block that is not yet merged has
\* its own, given once; a merged one has those in effect, and
\* all flags.
SlotsInv ==
    /\ \A b \in Blocks : \A i \in DOMAIN written[b] :
         written[b][i].set \in Settings => written[b][i].to # Unset
    /\ \A b \in Blocks \ (merged \ {Http}), s \in Settings :
         \/ slots[b][s] = Unset /\ SlotAt(b, s) = {}
         \/ \E i : SlotAt(b, s) = {i} /\ slots[b][s] = written[b][i].to
    /\ \A b \in merged \ {Http}, s \in Settings :
         slots[b][s] = InEffect(b, s) /\ (s \in Flags => slots[b][s] # Unset)

\* A setting that a block gives is the nearest; one that it does not give is
\* what it is around the block.
LEMMA SlotInEffect ==
    ASSUME TypeInv, Nested, NEW b \in opened, NEW s
    PROVE  /\ \A i : SlotAt(b, s) = {i} =>
                SlotSet(b, s) # {} /\ At(Nearest(SlotSet(b, s))) = written[b][i]
           /\ SlotAt(b, s) = {} =>
                SlotSet(b, s) = IF b = Http THEN {} ELSE SlotSet(Around[b], s)
<1>1. b \in Blocks /\ DOMAIN written[b] \subseteq Nat
  BY EnclosingOpened, LenProperties DEF TypeInv
<1>2. ASSUME NEW i, SlotAt(b, s) = {i}
      PROVE  SlotSet(b, s) # {} /\ At(Nearest(SlotSet(b, s))) = written[b][i]
  <2>1. i \in DOMAIN written[b] /\ written[b][i].set = s /\ i \in Nat
    BY <1>1, <1>2 DEF SlotAt
  <2>2. <<b, i>> \in SlotSet(b, s)
    BY <1>1, <2>1, ScopeAround DEF SlotSet, At
  <2>3. ASSUME NEW q \in SlotSet(b, s), q[1] = b
        PROVE  q[2] \in Nat /\ q[2] <= i
    <3>1. q[2] \in SlotAt(b, s)
      BY <1>1, <2>3, ScopeAround DEF SlotSet, At, SlotAt
    <3> QED BY <1>2, <2>1, <3>1
  <2>4. SlotSet(b, s) \in SUBSET InScope(b)
    BY DEF SlotSet
  <2>5. Nearest(SlotSet(b, s)) = <<b, i>>
    BY <2>1, <2>2, <2>3, <2>4, NearestIs
  <2> QED BY <2>2, <2>5 DEF At
<1>3. ASSUME SlotAt(b, s) = {}
      PROVE  SlotSet(b, s) = IF b = Http THEN {} ELSE SlotSet(Around[b], s)
  <2>1. ASSUME NEW q \in SlotSet(b, s) PROVE q \notin {b} \X DOMAIN written[b]
    BY <1>3, <2>1 DEF SlotSet, SlotAt, At
  <2>2. CASE b = Http
    BY <1>1, <2>1, <2>2, ScopeAround DEF SlotSet
  <2>3. CASE b # Http
    BY <1>1, <2>1, <2>3, ScopeAround DEF SlotSet
  <2> QED BY <2>2, <2>3
<1> QED BY <1>2, <1>3

\* ngx_conf_merge_value: what a block gives, else what is in effect around it.
LEMMA SlotsMerged ==
    ASSUME TypeInv, Nested, SlotsInv, NEW b \in opened \ merged, b # Http,
           Around[b] \in merged, NEW s \in Settings
    PROVE  MergedSlots(slots[Around[b]], slots[b])[s] = InEffect(b, s)
<1> DEFINE prev == slots[Around[b]][s]
           conf == slots[b][s]
           a == Around[b]
<1>1. /\ a \in opened /\ a \in Blocks /\ b \in Blocks /\ b \in Blocks \ (merged \ {Http})
  BY DEF TypeInv, TypeOK
<1>2. MergedSlots(slots[a], slots[b])[s] =
        IF conf # Unset THEN conf
        ELSE IF prev # Unset \/ s \in Scripts THEN prev ELSE Default[s]
  BY DEF MergedSlots, Settings
<1>3. ASSUME NEW c \in Blocks, NEW i, SlotAt(c, s) = {i}
      PROVE  written[c][i].to # Unset
  BY <1>3 DEF SlotsInv, SlotAt, Settings
<1>4. s \in Flags => Default[s] # Unset
  BY Strings
<1>5. CASE SlotAt(b, s) # {}
  <2>1. PICK i : SlotAt(b, s) = {i} /\ conf = written[b][i].to
    BY <1>1, <1>5 DEF SlotsInv
  <2> QED BY <1>1, <1>2, <1>3, <2>1, SlotInEffect DEF InEffect
<1>6. CASE SlotAt(b, s) = {}
  <2>1. conf = Unset
    BY <1>1, <1>6 DEF SlotsInv
  <2>2. InEffect(b, s) = InEffect(a, s)
    BY <1>6, SlotInEffect DEF InEffect
  <2>3. CASE a # Http
    <3>1. prev = InEffect(a, s)
      BY <1>1, <2>3 DEF SlotsInv
    <3>2. prev # Unset \/ s \in Scripts
      BY <1>1, <2>3 DEF SlotsInv, Settings
    <3> QED BY <1>2, <2>1, <2>2, <3>1, <3>2
  <2>4. CASE a = Http
    <3>1. CASE SlotAt(a, s) = {}
      <4>1. prev = Unset
        BY <1>1, <2>4, <3>1 DEF SlotsInv
      <4>2. SlotSet(a, s) = {}
        BY <1>1, <2>4, <3>1, SlotInEffect
      <4>3. Flags \cap Scripts = {}
        BY DEF Flags, Scripts, Default
      <4> QED BY <1>2, <2>1, <2>2, <4>1, <4>2, <4>3 DEF InEffect, Settings
    <3>2. CASE SlotAt(a, s) # {}
      <4>1. PICK i : SlotAt(a, s) = {i} /\ prev = written[a][i].to
        BY <1>1, <2>4, <3>2 DEF SlotsInv
      <4>2. InEffect(a, s) = prev
        BY <1>1, <4>1, SlotInEffect DEF InEffect
      <4> QED BY <1>1, <1>2, <1>3, <2>1, <2>2, <4>1, <4>2
    <3> QED BY <3>1, <3>2
  <2> QED BY <2>3, <2>4
<1> QED BY <1>5, <1>6

\* Every step of the file and the merging keeps the settings as they should be.
LEMMA SlotsStep ==
    ASSUME TypeInv, Nested, MergedInv, SlotsInv, [Next]_vars, status' # "rejected"
    PROVE  SlotsInv'
<1>1. slots \in [Blocks -> [Settings -> {Unset, "on", "off"} \cup Blocks]]
  BY DEF TypeInv, TypeOK, Settings
\* What is in effect in a block depends on the file only.
<1>2. ASSUME written' = written, NEW b, NEW s
      PROVE  InEffect(b, s)' = InEffect(b, s)
  BY <1>2 DEF InEffect, SlotSet, InScope, At, Enclosing, Nearest
<1>3. ASSUME NEW d \in Directives, Directive(d), d.set \notin Settings, UNCHANGED slots
      PROVE  SlotsInv'
  <2>1. merged = {Http} /\ merged' = merged
    BY <1>3, DirectiveKeeps DEF MergedInv
  <2>2. \A b \in Blocks, s \in Settings : SlotAt(b, s)' = SlotAt(b, s)
    BY <1>3, PlacesGrow
  <2>3. \A b \in Blocks, s \in Settings : \A i \in SlotAt(b, s) : written'[b][i] = written[b][i]
    BY <1>3, PlacesGrow DEF SlotAt
  <2>4. \A b \in Blocks : \A i \in DOMAIN written'[b] :
          written'[b][i].set \in Settings => written'[b][i].to # Unset
    BY <1>3, FileGrows DEF SlotsInv
  <2> QED BY <1>3, <2>1, <2>2, <2>3, <2>4 DEF SlotsInv
<1>4. ASSUME NEW s \in Settings, NEW value \in {"on", "off"} \cup Blocks, set_slot(s, value)
      PROVE  SlotsInv'
  <2> DEFINE d == [set |-> s, to |-> value]
  <2>1. d \in Directives /\ Directive(d) /\ d.set = s /\ d.to = value /\ value # Unset
    <3>1. s \in Names /\ value \in Arguments
      BY DEF Names, Arguments, Settings
    <3>2. d \in Directives
      BY <3>1 DEF Directives
    <3>3. value # Unset
      BY Strings, BlocksAssumption
    <3> QED BY <1>4, <3>2, <3>3 DEF set_slot
  <2> HIDE DEF d
  <2>2. merged = {Http} /\ merged' = merged /\ block \in Blocks
    BY <2>1, DirectiveKeeps, PlacesGrow DEF MergedInv
  <2>3. slots[block][s] = Unset /\ slots' = [slots EXCEPT ![block][s] = value]
    BY <1>4 DEF set_slot, Rejected, Directive
  <2>4. /\ slots'[block][s] = value
        /\ \A b \in Blocks, r \in Settings : b # block \/ r # s => slots'[b][r] = slots[b][r]
    BY <1>1, <2>2, <2>3
  <2>5. \A b \in Blocks : \A i \in DOMAIN written'[b] :
          written'[b][i].set \in Settings => written'[b][i].to # Unset
    BY <2>1, FileGrows DEF SlotsInv
  <2>6. SlotAt(block, s) = {}
    <3>1. ~\E i : SlotAt(block, s) = {i} /\ slots[block][s] = written[block][i].to
      <4> SUFFICES ASSUME NEW i, SlotAt(block, s) = {i}, written[block][i].to = Unset
                   PROVE  FALSE
        BY <2>3
      <4> QED BY <2>2 DEF SlotsInv, SlotAt
    <3> QED BY <2>2, <3>1 DEF SlotsInv
  <2>7. \A b \in Blocks : b = block => SlotAt(b, s)' = {Added}
    BY <2>1, <2>6, PlacesGrow
  <2>8. written'[block][Added].to = value
    BY <2>1, PlacesGrow
  <2>9. ASSUME NEW b \in Blocks, NEW r \in Settings, b # block \/ r # s
        PROVE  /\ SlotAt(b, r)' = SlotAt(b, r)
               /\ \A i \in SlotAt(b, r) : written'[b][i] = written[b][i]
    <3>1. SlotAt(b, r)' = SlotAt(b, r)
      BY <2>1, <2>9, PlacesGrow
    <3>2. \A i \in DOMAIN written[b] : written'[b][i] = written[b][i]
      BY <2>1, PlacesGrow
    <3> QED BY <3>1, <3>2 DEF SlotAt
  <2>10. ASSUME NEW b \in Blocks, NEW r \in Settings
        PROVE  \/ slots'[b][r] = Unset /\ SlotAt(b, r)' = {}
               \/ \E i : SlotAt(b, r)' = {i} /\ slots'[b][r] = written'[b][i].to
    <3>1. CASE b = block /\ r = s
      BY <2>4, <2>7, <2>8, <3>1
    <3>2. CASE b # block \/ r # s
      <4>1. \/ slots[b][r] = Unset /\ SlotAt(b, r) = {}
            \/ \E i : SlotAt(b, r) = {i} /\ slots[b][r] = written[b][i].to
        BY <2>2 DEF SlotsInv
      <4> QED BY <2>4, <2>9, <3>2, <4>1
    <3> QED BY <3>1, <3>2
  <2> QED BY <2>2, <2>5, <2>10 DEF SlotsInv
<1>5. ASSUME NEW b \in Blocks, merge_opentracing_loc_conf(b)
      PROVE  SlotsInv'
  <2>1. /\ b \in opened \ merged /\ Around[b] \in merged /\ merged' = merged \cup {b}
        /\ slots' = [slots EXCEPT ![b] = MergedSlots(slots[Around[b]], slots[b])]
        /\ written' = written /\ b # Http
    BY <1>5 DEF merge_opentracing_loc_conf, TypeInv, TypeOK
  <2>2. slots'[b] = MergedSlots(slots[Around[b]], slots[b])
        /\ \A c \in Blocks \ {b} : slots'[c] = slots[c]
    BY <1>1, <2>1
  <2>3. \A s \in Settings : slots'[b][s] = InEffect(b, s)'
    BY <1>2, <2>1, <2>2, SlotsMerged
  <2>4. ASSUME NEW s \in Flags PROVE slots'[b][s] # Unset
    <3>1. Default[s] # Unset /\ s \notin Scripts
      BY Strings DEF Flags, Scripts, Default
    <3> QED BY <2>2, <3>1 DEF MergedSlots
  <2>5. \A s : \A c \in Blocks : SlotAt(c, s)' = SlotAt(c, s)
    BY <2>1 DEF SlotAt
  <2>6. merged \subseteq Blocks
    BY DEF TypeInv, TypeOK
  <2>7. \A c \in merged' \ {Http}, s \in Settings :
          slots'[c][s] = InEffect(c, s)' /\ (s \in Flags => slots'[c][s] # Unset)
    BY <1>2, <2>1, <2>2, <2>3, <2>4, <2>6 DEF SlotsInv
  <2>8. \A c \in Blocks \ (merged' \ {Http}), s \in Settings :
          \/ slots'[c][s] = Unset /\ SlotAt(c, s)' = {}
          \/ \E i : SlotAt(c, s)' = {i} /\ slots'[c][s] = written'[c][i].to
    BY <2>1, <2>2, <2>5 DEF SlotsInv
  <2> QED BY <2>1, <2>7, <2>8 DEF SlotsInv
<1>6. CASE UNCHANGED <<written, merged, slots>>
  BY <1>2, <1>6 DEF SlotsInv, SlotAt
<1>7. ASSUME NEW key \in Patterns \cup {Malformed}, NEW value \in Values \cup {Malformed},
             set_opentracing_tag(key, value)
      PROVE  SlotsInv'
  <2> DEFINE d == [set |-> "tag", to |-> Tag(key, value)]
  <2>1. d \in Directives /\ d.set \notin Settings
    <3>1. "tag" \in Names /\ Tag(key, value) \in Arguments /\ "tag" \notin Settings
      BY Strings DEF Names, Arguments, Tag, TagType, Settings
    <3> QED BY <3>1 DEF Directives
  <2> QED BY <1>3, <1>7, <2>1 DEF set_opentracing_tag
<1> QED BY <1>3, <1>4, <1>5, <1>6, <1>7, StepKinds DEF loc_conf_vars

\* The invariant of the file and of what the blocks make of it.
SettingsInv == Nested /\ MergedInv /\ (status # "rejected" => SlotsInv)

\* A file that is rejected stays so.
LEMMA RejectedStays ==
    ASSUME [Next]_vars, status' # "rejected"
    PROVE  status # "rejected"
  BY DEF Next, vars, OpenBlock, CloseBlock, ngx_conf_set_flag_slot, set_slot, Directive,
         set_opentracing_operation_name, set_opentracing_location_operation_name, set_script,
         set_opentracing_tag, set_tracer, propagate_opentracing_context,
         merge_opentracing_loc_conf,
         opentracing_module_init, opentracing_init_worker, opentracing_exit_worker

\* The invariant of the settings is one,
LEMMA SettingsStep == TypeInv /\ SettingsInv /\ [Next]_vars => SettingsInv'
<1> SUFFICES ASSUME TypeInv, SettingsInv, [Next]_vars PROVE SettingsInv'
  OBVIOUS
<1>1. status' # "rejected" => status # "rejected"
  BY RejectedStays
<1> QED BY <1>1, NestedStep, MergedStep, SlotsStep DEF SettingsInv

\* and holds before the file is read.
LEMMA SettingsInit == Init => SettingsInv
<1> SUFFICES ASSUME Init PROVE SettingsInv
  OBVIOUS
<1>1. /\ Nested /\ MergedInv
  BY DEF Init, Nested, MergedInv, Merged
<1>2. \A b \in Blocks : DOMAIN written[b] = {}
  BY DEF Init
<1>3. \A b \in Blocks, s \in Settings : slots[b][s] = Unset /\ SlotAt(b, s) = {}
  BY <1>2 DEF Init, SlotAt, Settings
<1>4. merged \ {Http} = {}
  BY DEF Init
<1> QED BY <1>1, <1>2, <1>3, <1>4 DEF SettingsInv, SlotsInv

\* After merging, each flag and script of a block, in however many blocks it is
\* nested, is what the innermost block that gives one says, else the default
\* (merge_opentracing_loc_conf).
THEOREM NearestSlots == Spec => []NearestSlotWins
<1>1. TypeInv /\ SettingsInv => NearestSlotWins
  <2> SUFFICES ASSUME TypeInv, SettingsInv, Merged,
                      NEW b \in opened \ {Http}, NEW s \in Flags \cup Scripts
               PROVE  slots[b][s] = InEffect(b, s)
    BY DEF NearestSlotWins, InEffect
  <2>1. merged = opened /\ status # "rejected"
    BY DEF SettingsInv, MergedInv, Merged
  <2> QED BY <2>1 DEF SettingsInv, SlotsInv, Settings
<1> QED BY <1>1, Typed, SettingsInit, SettingsStep, PTL DEF Spec

-----------------------------------------------------------------------------
(* Tags. *)

\* The last tag with a key: it is there, and it is at the greatest index.
LEMMA LastTagIs ==
    ASSUME NEW ts \in Seq(TagType), NEW p
    PROVE  /\ \A i \in 1 .. Len(ts) :
                ts[i].key = p /\ (\A j \in 1 .. Len(ts) : ts[j].key = p => j <= i) =>
                  p \in KeysIn(ts) /\ LastTag(ts, p) = ts[i]
           /\ p \in KeysIn(ts) => \E i \in 1 .. Len(ts) :
                /\ ts[i].key = p /\ LastTag(ts, p) = ts[i]
                /\ \A j \in 1 .. Len(ts) : ts[j].key = p => j <= i
<1> DEFINE I == {i \in 1 .. Len(ts) : ts[i].key = p}
<1>1. Len(ts) \in Nat /\ DOMAIN ts = 1 .. Len(ts)
  BY LenProperties
<1>2. p \in KeysIn(ts) <=> I # {}
  BY <1>1 DEF KeysIn
<1>3. I # {} => LastTag(ts, p) = ts[Max(I)]
  BY DEF LastTag, SelectLastInSeq
<1>4. ASSUME NEW i \in I, \A j \in I : j <= i
      PROVE  Max(I) = i
  <2>1. \A k \in I : (\A j \in I : k >= j) => k = i
    BY <1>1, <1>4
  <2>2. \A j \in I : i >= j
    BY <1>1, <1>4
  <2> HIDE DEF I
  <2> QED BY <2>1, <2>2 DEF Max
<1>5. I # {} => \E i \in I : \A j \in I : j <= i
  <2> SUFFICES ASSUME I # {} PROVE \E i \in I : \A j \in I : j <= i
    OBVIOUS
  <2>1. PICK i \in I : \A j \in I : i >= j
    BY <1>1, GreatestOfSome
  <2> QED BY <1>1, <2>1
<1>6. \A i : i \in I <=> i \in 1 .. Len(ts) /\ ts[i].key = p
  OBVIOUS
<1> HIDE DEF I
<1>7. ASSUME NEW i \in 1 .. Len(ts), ts[i].key = p,
             \A j \in 1 .. Len(ts) : ts[j].key = p => j <= i
      PROVE  p \in KeysIn(ts) /\ LastTag(ts, p) = ts[i]
  <2>1. i \in I /\ \A j \in I : j <= i
    BY <1>6, <1>7
  <2>2. Max(I) = i
    BY <1>4, <2>1
  <2> QED BY <1>2, <1>3, <2>1, <2>2
<1>8. ASSUME p \in KeysIn(ts)
      PROVE  \E i \in 1 .. Len(ts) :
               /\ ts[i].key = p /\ LastTag(ts, p) = ts[i]
               /\ \A j \in 1 .. Len(ts) : ts[j].key = p => j <= i
  <2>1. PICK i \in I : \A j \in I : j <= i
    BY <1>2, <1>5, <1>8
  <2>2. i \in 1 .. Len(ts) /\ ts[i].key = p /\ \A j \in 1 .. Len(ts) : ts[j].key = p => j <= i
    BY <1>6, <2>1
  <2>3. LastTag(ts, p) = ts[i]
    BY <1>7, <2>2
  <2> QED BY <2>2, <2>3
<1> QED BY <1>7, <1>8

\* One more tag is the last with its key.
LEMMA TagAppended ==
    ASSUME NEW ts \in Seq(TagType), NEW t \in TagType
    PROVE  /\ KeysIn(Append(ts, t)) = KeysIn(ts) \cup {t.key}
           /\ LastTag(Append(ts, t), t.key) = t
           /\ \A p \in KeysIn(ts) \ {t.key} : LastTag(Append(ts, t), p) = LastTag(ts, p)
<1> DEFINE new == Append(ts, t)
           n == Len(ts)
<1>1. /\ new \in Seq(TagType) /\ Len(new) = n + 1 /\ n \in Nat
      /\ \A i \in 1 .. n : new[i] = ts[i]
      /\ new[n + 1] = t
      /\ DOMAIN ts = 1 .. n /\ DOMAIN new = 1 .. n + 1
  OBVIOUS
<1>2. 1 .. n + 1 = 1 .. n \cup {n + 1} /\ n + 1 \in 1 .. n + 1 /\ \A i \in 1 .. n + 1 : i <= n + 1
  BY <1>1
<1> HIDE DEF new, n
<1>3. KeysIn(new) = KeysIn(ts) \cup {t.key}
  BY <1>1, <1>2 DEF KeysIn
<1>4. LastTag(new, t.key) = t
  BY <1>1, <1>2, LastTagIs
<1>5. ASSUME NEW p \in KeysIn(ts) \ {t.key}
      PROVE  LastTag(new, p) = LastTag(ts, p)
  <2>1. PICK i \in 1 .. n : /\ ts[i].key = p /\ LastTag(ts, p) = ts[i]
                            /\ \A j \in 1 .. n : ts[j].key = p => j <= i
    BY LastTagIs DEF n
  <2>2. i \in 1 .. n + 1 /\ new[i] = ts[i] /\ \A j \in 1 .. n + 1 : new[j].key = p => j <= i
    BY <1>1, <1>2, <2>1
  <2> QED BY <1>1, <2>1, <2>2, LastTagIs
<1> QED BY <1>3, <1>4, <1>5 DEF new

\* Conf's last tag with a key, or else prev's.
MergedTag(prev, conf, p) == IF p \in KeysIn(conf) THEN LastTag(conf, p) ELSE LastTag(prev, p)

\* A map of merged tags, whatever its order, has each key once, with its tag.
LEMMA TagsInMap ==
    ASSUME NEW prev \in Seq(TagType), NEW conf \in Seq(TagType),
           NEW new \in MergedTags(prev, conf)
    PROVE  LET K == KeysIn(prev) \cup KeysIn(conf)
           IN  /\ new \in Seq(TagType)
               /\ \A i \in 1 .. Len(new) :
                    new[i].key \in K /\ new[i] = MergedTag(prev, conf, new[i].key)
               /\ \A p \in K : \E i \in 1 .. Len(new) : new[i].key = p
               /\ \A i, j \in 1 .. Len(new) : new[i].key = new[j].key => i = j
<1> DEFINE K == KeysIn(prev) \cup KeysIn(conf)
           m(p) == MergedTag(prev, conf, p)
<1>1. IsFiniteSet(K) /\ Cardinality(K) \in Nat
  BY KeysFinite, FS_Union, FS_CardinalityType
<1>2. PICK order \in SetToSeqs(K) :
        new = [i \in DOMAIN order |-> m(order[i])]
  BY DEF MergedTags, MergedTag
<1> DEFINE n == Cardinality(K)
<1>3. order \in [1 .. n -> K] /\ \A i, j \in 1 .. n : i # j => order[i] # order[j]
  BY <1>2 DEF SetToSeqs
<1>4. \A p \in K : m(p).key = p
  <2> SUFFICES ASSUME NEW p \in K PROVE m(p).key = p
    OBVIOUS
  <2>1. p \in KeysIn(conf) => LastTag(conf, p).key = p
    BY LastTagIs
  <2>2. p \in KeysIn(prev) => LastTag(prev, p).key = p
    BY LastTagIs
  <2> QED BY <2>1, <2>2 DEF MergedTag
<1>5. \A p \in K : \E i \in 1 .. n : order[i] = p
  <2>1. order \in Injection(1 .. n, K)
    BY <1>3 DEF Injection, IsInjective
  <2>2. IsFiniteSet(1 .. n) /\ Cardinality(1 .. n) = n
    BY <1>1, FS_Interval
  <2> HIDE DEF K
  <2>3. order \in Surjection(1 .. n, K)
    BY <1>1, <2>1, <2>2, FS_Injection
  <2> QED BY <2>3 DEF Surjection
<1>6. new \in Seq(TagType) /\ Len(new) = n /\ \A i \in 1 .. n : new[i] = m(order[i])
  BY <1>1, <1>2, <1>3, MergedTagsType
<1> HIDE DEF K, m, n
<1>7. \A i \in 1 .. n : new[i].key = order[i] /\ order[i] \in K
  BY <1>3, <1>4, <1>6
<1>8. \A i \in 1 .. n : new[i].key \in K /\ new[i] = m(new[i].key)
  BY <1>6, <1>7
<1>9. \A p \in K : \E i \in 1 .. n : new[i].key = p
  BY <1>5, <1>7
<1>10. \A i, j \in 1 .. n : new[i].key = new[j].key => i = j
  BY <1>3, <1>7
<1> QED BY <1>6, <1>8, <1>9, <1>10 DEF K, m

\* The map written over conf's array, of which a part may be left: what is left
\* are conf's last tags, so that the last tag with a key is still the map's.
LEMMA TagsWritten ==
    ASSUME NEW prev \in Seq(TagType), NEW conf \in Seq(TagType),
           NEW new \in MergedTags(prev, conf)
    PROVE  /\ KeysIn(WrittenOver(new, conf)) = KeysIn(prev) \cup KeysIn(conf)
           /\ \A p \in KeysIn(prev) \cup KeysIn(conf) :
                LastTag(WrittenOver(new, conf), p) = MergedTag(prev, conf, p)
<1> DEFINE K == KeysIn(prev) \cup KeysIn(conf)
           w == WrittenOver(new, conf)
<1>1. /\ new \in Seq(TagType)
      /\ \A i \in 1 .. Len(new) :
           new[i].key \in K /\ new[i] = MergedTag(prev, conf, new[i].key)
      /\ \A p \in K : \E i \in 1 .. Len(new) : new[i].key = p
      /\ \A i, j \in 1 .. Len(new) : new[i].key = new[j].key => i = j
  BY TagsInMap
<1>2. Len(new) \in Nat /\ Len(conf) \in Nat /\ DOMAIN conf = 1 .. Len(conf)
  BY <1>1, LenProperties
<1>3. /\ w \in Seq(TagType) /\ DOMAIN w = 1 .. Len(w) /\ Len(w) \in Nat
      /\ 1 .. Len(w) = 1 .. Len(new) \cup (Len(new) + 1) .. Len(conf)
      /\ \A i \in 1 .. Len(new) : w[i] = new[i]
      /\ \A i \in (Len(new) + 1) .. Len(conf) : w[i] = conf[i]
  <2> DEFINE left == SubSeq(conf, Len(new) + 1, Len(conf))
  <2>1. w \in Seq(TagType)
    BY <1>1, WrittenOverType
  <2>2. DOMAIN w = 1 .. Len(w) /\ Len(w) \in Nat
    BY <2>1, LenProperties
  <2>3. /\ left \in Seq(TagType)
        /\ Len(left) = IF Len(new) + 1 <= Len(conf) THEN Len(conf) - (Len(new) + 1) + 1 ELSE 0
        /\ \A i \in 1 .. Len(conf) - (Len(new) + 1) + 1 : left[i] = conf[Len(new) + 1 + i - 1]
    BY <1>2, LenProperties, SubSeqProperties
  <2> HIDE DEF left
  <2>4. /\ Len(new \o left) = Len(new) + Len(left)
        /\ \A i \in 1 .. Len(new) + Len(left) :
             (new \o left)[i] = IF i <= Len(new) THEN new[i] ELSE left[i - Len(new)]
    <3>1. new \in Seq(TagType) /\ left \in Seq(TagType)
      BY <1>1, <2>3
    <3> QED BY <3>1, ConcatProperties
  <2>5. w = new \o left
    BY DEF WrittenOver, left
  <2> HIDE DEF w
  <2>6. /\ Len(w) = Len(new) + Len(left) /\ Len(left) \in Nat
        /\ \A i \in 1 .. Len(w) : w[i] = IF i <= Len(new) THEN new[i] ELSE left[i - Len(new)]
    BY <2>3, <2>4, <2>5, LenProperties
  <2>7. 1 .. Len(w) = 1 .. Len(new) \cup (Len(new) + 1) .. Len(conf)
    <3>1. CASE Len(new) + 1 <= Len(conf)
      <4>1. Len(w) = Len(conf)
        BY <1>2, <2>3, <2>6, <3>1
      <4> QED BY <1>2, <3>1, <4>1
    <3>2. CASE ~(Len(new) + 1 <= Len(conf))
      <4>1. Len(w) = Len(new)
        BY <1>2, <2>3, <2>6, <3>2
      <4> QED BY <1>2, <3>2, <4>1
    <3> QED BY <3>1, <3>2
  <2>8. \A i \in 1 .. Len(new) : w[i] = new[i]
    BY <1>2, <2>6, <2>7
  <2>9. ASSUME NEW i \in (Len(new) + 1) .. Len(conf)
        PROVE  w[i] = conf[i]
    <3>1. /\ i \in 1 .. Len(w) /\ ~(i <= Len(new))
          /\ i - Len(new) \in 1 .. Len(conf) - (Len(new) + 1) + 1
          /\ Len(new) + 1 + (i - Len(new)) - 1 = i
      BY <1>2, <2>7
    <3>2. w[i] = left[i - Len(new)]
      BY <2>6, <3>1
    <3>3. left[i - Len(new)] = conf[Len(new) + 1 + (i - Len(new)) - 1]
      BY <2>3, <3>1
    <3> QED BY <3>1, <3>2, <3>3
  <2> QED BY <2>1, <2>2, <2>7, <2>8, <2>9
<1> HIDE DEF K, w
<1>4. ASSUME NEW i \in (Len(new) + 1) .. Len(conf)
      PROVE  i \in 1 .. Len(conf) /\ conf[i].key \in KeysIn(conf) /\ conf[i].key \in K
  BY <1>2 DEF KeysIn, K
<1>5. KeysIn(w) = K
  <2>1. ASSUME NEW i \in 1 .. Len(w) PROVE w[i].key \in K
    BY <1>1, <1>3, <1>4
  <2>2. ASSUME NEW p \in K PROVE \E i \in 1 .. Len(w) : w[i].key = p
    BY <1>1, <1>3
  <2> QED BY <1>3, <2>1, <2>2 DEF KeysIn
<1>6. ASSUME NEW p \in K
      PROVE  LastTag(w, p) = MergedTag(prev, conf, p)
  <2>1. CASE \E i \in (Len(new) + 1) .. Len(conf) : conf[i].key = p
    <3>1. p \in KeysIn(conf)
      BY <1>4, <2>1
    <3>2. PICK l \in 1 .. Len(conf) :
            /\ conf[l].key = p /\ LastTag(conf, p) = conf[l]
            /\ \A j \in 1 .. Len(conf) : conf[j].key = p => j <= l
      BY <3>1, LastTagIs
    <3>3. l \in (Len(new) + 1) .. Len(conf)
      <4>1. PICK i \in (Len(new) + 1) .. Len(conf) : conf[i].key = p
        BY <2>1
      <4>2. i <= l
        BY <1>4, <3>2, <4>1
      <4> QED BY <1>2, <4>2
    <3>4. l \in 1 .. Len(w) /\ w[l] = conf[l]
      BY <1>3, <3>3
    <3>5. ASSUME NEW j \in 1 .. Len(w), w[j].key = p PROVE j <= l
      <4>1. CASE j \in 1 .. Len(new)
        BY <1>2, <3>3, <4>1
      <4>2. CASE j \in (Len(new) + 1) .. Len(conf)
        BY <1>3, <1>4, <3>2, <3>5, <4>2
      <4> QED BY <1>3, <4>1, <4>2
    <3>6. LastTag(w, p) = w[l]
      BY <1>3, <3>2, <3>4, <3>5, LastTagIs
    <3> QED BY <3>1, <3>2, <3>4, <3>6 DEF MergedTag
  <2>2. CASE ~\E i \in (Len(new) + 1) .. Len(conf) : conf[i].key = p
    <3>1. PICK l \in 1 .. Len(new) : new[l].key = p
      BY <1>1
    <3>2. l \in 1 .. Len(w) /\ w[l] = new[l] /\ new[l] = MergedTag(prev, conf, p)
      BY <1>1, <1>3, <3>1
    <3>3. ASSUME NEW j \in 1 .. Len(w), w[j].key = p PROVE j <= l
      <4>1. j \in 1 .. Len(new)
        BY <1>3, <2>2, <3>3
      <4>2. j = l
        BY <1>1, <1>3, <3>1, <3>3, <4>1
      <4> QED BY <1>2, <4>2
    <3>4. LastTag(w, p) = w[l]
      BY <1>3, <3>1, <3>2, <3>3, LastTagIs
    <3> QED BY <3>2, <3>4
  <2> QED BY <2>1, <2>2
<1> QED BY <1>5, <1>6 DEF K, w

\* A block's tags are a sequence of tags.
LEMMA TagsOfType ==
    ASSUME TypeInv, NEW b \in Blocks
    PROVE  TagsOf(b) \in Seq(TagType) /\ tags[b] \in 0 .. Len(arrays) /\ Len(arrays) \in Nat
           /\ DOMAIN arrays = 1 .. Len(arrays)
<1>1. arrays \in Seq(Seq(TagType)) /\ tags \in [Blocks -> 0 .. Len(arrays)]
  BY DEF TypeInv, TypeOK, TagType
<1>2. /\ Len(arrays) \in Nat /\ DOMAIN arrays = 1 .. Len(arrays)
      /\ \A n \in 1 .. Len(arrays) : arrays[n] \in Seq(TagType)
  BY <1>1, LenProperties
<1>3. tags[b] # 0 => tags[b] \in 1 .. Len(arrays)
  BY <1>1, <1>2
<1> QED BY <1>1, <1>2, <1>3, EmptySeq DEF TagsOf

\* A merged block has the tags of both blocks, its own where both have one.
LEMMA TagsMerged ==
    ASSUME TypeInv, NEW b \in Blocks, merge_opentracing_loc_conf(b)
    PROVE  /\ KeysIn(TagsOf(b))' = KeysIn(TagsOf(Around[b])) \cup KeysIn(TagsOf(b))
           /\ \A p \in KeysIn(TagsOf(Around[b])) \cup KeysIn(TagsOf(b)) :
                LastTag(TagsOf(b)', p) = MergedTag(TagsOf(Around[b]), TagsOf(b), p)
<1> DEFINE a == Around[b]
<1>1. b \in Blocks /\ a \in Blocks
  BY DEF merge_opentracing_loc_conf, TypeInv, TypeOK
<1>2. KeysIn(<<>>) = {}
  BY DEF KeysIn
<1>3. /\ TagsOf(a) \in Seq(TagType) /\ TagsOf(b) \in Seq(TagType)
      /\ tags[a] \in 0 .. Len(arrays) /\ tags[b] \in 0 .. Len(arrays)
      /\ DOMAIN arrays = 1 .. Len(arrays) /\ Len(arrays) \in Nat
      /\ tags \in [Blocks -> 0 .. Len(arrays)]
  BY <1>1, TagsOfType DEF TypeInv, TypeOK
<1>4. CASE tags[a] # 0 /\ tags[b] = 0
  <2>1. tags' = [tags EXCEPT ![b] = tags[a]] /\ arrays' = arrays
    BY <1>4 DEF merge_opentracing_loc_conf
  <2>2. tags'[b] = tags[a]
    BY <1>3, <2>1
  <2>3. TagsOf(b)' = TagsOf(a) /\ TagsOf(b) = <<>>
    BY <1>4, <2>1, <2>2 DEF TagsOf
  <2>4. KeysIn(TagsOf(b))' = KeysIn(TagsOf(a))
    BY <2>3 DEF KeysIn
  <2> QED BY <1>2, <2>3, <2>4 DEF MergedTag
<1>5. CASE tags[a] # 0 /\ tags[b] # 0
  <2>1. PICK new \in MergedTags(arrays[tags[a]], arrays[tags[b]]) :
          /\ arrays' = [arrays EXCEPT ![tags[b]] = WrittenOver(new, arrays[tags[b]])]
          /\ tags' = tags
    BY <1>5 DEF merge_opentracing_loc_conf
  <2>2. TagsOf(a) = arrays[tags[a]] /\ TagsOf(b) = arrays[tags[b]]
    BY <1>5 DEF TagsOf
  <2>3. tags[b] \in DOMAIN arrays
    BY <1>3, <1>5
  <2>4. TagsOf(b)' = WrittenOver(new, TagsOf(b))
    BY <1>5, <2>1, <2>2, <2>3 DEF TagsOf
  <2>5. KeysIn(TagsOf(b))' = KeysIn(WrittenOver(new, TagsOf(b)))
    BY <2>4 DEF KeysIn
  <2> QED BY <1>3, <2>1, <2>2, <2>4, <2>5, TagsWritten
<1>6. CASE tags[a] = 0
  <2>1. UNCHANGED <<tags, arrays>>
    BY <1>6 DEF merge_opentracing_loc_conf
  <2>2. TagsOf(a) = <<>> /\ TagsOf(b)' = TagsOf(b)
    BY <1>6, <2>1 DEF TagsOf
  <2>3. KeysIn(TagsOf(b))' = KeysIn(TagsOf(b))
    BY <2>2 DEF KeysIn
  <2> QED BY <1>2, <2>2, <2>3 DEF MergedTag
<1> QED BY <1>4, <1>5, <1>6

\* A tag that a block gives is nearer than those around it; the tags with a
\* pattern that it does not give are those around it.
LEMMA TagInEffect ==
    ASSUME TypeInv, Nested, NEW b \in opened, NEW p
    PROVE  /\ \A i \in TagAt(b, p) : (\A j \in TagAt(b, p) : j <= i) =>
                TagSet(b, {p}) # {} /\ At(Nearest(TagSet(b, {p}))) = written[b][i]
           /\ TagAt(b, p) # {} => \E i \in TagAt(b, p) : \A j \in TagAt(b, p) : j <= i
           /\ TagAt(b, p) = {} =>
                TagSet(b, {p}) = IF b = Http THEN {} ELSE TagSet(Around[b], {p})
<1>1. /\ b \in Blocks /\ DOMAIN written[b] = 1 .. Len(written[b]) /\ Len(written[b]) \in Nat
      /\ TagAt(b, p) \subseteq DOMAIN written[b]
  BY EnclosingOpened, LenProperties DEF TypeInv, TagAt
<1>2. ASSUME NEW i \in TagAt(b, p), \A j \in TagAt(b, p) : j <= i
      PROVE  TagSet(b, {p}) # {} /\ At(Nearest(TagSet(b, {p}))) = written[b][i]
  <2>1. i \in DOMAIN written[b] /\ i \in Nat
    BY <1>1
  <2>2. <<b, i>> \in TagSet(b, {p})
    BY <1>1, <2>1, ScopeAround DEF TagSet, TagAt, At
  <2>3. ASSUME NEW q \in TagSet(b, {p}), q[1] = b
        PROVE  q[2] \in Nat /\ q[2] <= i
    <3>1. q[2] \in TagAt(b, p)
      BY <1>1, <2>3, ScopeAround DEF TagSet, At, TagAt
    <3> QED BY <1>1, <1>2, <3>1
  <2>4. TagSet(b, {p}) \in SUBSET InScope(b)
    BY DEF TagSet
  <2>5. Nearest(TagSet(b, {p})) = <<b, i>>
    BY <2>1, <2>2, <2>3, <2>4, NearestIs
  <2> QED BY <2>2, <2>5 DEF At
<1>3. ASSUME TagAt(b, p) # {}
      PROVE  \E i \in TagAt(b, p) : \A j \in TagAt(b, p) : j <= i
  <2>1. PICK i \in TagAt(b, p) : \A j \in TagAt(b, p) : i >= j
    BY <1>1, <1>3, GreatestOfSome
  <2> QED BY <1>1, <2>1
<1>4. ASSUME TagAt(b, p) = {}
      PROVE  TagSet(b, {p}) = IF b = Http THEN {} ELSE TagSet(Around[b], {p})
  <2>1. ASSUME NEW q \in TagSet(b, {p}) PROVE q \notin {b} \X DOMAIN written[b]
    BY <1>4, <2>1 DEF TagSet, TagAt, At
  <2>2. CASE b = Http
    BY <1>1, <2>1, <2>2, ScopeAround DEF TagSet
  <2>3. CASE b # Http
    BY <1>1, <2>1, <2>3, ScopeAround DEF TagSet
  <2> QED BY <2>2, <2>3
<1> QED BY <1>2, <1>3, <1>4

\* The tags of a block are in effect: for each pattern, that of the nearest place.
TagsInEffect(b) ==
    \A p \in Patterns :
      /\ p \in KeysIn(TagsOf(b)) <=> TagSet(b, {p}) # {}
      /\ TagSet(b, {p}) # {} => LastTag(TagsOf(b), p) = At(Nearest(TagSet(b, {p}))).to

\* They are its own: for each pattern, the block's last one.
OwnTagsOnly(b) ==
    \A p \in Patterns :
      /\ p \in KeysIn(TagsOf(b)) <=> TagAt(b, p) # {}
      /\ \A i \in TagAt(b, p) : (\A j \in TagAt(b, p) : j <= i) =>
           LastTag(TagsOf(b), p) = written[b][i].to

LocTagsInv ==
    /\ \A b \in Blocks \ (merged \ {Http}) : OwnTagsOnly(b)
    /\ \A b \in merged \ {Http} : TagsInEffect(b)

\* What http gives is in effect in http.
LEMMA HttpTags ==
    ASSUME TypeInv, Nested, OwnTagsOnly(Http)
    PROVE  TagsInEffect(Http)
<1>1. Http \in opened
  BY DEF TypeInv, TypeOK
<1> SUFFICES ASSUME NEW p \in Patterns
             PROVE  /\ p \in KeysIn(TagsOf(Http)) <=> TagSet(Http, {p}) # {}
                    /\ TagSet(Http, {p}) # {} =>
                         LastTag(TagsOf(Http), p) = At(Nearest(TagSet(Http, {p}))).to
  BY DEF TagsInEffect
<1>2. CASE TagAt(Http, p) = {}
  BY <1>1, <1>2, TagInEffect DEF OwnTagsOnly
<1>3. CASE TagAt(Http, p) # {}
  <2>1. PICK i \in TagAt(Http, p) : \A j \in TagAt(Http, p) : j <= i
    BY <1>1, <1>3, TagInEffect
  <2>2. TagSet(Http, {p}) # {} /\ At(Nearest(TagSet(Http, {p}))) = written[Http][i]
    BY <1>1, <2>1, TagInEffect
  <2> QED BY <1>3, <2>1, <2>2 DEF OwnTagsOnly
<1> QED BY <1>2, <1>3

\* opentracing_tag adds a tag to its block, and to no other: http shares no
\* array while the file is read.
LEMMA TagGiven ==
    ASSUME TypeInv, SharedInv, MergedInv, NEW key \in Patterns \cup {Malformed},
           NEW value \in Values \cup {Malformed}, set_opentracing_tag(key, value)
    PROVE  \A b \in Blocks :
             TagsOf(b)' = IF b = block THEN Append(TagsOf(b), Tag(key, value)) ELSE TagsOf(b)
<1> DEFINE t == Tag(key, value)
<1>1. /\ block \in Blocks /\ merged = {Http}
      /\ arrays \in Seq(Seq(TagType)) /\ tags \in [Blocks -> 0 .. Len(arrays)]
      /\ Len(arrays) \in Nat /\ DOMAIN arrays = 1 .. Len(arrays)
  BY LenProperties
  DEF set_opentracing_tag, Directive, MergedInv, TypeInv, TypeOK, TagType
<1>2. CASE tags[block] = 0
  <2>1. arrays' = Append(arrays, <<t>>) /\ tags' = [tags EXCEPT ![block] = Len(arrays) + 1]
    BY <1>2 DEF set_opentracing_tag
  <2>2. /\ arrays'[Len(arrays) + 1] = <<t>>
        /\ \A n \in 1 .. Len(arrays) : arrays'[n] = arrays[n]
    BY <1>1, <2>1
  <2>3. ASSUME NEW b \in Blocks, b # block
        PROVE  TagsOf(b)' = TagsOf(b)
    <3>1. tags'[b] = tags[b]
      BY <1>1, <2>1, <2>3
    <3>2. tags[b] # 0 => tags[b] \in 1 .. Len(arrays)
      BY <1>1
    <3> QED BY <2>2, <3>1, <3>2 DEF TagsOf
  <2>4. ASSUME NEW b \in Blocks, b = block
        PROVE  TagsOf(b)' = Append(TagsOf(b), t)
    <3>1. tags'[b] = Len(arrays) + 1 /\ Len(arrays) + 1 # 0 /\ Append(<<>>, t) = <<t>>
      BY <1>1, <2>1, <2>4
    <3>2. TagsOf(b) = <<>>
      BY <1>2, <2>4 DEF TagsOf
    <3> QED BY <2>2, <3>1, <3>2 DEF TagsOf
  <2> QED BY <2>3, <2>4
<1>3. CASE tags[block] # 0
  <2>1. /\ arrays' = [arrays EXCEPT ![tags[block]] = Append(arrays[tags[block]], t)]
        /\ tags' = tags
    BY <1>3 DEF set_opentracing_tag
  <2>2. ASSUME NEW b \in Blocks, b # block
        PROVE  TagsOf(b)' = TagsOf(b)
    <3>1. tags[b] # tags[block]
      BY <1>1, <1>3, <2>2 DEF SharedInv
    <3>2. tags[b] # 0 => tags[b] \in DOMAIN arrays
      BY <1>1
    <3>3. tags[b] # 0 => arrays'[tags[b]] = arrays[tags[b]]
      BY <2>1, <3>1, <3>2
    <3> QED BY <2>1, <3>3 DEF TagsOf
  <2>3. ASSUME NEW b \in Blocks, b = block
        PROVE  TagsOf(b)' = Append(TagsOf(b), t)
    <3>1. tags[b] \in DOMAIN arrays
      BY <1>1, <1>3, <2>3
    <3>2. arrays'[tags[b]] = Append(arrays[tags[b]], t)
      BY <2>1, <2>3, <3>1
    <3> QED BY <1>3, <2>1, <2>3, <3>2 DEF TagsOf
  <2> QED BY <2>2, <2>3
<1> QED BY <1>2, <1>3

\* The last tag with a key depends on the block's tags only.
LEMMA LastTagPrime ==
    ASSUME NEW b, NEW p
    PROVE  LastTag(TagsOf(b), p)' = LastTag(TagsOf(b)', p)
  BY DEF LastTag, SelectLastInSeq

\* Every step of the file and the merging keeps the tags as they should be.
LEMMA LocTagsStep ==
    ASSUME TypeInv, SharedInv, Nested, MergedInv, LocTagsInv, [Next]_vars,
           status' # "rejected"
    PROVE  LocTagsInv'
\* What is in effect depends on the file and the block's tags.
<1>1. ASSUME written' = written, NEW b, TagsOf(b)' = TagsOf(b)
      PROVE  /\ TagsInEffect(b)' <=> TagsInEffect(b)
             /\ OwnTagsOnly(b)' <=> OwnTagsOnly(b)
  <2>1. ASSUME NEW p
        PROVE  /\ LastTag(TagsOf(b), p)' = LastTag(TagsOf(b), p)
               /\ KeysIn(TagsOf(b))' = KeysIn(TagsOf(b))
               /\ TagAt(b, p)' = TagAt(b, p) /\ TagSet(b, {p})' = TagSet(b, {p})
               /\ At(Nearest(TagSet(b, {p})))' = At(Nearest(TagSet(b, {p})))
    <3>1. LastTag(TagsOf(b), p)' = LastTag(TagsOf(b), p)
      BY <1>1, LastTagPrime
    <3>2. KeysIn(TagsOf(b))' = KeysIn(TagsOf(b))
      BY <1>1 DEF KeysIn
    <3>3. TagAt(b, p)' = TagAt(b, p)
      BY <1>1 DEF TagAt
    <3>4. TagSet(b, {p})' = TagSet(b, {p})
      BY <1>1 DEF TagSet, InScope, At, Enclosing
    <3>5. At(Nearest(TagSet(b, {p})))' = At(Nearest(TagSet(b, {p})))
      BY <1>1 DEF TagSet, InScope, At, Enclosing, Nearest
    <3> QED BY <3>1, <3>2, <3>3, <3>4, <3>5
  <2> QED BY <1>1, <2>1 DEF TagsInEffect, OwnTagsOnly
<1>2. CASE UNCHANGED <<written, merged, arrays, tags>>
  <2>1. \A b : TagsOf(b)' = TagsOf(b)
    BY <1>2 DEF TagsOf
  <2> QED BY <1>1, <1>2, <2>1 DEF LocTagsInv
<1>3. ASSUME NEW d \in Directives, Directive(d), d.set # "tag", UNCHANGED <<arrays, tags>>
      PROVE  LocTagsInv'
  <2>1. merged = {Http} /\ merged' = merged
    BY <1>3, DirectiveKeeps DEF MergedInv
  <2>2. ASSUME NEW b \in Blocks PROVE OwnTagsOnly(b)'
    <3>1. OwnTagsOnly(b)
      BY <2>1 DEF LocTagsInv
    <3>2. TagsOf(b)' = TagsOf(b)
      BY <1>3 DEF TagsOf
    <3>3. \A p : LastTag(TagsOf(b), p)' = LastTag(TagsOf(b), p)
                 /\ KeysIn(TagsOf(b))' = KeysIn(TagsOf(b))
      BY <3>2, LastTagPrime DEF KeysIn
    <3>4. \A p : TagAt(b, p)' = TagAt(b, p)
      BY <1>3, PlacesGrow
    <3>5. \A i \in DOMAIN written[b] : written'[b][i] = written[b][i]
      BY <1>3, PlacesGrow
    <3> QED BY <3>1, <3>3, <3>4, <3>5 DEF OwnTagsOnly, TagAt
  <2> QED BY <2>1, <2>2 DEF LocTagsInv
<1>4. ASSUME NEW key \in Patterns \cup {Malformed}, NEW value \in Values \cup {Malformed},
             set_opentracing_tag(key, value)
      PROVE  LocTagsInv'
  <2> DEFINE t == Tag(key, value)
             d == [set |-> "tag", to |-> t]
  <2>1. d \in Directives /\ Directive(d) /\ d.set = "tag" /\ d.to = t /\ t \in TagType
        /\ t.key = key
    <3>1. t \in TagType /\ t.key = key
      BY DEF Tag, TagType
    <3>2. t \in Arguments
      BY <3>1 DEF Arguments
    <3>3. d \in Directives
      BY <3>2 DEF Directives, Names
    <3> QED BY <1>4, <3>1, <3>3 DEF set_opentracing_tag
  <2> HIDE DEF d, t
  <2>2. merged = {Http} /\ merged' = merged /\ block \in Blocks
    BY <2>1, DirectiveKeeps, PlacesGrow DEF MergedInv
  <2>3. \A b \in Blocks :
          TagsOf(b)' = IF b = block THEN Append(TagsOf(b), t) ELSE TagsOf(b)
    BY <1>4, TagGiven DEF t
  <2>4. ASSUME NEW b \in Blocks, b # block PROVE OwnTagsOnly(b)'
    <3>1. OwnTagsOnly(b) /\ TagsOf(b)' = TagsOf(b)
      BY <2>2, <2>3, <2>4 DEF LocTagsInv
    <3>2. KeysIn(TagsOf(b))' = KeysIn(TagsOf(b))
      BY <3>1 DEF KeysIn
    <3>3. \A p : LastTag(TagsOf(b), p)' = LastTag(TagsOf(b), p)
      BY <3>1, LastTagPrime
    <3>4. \A p : TagAt(b, p)' = TagAt(b, p)
      BY <2>1, <2>4, PlacesGrow
    <3>5. \A i \in DOMAIN written[b] : written'[b][i] = written[b][i]
      BY <2>1, PlacesGrow
    <3> QED BY <3>1, <3>2, <3>3, <3>4, <3>5 DEF OwnTagsOnly, TagAt
  <2>5. ASSUME NEW b \in Blocks, b = block PROVE OwnTagsOnly(b)'
    <3>1. OwnTagsOnly(b) /\ TagsOf(b)' = Append(TagsOf(b), t) /\ TagsOf(b) \in Seq(TagType)
      BY <2>2, <2>3, <2>5, TagsOfType DEF LocTagsInv
    <3>2. KeysIn(TagsOf(b))' = KeysIn(Append(TagsOf(b), t))
      BY <3>1 DEF KeysIn
    <3>3. \A p : LastTag(TagsOf(b), p)' = LastTag(Append(TagsOf(b), t), p)
      BY <3>1, LastTagPrime
    <3>4. /\ KeysIn(TagsOf(b))' = KeysIn(TagsOf(b)) \cup {key}
          /\ LastTag(TagsOf(b), key)' = t
          /\ \A p \in KeysIn(TagsOf(b)) \ {key} :
               LastTag(TagsOf(b), p)' = LastTag(TagsOf(b), p)
      BY <2>1, <3>1, <3>2, <3>3, TagAppended
    <3>5. /\ TagAt(b, key)' = TagAt(b, key) \cup {Added}
          /\ \A p : p # key => TagAt(b, p)' = TagAt(b, p)
          /\ written'[b][Added].to = t
          /\ \A i \in DOMAIN written[b] :
               written'[b][i] = written[b][i] /\ i \in Nat /\ i <= Added /\ i # Added
          /\ Added \in Nat
      <4>1. /\ TagAt(b, key)' = TagAt(b, key) \cup {Added}
            /\ \A p : p # key => TagAt(b, p)' = TagAt(b, p)
        BY <2>1, <2>5, PlacesGrow
      <4>2. written'[b][Added].to = t
        BY <2>1, <2>5, PlacesGrow
      <4>3. \A i \in DOMAIN written[b] : written'[b][i] = written[b][i]
        BY <2>1, <2>5, PlacesGrow
      <4>4. /\ Added \in Nat /\ Added \notin DOMAIN written[b]
            /\ \A i \in DOMAIN written[b] : i \in Nat /\ i <= Added
        BY <2>1, <2>5, PlacesGrow
      <4> QED BY <4>1, <4>2, <4>3, <4>4
    <3>6. ASSUME NEW p \in Patterns
          PROVE  /\ p \in KeysIn(TagsOf(b))' <=> TagAt(b, p)' # {}
                 /\ \A i \in TagAt(b, p)' : (\A j \in TagAt(b, p)' : j <= i) =>
                      LastTag(TagsOf(b), p)' = written'[b][i].to
      <4>1. CASE p = key
        <5>1. TagAt(b, p)' = TagAt(b, p) \cup {Added} /\ p \in KeysIn(TagsOf(b))'
          BY <3>4, <3>5, <4>1
        <5>2. ASSUME NEW i \in TagAt(b, p)', \A j \in TagAt(b, p)' : j <= i
              PROVE  i = Added
          <6>1. Added <= i
            BY <5>1, <5>2
          <6>2. i # Added => i \in DOMAIN written[b]
            BY <5>1, <5>2 DEF TagAt
          <6> QED BY <3>5, <6>1, <6>2
        <5> QED BY <3>4, <3>5, <4>1, <5>1, <5>2
      <4>2. CASE p # key
        <5>1. TagAt(b, p)' = TagAt(b, p)
          BY <3>5, <4>2
        <5>2. p \in KeysIn(TagsOf(b))' <=> p \in KeysIn(TagsOf(b))
          BY <3>4, <4>2
        <5>3. ASSUME NEW i \in TagAt(b, p), \A j \in TagAt(b, p) : j <= i
              PROVE  LastTag(TagsOf(b), p)' = written'[b][i].to
          <6>1. p \in KeysIn(TagsOf(b)) /\ LastTag(TagsOf(b), p) = written[b][i].to
            BY <3>1, <5>3 DEF OwnTagsOnly
          <6>2. written'[b][i] = written[b][i]
            BY <3>5, <5>3 DEF TagAt
          <6> QED BY <3>4, <4>2, <6>1, <6>2
        <5> QED BY <3>1, <5>1, <5>2, <5>3 DEF OwnTagsOnly
      <4> QED BY <4>1, <4>2
    <3> QED BY <3>6 DEF OwnTagsOnly
  <2> QED BY <2>2, <2>4, <2>5 DEF LocTagsInv
<1>5. ASSUME NEW b \in Blocks, merge_opentracing_loc_conf(b)
      PROVE  LocTagsInv'
  <2> DEFINE a == Around[b]
  <2>1. /\ b \in opened \ merged /\ b # Http /\ a \in merged /\ merged' = merged \cup {b}
        /\ written' = written /\ b \in opened /\ a \in Blocks
    BY <1>5 DEF merge_opentracing_loc_conf, TypeInv, TypeOK
  <2>2. OwnTagsOnly(b) /\ TagsInEffect(a)
    BY <2>1, HttpTags DEF LocTagsInv
  <2>3. /\ KeysIn(TagsOf(b))' = KeysIn(TagsOf(a)) \cup KeysIn(TagsOf(b))
        /\ \A p \in KeysIn(TagsOf(a)) \cup KeysIn(TagsOf(b)) :
             LastTag(TagsOf(b)', p) = MergedTag(TagsOf(a), TagsOf(b), p)
    BY <1>5, TagsMerged
  <2>4. ASSUME NEW p \in Patterns
        PROVE  /\ TagSet(b, {p})' = TagSet(b, {p})
               /\ At(Nearest(TagSet(b, {p})))' = At(Nearest(TagSet(b, {p})))
               /\ LastTag(TagsOf(b), p)' = LastTag(TagsOf(b)', p)
    <3>1. TagSet(b, {p})' = TagSet(b, {p})
      BY <2>1 DEF TagSet, InScope, At, Enclosing
    <3>2. At(Nearest(TagSet(b, {p})))' = At(Nearest(TagSet(b, {p})))
      BY <2>1 DEF TagSet, InScope, At, Enclosing, Nearest
    <3> QED BY <3>1, <3>2, LastTagPrime
  <2>5. ASSUME NEW p \in Patterns
        PROVE  /\ p \in KeysIn(TagsOf(b))' <=> TagSet(b, {p}) # {}
               /\ TagSet(b, {p}) # {} =>
                    LastTag(TagsOf(b)', p) = At(Nearest(TagSet(b, {p}))).to
    <3>1. CASE TagAt(b, p) = {}
      <4>1. TagSet(b, {p}) = TagSet(a, {p}) /\ p \notin KeysIn(TagsOf(b))
        BY <2>1, <2>2, <3>1, TagInEffect DEF OwnTagsOnly
      <4> QED BY <2>2, <2>3, <4>1 DEF TagsInEffect, MergedTag
    <3>2. CASE TagAt(b, p) # {}
      <4>1. PICK i \in TagAt(b, p) : \A j \in TagAt(b, p) : j <= i
        BY <2>1, <3>2, TagInEffect
      <4>2. TagSet(b, {p}) # {} /\ At(Nearest(TagSet(b, {p}))) = written[b][i]
        BY <2>1, <4>1, TagInEffect
      <4>3. p \in KeysIn(TagsOf(b)) /\ LastTag(TagsOf(b), p) = written[b][i].to
        BY <2>2, <3>2, <4>1 DEF OwnTagsOnly
      <4> QED BY <2>3, <4>2, <4>3 DEF MergedTag
    <3> QED BY <3>1, <3>2
  <2>6. TagsInEffect(b)'
    BY <2>4, <2>5 DEF TagsInEffect
  <2>7. \A c \in Blocks \ {b} : TagsOf(c)' = TagsOf(c)
    BY <1>5, MergeWritesItsOwn
  <2>8. merged \subseteq Blocks
    BY DEF TypeInv, TypeOK
  <2> QED BY <1>1, <2>1, <2>6, <2>7, <2>8 DEF LocTagsInv
<1>6. ASSUME NEW s \in Settings, NEW value \in {"on", "off"} \cup Blocks, set_slot(s, value)
      PROVE  LocTagsInv'
  <2> DEFINE d == [set |-> s, to |-> value]
  <2>1. s \in Names /\ value \in Arguments /\ s # "tag"
    BY Strings DEF Names, Arguments, Settings
  <2>2. d \in Directives
    BY <2>1 DEF Directives
  <2> QED BY <1>3, <1>6, <2>1, <2>2 DEF set_slot
<1> QED BY <1>2, <1>3, <1>4, <1>5, <1>6, StepKinds DEF loc_conf_vars

LocInv == SettingsInv /\ (status # "rejected" => LocTagsInv)

\* The invariant of settings and tags is one,
LEMMA LocStep == TypeInv /\ SharedInv /\ LocInv /\ [Next]_vars => LocInv'
<1> SUFFICES ASSUME TypeInv, SharedInv, LocInv, [Next]_vars PROVE LocInv'
  OBVIOUS
<1>1. status' # "rejected" => status # "rejected"
  BY RejectedStays
<1>2. SettingsInv'
  BY SettingsStep DEF LocInv
<1> QED BY <1>1, <1>2, LocTagsStep DEF LocInv, SettingsInv

\* and holds before the file is read.
LEMMA LocInit == Init => LocInv
<1> SUFFICES ASSUME Init PROVE LocInv
  OBVIOUS
<1>1. \A b \in Blocks : TagsOf(b) = <<>> /\ DOMAIN written[b] = {}
  BY DEF Init, TagsOf
<1>2. \A b \in Blocks, p \in Patterns : p \notin KeysIn(TagsOf(b)) /\ TagAt(b, p) = {}
  BY <1>1 DEF KeysIn, TagAt
<1>3. \A b \in Blocks : OwnTagsOnly(b)
  BY <1>2 DEF OwnTagsOnly
<1>4. merged \ {Http} = {}
  BY DEF Init
<1> QED BY <1>3, <1>4, SettingsInit DEF LocInv, LocTagsInv

\* After merging, of the tags of a block with one key pattern the one in effect,
\* the last, is that of the innermost block that gives one, whatever the order
\* in which the map is read back, and although the array written over is not
\* shortened (merge_opentracing_loc_conf).
THEOREM NearestTags == Spec => []NearestTagWins
<1>1. TypeInv /\ LocInv => NearestTagWins
  <2> SUFFICES ASSUME TypeInv, LocInv, Merged, NEW b \in opened
               PROVE  TagsInEffect(b)
    BY DEF NearestTagWins, TagsInEffect
  <2>1. merged = opened /\ status # "rejected" /\ Http \in Blocks /\ b \in opened
    BY BlocksAssumption DEF LocInv, SettingsInv, MergedInv, Merged
  <2>2. CASE b = Http
    BY <2>1, <2>2, HttpTags DEF LocInv, LocTagsInv, SettingsInv
  <2>3. CASE b # Http
    BY <2>1, <2>3 DEF LocInv, LocTagsInv
  <2> QED BY <2>2, <2>3
<1> QED BY <1>1, Typed, SharedByMerging, LocInit, LocStep, PTL DEF Spec
=============================================================================
