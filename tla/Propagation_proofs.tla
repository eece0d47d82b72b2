-------------------------- MODULE Propagation_proofs --------------------------
(***************************************************************************)
(* Theorems about Propagation, for any keys, addresses and bounds:         *)
(*                                                                         *)
(*   SameVariable, SameParameter   which keys meet in one variable;        *)
(*   HeadersReadOnce               the headers of the client are read in   *)
(*                                 order and once each;                    *)
(*   OneContextSent, HeadersCarryOwnContext, OneValuePerParameter          *)
(*                                 what an upstream request is sent;       *)
(*   InjectedOncePerBlock          one injection per block.                *)
(***************************************************************************)
EXTENDS Propagation, NaturalsInduction, WellFoundedInduction, SequenceTheorems, TLAPS

-----------------------------------------------------------------------------
(* Characters and keys.                                                    *)

\* header_transform identifies characters that are alike, and no others.
LEMMA HeaderTransformAlike ==
    ASSUME NEW c, NEW d
    PROVE  header_transform(c) = header_transform(d) <=> AlikeCharacters(c, d)
  BY LowercaseAssumption DEF header_transform, tolower, AlikeCharacters

\* So do FastCGI parameters.
LEMMA CgiTransformAlike ==
    ASSUME NEW c, NEW d
    PROVE  cgi_transform(c) = cgi_transform(d) <=> AlikeCharacters(c, d)
  BY LowercaseAssumption DEF cgi_transform, toupper, AlikeCharacters

\* Two keys have one $opentracing_context_ variable exactly if they are alike.
THEOREM SameVariable ==
    ASSUME NEW key1, NEW key2
    PROVE  Suffix(key1) = Suffix(key2) <=> Alike(key1, key2)
  BY HeaderTransformAlike DEF Suffix, Alike

\* Two keys become one FastCGI parameter exactly if they have one variable.
THEOREM SameParameter ==
    ASSUME NEW key1, NEW key2
    PROVE  make_fastcgi_span_context_key(key1) = make_fastcgi_span_context_key(key2)
             <=> Suffix(key1) = Suffix(key2)
<1>1. make_fastcgi_span_context_key(key1) = make_fastcgi_span_context_key(key2)
        <=> Alike(key1, key2)
  BY CgiTransformAlike DEF make_fastcgi_span_context_key, Alike
<1> QED BY <1>1, SameVariable

-----------------------------------------------------------------------------
(* What lookup_value finds.                                                *)

\* A set of numbers has a least one.
LEMMA LeastNatural ==
    ASSUME NEW T, T \subseteq Nat, T # {}
    PROVE  \E x \in T : \A y \in T : x =< y
<1>1. \E x \in T : \A y \in T : ~(<<y, x>> \in OpToRel(<, Nat))
  BY WFMin, NatLessThanWellFounded, Zenon
<1>2. \A x, y \in Nat : y < x => <<y, x>> \in OpToRel(<, Nat)
  BY DEF OpToRel
<1>3. \A x, y \in Nat : ~(y < x) => x =< y
  OBVIOUS
<1> QED BY <1>1, <1>2, <1>3

\* The value of a pair with the variable, or empty when there is none.
LEMMA FirstValueFound ==
    ASSUME NEW V, NEW e \in Seq(V), NEW suffix
    PROVE  \/ /\ FirstValue(e, suffix) = Empty
              /\ \A n \in DOMAIN e : e[n][1] # suffix
           \/ \E n \in DOMAIN e : e[n][1] = suffix /\ FirstValue(e, suffix) = e[n][2]
<1> DEFINE I == {n \in 1 .. Len(e) : e[n][1] = suffix}
<1>1. SelectInSeq(e, LAMBDA pair : pair[1] = suffix) = IF I # {} THEN Min(I) ELSE 0
  BY DEF SelectInSeq
<1>2. DOMAIN e = 1 .. Len(e) /\ Len(e) \in Nat
  OBVIOUS
<1>3. CASE I = {}
  BY <1>1, <1>2, <1>3 DEF FirstValue
<1>4. CASE I # {}
  <2>1. I \subseteq Nat
    BY <1>2
  <2>2. \E x \in I : \A y \in I : x =< y
    BY <1>4, <2>1, LeastNatural
  <2>3. Min(I) \in I
    BY <2>2 DEF Min
  <2>4. FirstValue(e, suffix) = e[Min(I)][2]
    BY <1>1, <1>2, <1>4, <2>3 DEF FirstValue
  <2> QED BY <1>2, <2>3, <2>4
<1> QED BY <1>3, <1>4

-----------------------------------------------------------------------------
(* FlattenSeq. Its function is recursive: that there is one, and only one,  *)
(* follows from there being no least length or index that breaks it.       *)

IsFlattening(f, s, n) ==
    f = [k \in 1 .. n |-> IF k = 1 THEN s[k] ELSE f[k - 1] \o s[k]]

\* A flattening's k-th entry, from the one before it.
LEMMA FlatteningStep ==
    ASSUME NEW s, NEW n \in Nat, NEW f, IsFlattening(f, s, n), NEW k \in 1 .. n
    PROVE  f[k] = IF k = 1 THEN s[k] ELSE f[k - 1] \o s[k]
  BY DEF IsFlattening

\* A sequence has a flattening function of any length.
LEMMA FlatteningExists ==
    ASSUME NEW s, NEW n \in Nat
    PROVE  \E f : IsFlattening(f, s, n)
<1> DEFINE Bad == {m \in Nat : ~\E f : IsFlattening(f, s, m)}
<1> SUFFICES ASSUME Bad # {} PROVE FALSE
  OBVIOUS
<1>1. PICK m \in Bad : \A k \in Bad : m =< k
  BY LeastNatural
<1>2. CASE m = 0
  <2>1. IsFlattening(<<>>, s, 0)
    BY DEF IsFlattening
  <2> QED BY <1>2, <2>1
<1>3. CASE m # 0
  <2>1. m - 1 \in Nat /\ m - 1 \notin Bad
    BY <1>1, <1>3
  <2>2. PICK f : IsFlattening(f, s, m - 1)
    BY <2>1
  <2> DEFINE g == [k \in 1 .. m |-> IF k < m THEN f[k]
                                    ELSE IF k = 1 THEN s[k] ELSE f[k - 1] \o s[k]]
  <2>3. \A k \in 1 .. m - 1 : f[k] = IF k = 1 THEN s[k] ELSE f[k - 1] \o s[k]
    BY <2>2 DEF IsFlattening
  <2>4. \A k \in 1 .. m : g[k] = IF k = 1 THEN s[k] ELSE g[k - 1] \o s[k]
    <3> SUFFICES ASSUME NEW k \in 1 .. m
                 PROVE  g[k] = IF k = 1 THEN s[k] ELSE g[k - 1] \o s[k]
      OBVIOUS
    <3>1. m \in Nat /\ k \in Int /\ (k # 1 => k - 1 \in 1 .. m /\ k - 1 < m)
      BY <1>1
    <3>2. k # 1 => g[k - 1] = f[k - 1]
      BY <3>1
    <3>3. g[k] = IF k = 1 THEN s[k] ELSE f[k - 1] \o s[k]
      BY <2>3, <3>1
    <3> QED BY <3>2, <3>3
  <2> HIDE DEF g
  <2>5. g = [k \in 1 .. m |-> g[k]]
    BY DEF g
  <2>6. IsFlattening(g, s, m)
    BY <2>4, <2>5 DEF IsFlattening
  <2> QED BY <1>1, <2>6
<1> QED BY <1>2, <1>3

\* Its values depend on the parts before them only.
LEMMA FlatteningUnique ==
    ASSUME NEW s, NEW t, NEW f, NEW g, NEW m \in Nat, NEW n \in Nat,
           IsFlattening(f, s, m), IsFlattening(g, t, n),
           NEW k \in 1 .. m, k =< n, \A j \in 1 .. k : s[j] = t[j]
    PROVE  f[k] = g[k]
<1> DEFINE Bad == {j \in 1 .. k : f[j] # g[j]}
<1> SUFFICES ASSUME Bad # {} PROVE FALSE
  OBVIOUS
<1>1. Bad \subseteq Nat
  OBVIOUS
<1>2. \A j : j \in Bad <=> j \in 1 .. k /\ f[j] # g[j]
  OBVIOUS
<1> HIDE DEF Bad
<1>3. PICK j \in Bad : \A l \in Bad : j =< l
  BY <1>1, LeastNatural
<1>4. j \in 1 .. k /\ j \in 1 .. m /\ j \in 1 .. n /\ f[j] # g[j]
  BY <1>2, <1>3
<1>5. /\ f[j] = IF j = 1 THEN s[j] ELSE f[j - 1] \o s[j]
      /\ g[j] = IF j = 1 THEN t[j] ELSE g[j - 1] \o t[j]
  BY <1>4, FlatteningStep
<1>6. j # 1 => f[j - 1] = g[j - 1]
  <2>1. j # 1 => j - 1 \in 1 .. k /\ ~(j =< j - 1)
    BY <1>4
  <2> QED BY <1>2, <1>3, <2>1
<1>7. s[j] = t[j]
  BY <1>4
<1> QED BY <1>4, <1>5, <1>6, <1>7

\* FlattenSeq is the last value of a flattening function.
LEMMA FlattenSeqIs ==
    ASSUME NEW s, Len(s) \in Nat \ {0}, NEW f, IsFlattening(f, s, Len(s))
    PROVE  FlattenSeq(s) = f[Len(s)]
<1> DEFINE g == CHOOSE h : IsFlattening(h, s, Len(s))
<1>1. IsFlattening(g, s, Len(s))
  OBVIOUS
<1>2. FlattenSeq(s) = g[Len(s)]
  BY DEF FlattenSeq, IsFlattening
<1> HIDE DEF g
<1> QED BY <1>1, <1>2, FlatteningUnique

\* Flattening sequences of V gives a sequence of V.
LEMMA FlatteningType ==
    ASSUME NEW V, NEW s \in Seq(Seq(V)), NEW f, IsFlattening(f, s, Len(s)),
           NEW k \in 1 .. Len(s)
    PROVE  f[k] \in Seq(V)
<1> DEFINE Bad == {j \in 1 .. Len(s) : f[j] \notin Seq(V)}
<1> SUFFICES ASSUME Bad # {} PROVE FALSE
  OBVIOUS
<1>1. Len(s) \in Nat /\ Bad \subseteq Nat
  OBVIOUS
<1>2. \A j : j \in Bad <=> j \in 1 .. Len(s) /\ f[j] \notin Seq(V)
  OBVIOUS
<1> HIDE DEF Bad
<1>3. PICK j \in Bad : \A l \in Bad : j =< l
  BY <1>1, LeastNatural
<1>4. j \in 1 .. Len(s) /\ f[j] \notin Seq(V) /\ s[j] \in Seq(V)
  BY <1>2, <1>3
<1>5. f[j] = IF j = 1 THEN s[j] ELSE f[j - 1] \o s[j]
  BY <1>1, <1>4, FlatteningStep
<1>6. j # 1 => f[j - 1] \in Seq(V)
  <2>1. j # 1 => j - 1 \in 1 .. Len(s) /\ ~(j =< j - 1)
    BY <1>1, <1>4
  <2> QED BY <1>2, <1>3, <2>1
<1> QED BY <1>4, <1>5, <1>6, ConcatProperties

\* Prefixes, element by element.
LEMMA PrefixIs ==
    ASSUME NEW V, NEW s \in Seq(V), NEW t \in Seq(V)
    PROVE  IsPrefix(s, t) <=>
             Len(s) =< Len(t) /\ \A n \in 1 .. Len(s) : s[n] = t[n]
<1>1. Len(s) \in Nat /\ Len(t) \in Nat
  OBVIOUS
<1>2. Len(s) =< Len(t) =>
        /\ Len(SubSeq(s, 1, Len(s))) = Len(s) /\ Len(SubSeq(t, 1, Len(s))) = Len(s)
        /\ \A n \in 1 .. Len(s) : /\ SubSeq(s, 1, Len(s))[n] = s[n]
                                  /\ SubSeq(t, 1, Len(s))[n] = t[n]
        /\ SubSeq(s, 1, Len(s)) \in Seq(V) /\ SubSeq(t, 1, Len(s)) \in Seq(V)
  BY <1>1
<1>3. IsPrefix(s, t) => \A n \in 1 .. Len(s) : s[n] = t[n]
  BY <1>2 DEF IsPrefix
<1>4. Len(s) =< Len(t) /\ (\A n \in 1 .. Len(s) : s[n] = t[n]) => IsPrefix(s, t)
  BY <1>2, SeqEqual DEF IsPrefix
<1> QED BY <1>3, <1>4 DEF IsPrefix

\* Being a prefix is transitive, and kept by more at the end or in front.
LEMMA PrefixConcat ==
    ASSUME NEW V, NEW s \in Seq(V), NEW t \in Seq(V), NEW u \in Seq(V)
    PROVE  /\ IsPrefix(s, s)
           /\ IsPrefix(s, t) /\ IsPrefix(t, u) => IsPrefix(s, u)
           /\ IsPrefix(s, t) => IsPrefix(s, t \o u) /\ IsPrefix(u \o s, u \o t)
<1>1. t \o u \in Seq(V) /\ u \o s \in Seq(V) /\ u \o t \in Seq(V)
  OBVIOUS
<1>2. IsPrefix(s, s)
  BY PrefixIs
<1>3. IsPrefix(s, t) /\ IsPrefix(t, u) => IsPrefix(s, u)
  BY PrefixIs
<1> DEFINE tu == t \o u
           us == u \o s
           ut == u \o t
<1>4. /\ Len(tu) = Len(t) + Len(u) /\ \A n \in 1 .. Len(t) : tu[n] = t[n]
      /\ Len(us) = Len(u) + Len(s) /\ Len(ut) = Len(u) + Len(t)
      /\ \A n \in 1 .. Len(us) : us[n] = IF n <= Len(u) THEN u[n] ELSE s[n - Len(u)]
      /\ \A n \in 1 .. Len(ut) : ut[n] = IF n <= Len(u) THEN u[n] ELSE t[n - Len(u)]
      /\ Len(s) \in Nat /\ Len(t) \in Nat /\ Len(u) \in Nat
  OBVIOUS
<1> HIDE DEF tu, us, ut
<1>5. ASSUME IsPrefix(s, t) PROVE IsPrefix(s, tu)
  <2>1. Len(s) =< Len(t) /\ \A n \in 1 .. Len(s) : s[n] = t[n]
    BY <1>5, PrefixIs
  <2>2. Len(s) =< Len(tu) /\ \A n \in 1 .. Len(s) : s[n] = tu[n]
    BY <1>4, <2>1
  <2>3. tu \in Seq(V)
    BY <1>1 DEF tu
  <2> QED BY <2>2, <2>3, PrefixIs
<1>6. ASSUME IsPrefix(s, t) PROVE IsPrefix(us, ut)
  <2>1. Len(s) =< Len(t) /\ \A n \in 1 .. Len(s) : s[n] = t[n]
    BY <1>6, PrefixIs
  <2>4. Len(us) =< Len(ut)
    BY <1>4, <2>1
  <2>2. ASSUME NEW n \in 1 .. Len(us) PROVE us[n] = ut[n]
    <3>1. n \in 1 .. Len(ut)
      BY <1>4, <2>4
    <3>2. CASE n <= Len(u)
      BY <1>4, <3>1, <3>2
    <3>3. CASE ~(n <= Len(u))
      <4>1. n - Len(u) \in 1 .. Len(s)
        BY <1>4, <3>3
      <4> QED BY <1>4, <2>1, <3>1, <3>3, <4>1
    <3> QED BY <3>2, <3>3
  <2>3. us \in Seq(V) /\ ut \in Seq(V)
    BY <1>1 DEF us, ut
  <2> QED BY <2>4, <2>2, <2>3, PrefixIs
<1> QED BY <1>2, <1>3, <1>5, <1>6 DEF tu, us, ut

\* Nothing is a prefix of every sequence;
LEMMA PrefixEmpty ==
    ASSUME NEW V, NEW s \in Seq(V)
    PROVE  IsPrefix(<<>>, s)
<1>1. SubSeq(<<>>, 1, 0) = <<>> /\ SubSeq(s, 1, 0) = <<>> /\ Len(<<>>) = 0
  BY SubSeqEmpty
<1>2. 0 <= Len(s)
  OBVIOUS
<1> QED BY <1>1, <1>2 DEF IsPrefix

\* so is what is taken from its front.
LEMMA PrefixTaken ==
    ASSUME NEW V, NEW s \in Seq(V), NEW n \in 0 .. Len(s)
    PROVE  SubSeq(s, 1, n) \in Seq(V) /\ IsPrefix(SubSeq(s, 1, n), s)
<1> DEFINE t == SubSeq(s, 1, n)
<1>1. /\ t \in Seq(V) /\ Len(t) = n /\ \A k \in 1 .. n : t[k] = s[k]
      /\ n =< Len(s)
  OBVIOUS
<1> HIDE DEF t
<1>2. IsPrefix(t, s)
  BY <1>1, PrefixIs
<1> QED BY <1>1, <1>2 DEF t

\* What is flattened first stays in front.
LEMMA FlatteningPrefix ==
    ASSUME NEW V, NEW s \in Seq(Seq(V)), NEW f, IsFlattening(f, s, Len(s)),
           NEW k \in 1 .. Len(s)
    PROVE  IsPrefix(f[k], f[Len(s)])
<1>1. \A j \in 1 .. Len(s) : f[j] = IF j = 1 THEN s[j] ELSE f[j - 1] \o s[j]
  BY Zenon DEF IsFlattening
<1>2. \A j \in 1 .. Len(s) : f[j] \in Seq(V)
  BY FlatteningType
<1> DEFINE Bad == {j \in k .. Len(s) : ~IsPrefix(f[k], f[j])}
<1> SUFFICES ASSUME Bad # {} PROVE FALSE
  <2>1. Len(s) \in k .. Len(s)
    OBVIOUS
  <2> QED BY <2>1
<1>3. Len(s) \in Nat /\ k \in Nat /\ Bad \subseteq Nat
  OBVIOUS
<1>4. \A j : j \in Bad <=> j \in k .. Len(s) /\ ~IsPrefix(f[k], f[j])
  OBVIOUS
<1> HIDE DEF Bad
<1>5. PICK j \in Bad : \A l \in Bad : j =< l
  BY <1>3, LeastNatural
<1>6. j \in k .. Len(s) /\ ~IsPrefix(f[k], f[j])
  BY <1>4, <1>5
<1>7. j # k
  BY <1>2, <1>6, PrefixConcat
<1>8. j - 1 \in k .. Len(s) /\ j - 1 \in 1 .. Len(s) /\ ~(j =< j - 1) /\ j # 1
      /\ j \in 1 .. Len(s)
  BY <1>3, <1>6, <1>7
<1>9. IsPrefix(f[k], f[j - 1])
  BY <1>4, <1>5, <1>8
<1>10. f[j] = f[j - 1] \o s[j]
  BY <1>1, <1>8
<1>11. f[k] \in Seq(V) /\ f[j - 1] \in Seq(V) /\ s[j] \in Seq(V)
  BY <1>2, <1>8
<1>12. IsPrefix(f[k], f[j - 1] \o s[j])
  BY <1>9, <1>11, PrefixConcat
<1> QED BY <1>6, <1>10, <1>12

\* The headers in the first parts of a list.
FirstParts(s, k) == FlattenSeq(SubSeq(s, 1, k))

\* The first part's headers come first; each part's follow those before it;
\* those of all parts are the list's, and begin with those of some.
LEMMA FlattenParts ==
    ASSUME NEW V, NEW s \in Seq(Seq(V)), NEW k \in 1 .. Len(s)
    PROVE  /\ FirstParts(s, 0) = <<>>
           /\ FirstParts(s, k - 1) \in Seq(V)
           /\ FirstParts(s, k) = FirstParts(s, k - 1) \o s[k]
           /\ FirstParts(s, Len(s)) = FlattenSeq(s)
           /\ IsPrefix(FirstParts(s, k), FlattenSeq(s)) /\ FlattenSeq(s) \in Seq(V)
<1>0. Len(s) \in Nat
  OBVIOUS
<1>1. PICK f : IsFlattening(f, s, Len(s))
  BY <1>0, FlatteningExists
<1>2. ASSUME NEW n \in 1 .. Len(s)
      PROVE  FirstParts(s, n) = f[n]
  <2> DEFINE t == SubSeq(s, 1, n)
  <2>1. t \in Seq(Seq(V)) /\ Len(t) = n /\ \A j \in 1 .. n : t[j] = s[j]
    OBVIOUS
  <2> HIDE DEF t
  <2>2. n \in Nat \ {0} /\ Len(s) \in Nat /\ n \in 1 .. n /\ n =< Len(s)
    OBVIOUS
  <2>3. PICK g : IsFlattening(g, t, n)
    BY <2>2, FlatteningExists
  <2>4. FlattenSeq(t) = g[n]
    BY <2>1, <2>2, <2>3, FlattenSeqIs
  <2>5. n \in Nat /\ \A j \in 1 .. n : t[j] = s[j]
    BY <2>1, <2>2
  <2>6. g[n] = f[n]
    BY <1>0, <1>1, <2>2, <2>3, <2>5, FlatteningUnique
  <2> QED BY <2>4, <2>6 DEF FirstParts, t
<1>3. FirstParts(s, 0) = <<>>
  <2>1. SubSeq(s, 1, 0) = <<>> /\ Len(<<>>) = 0
    BY SubSeqEmpty
  <2> QED BY <2>1 DEF FirstParts, FlattenSeq
<1>4. FirstParts(s, Len(s)) = FlattenSeq(s)
  BY SubSeqFull DEF FirstParts
<1>5. f[k] \in Seq(V) /\ s[k] \in Seq(V)
  BY <1>1, FlatteningType
<1>6. FirstParts(s, k - 1) \in Seq(V) /\ FirstParts(s, k) = FirstParts(s, k - 1) \o s[k]
  <2>1. CASE k = 1
    <3>1. f[k] = s[k]
      BY <1>1, <2>1 DEF IsFlattening
    <3>2. s[k] = <<>> \o s[k] /\ <<>> \in Seq(V)
      BY <1>5, ConcatEmptySeq, EmptySeq
    <3>3. FirstParts(s, 1) = f[1]
      BY <1>2, <2>1
    <3>4. FirstParts(s, k - 1) = <<>>
      BY <1>3, <2>1
    <3> QED BY <2>1, <3>1, <3>2, <3>3, <3>4
  <2>2. CASE k # 1
    <3>1. k - 1 \in 1 .. Len(s)
      BY <2>2
    <3>2. f[k] = f[k - 1] \o s[k] /\ f[k - 1] \in Seq(V)
      BY <1>1, <2>2, <3>1, FlatteningType DEF IsFlattening
    <3> QED BY <1>2, <3>1, <3>2
  <2> QED BY <2>1, <2>2
<1>7. IsPrefix(FirstParts(s, k), FlattenSeq(s)) /\ FlattenSeq(s) \in Seq(V)
  <2>1. Len(s) \in 1 .. Len(s)
    OBVIOUS
  <2>2. FirstParts(s, k) = f[k] /\ FlattenSeq(s) = f[Len(s)]
    BY <1>2, <1>4, <2>1
  <2>3. IsPrefix(f[k], f[Len(s)]) /\ f[Len(s)] \in Seq(V)
    BY <1>1, <2>1, FlatteningPrefix, FlatteningType
  <2> QED BY <2>2, <2>3
<1> QED BY <1>3, <1>4, <1>6, <1>7

-----------------------------------------------------------------------------
(* Reading the headers. *)

\* No part but the first is empty: a next part always has an element.
IsList(s) == s \in Seq(Seq(Nat)) /\ s # <<>> /\ \A p \in 2 .. Len(s) : Len(s[p]) # 0

\* The headers up to the n-th of a list's part p.
Read(s, p, n) == FirstParts(s, p - 1) \o SubSeq(s[p], 1, n)

\* While the loop runs and f has not failed, f was called with the headers up
\* to the loop's position.
ReadInv ==
    /\ IsList(parts) /\ callbacks \in Seq(Nat)
    /\ part \in 1 .. Len(parts) /\ i \in 0 .. Len(parts[part])
    /\ result \in BOOLEAN /\ failures = IF result THEN 0 ELSE 1
    /\ reader = "idle" => callbacks = <<>> /\ part = 1 /\ i = 0 /\ result
    /\ reader = "loop" /\ result => callbacks = Read(parts, part, i)
    /\ reader = "done" /\ result => callbacks = Headers
    /\ IsPrefix(callbacks, Headers)

\* A list's parts and headers.
LEMMA ListTypes ==
    ASSUME NEW s, IsList(s)
    PROVE  /\ s \in Seq(Seq(Nat)) /\ Len(s) \in Nat \ {0}
           /\ \A p \in 1 .. Len(s) : s[p] \in Seq(Nat) /\ Len(s[p]) \in Nat
           /\ FlattenSeq(s) \in Seq(Nat)
<1>1. s \in Seq(Seq(Nat)) /\ Len(s) \in Nat \ {0}
  BY EmptySeq DEF IsList
<1>2. \A p \in 1 .. Len(s) : s[p] \in Seq(Nat) /\ Len(s[p]) \in Nat
  BY <1>1
<1>3. 1 \in 1 .. Len(s)
  BY <1>1
<1>4. FlattenSeq(s) \in Seq(Nat)
  BY <1>1, <1>3, FlattenParts
<1> QED BY <1>1, <1>2, <1>4

\* A sequence with one more element, and with another last one.
LEMMA LastReplaced ==
    ASSUME NEW V, NEW s \in Seq(V), s # <<>>, NEW e \in V
    PROVE  LET t == Append(s, e)
               u == Front(s) \o <<e>>
           IN  /\ t \in Seq(V) /\ Len(t) = Len(s) + 1 /\ t[Len(s) + 1] = e
               /\ \A p \in 1 .. Len(s) : t[p] = s[p]
               /\ u \in Seq(V) /\ Len(u) = Len(s) /\ u[Len(s)] = e
               /\ \A p \in 1 .. Len(s) - 1 : u[p] = s[p]
<1> DEFINE f == Front(s)
<1>1. Len(s) \in Nat \ {0}
  OBVIOUS
<1>2. f \in Seq(V) /\ Len(f) = Len(s) - 1 /\ \A p \in 1 .. Len(s) - 1 : f[p] = s[p]
  <2>1. 1 \in Int /\ Len(s) - 1 \in Int /\ \A p \in 1 .. Len(s) - 1 : s[p] \in V
    BY <1>1
  <2>2. /\ SubSeq(s, 1, Len(s) - 1) \in Seq(V)
        /\ Len(SubSeq(s, 1, Len(s) - 1)) =
             IF 1 <= Len(s) - 1 THEN (Len(s) - 1) - 1 + 1 ELSE 0
        /\ \A p \in 1 .. (Len(s) - 1) - 1 + 1 :
             SubSeq(s, 1, Len(s) - 1)[p] = s[1 + p - 1]
    BY <2>1, SubSeqProperties
  <2>3. f = SubSeq(s, 1, Len(s) - 1)
    BY DEF Front
  <2> HIDE DEF f
  <2>4. Len(f) = Len(s) - 1
    <3>1. PICK l \in Nat : l = Len(s) - 1
      BY <1>1
    <3>2. Len(f) = IF 1 <= l THEN l - 1 + 1 ELSE 0
      BY <2>2, <2>3, <3>1
    <3>3. Len(f) = l
      BY <3>2
    <3> QED BY <3>1, <3>3
  <2>5. ASSUME NEW p \in 1 .. Len(s) - 1 PROVE f[p] = s[p]
    <3>1. p \in 1 .. (Len(s) - 1) - 1 + 1 /\ 1 + p - 1 = p
      BY <1>1
    <3>2. f[p] = s[1 + p - 1]
      BY <2>2, <2>3, <3>1
    <3> QED BY <3>1, <3>2
  <2> QED BY <2>2, <2>3, <2>4, <2>5
<1> HIDE DEF f
<1>3. f \o <<e>> = Append(f, e)
  BY <1>2
<1>4. /\ Append(f, e) \in Seq(V) /\ Len(Append(f, e)) = Len(s) /\ Append(f, e)[Len(s)] = e
      /\ \A p \in 1 .. Len(s) - 1 : Append(f, e)[p] = s[p]
  BY <1>1, <1>2
<1>5. /\ Append(s, e) \in Seq(V) /\ Len(Append(s, e)) = Len(s) + 1
      /\ Append(s, e)[Len(s) + 1] = e
      /\ \A p \in 1 .. Len(s) : Append(s, e)[p] = s[p]
  BY <1>1
<1> QED BY <1>3, <1>4, <1>5 DEF f

\* A list grows by a new part with an element, or by an element in the last.
LEMMA ListGrows ==
    ASSUME NEW s, IsList(s), NEW header \in Nat
    PROVE  /\ IsList(Append(s, <<header>>))
           /\ IsList(Front(s) \o <<Append(Last(s), header)>>)
<1>1. /\ s \in Seq(Seq(Nat)) /\ s # <<>> /\ Len(s) \in Nat \ {0}
      /\ \A p \in 2 .. Len(s) : Len(s[p]) # 0
  BY ListTypes DEF IsList
<1>2. IsList(Append(s, <<header>>))
  <2> DEFINE t == Append(s, <<header>>)
  <2>1. <<header>> \in Seq(Nat) /\ Len(<<header>>) = 1
    OBVIOUS
  <2>2. /\ t \in Seq(Seq(Nat)) /\ t # <<>> /\ Len(t) = Len(s) + 1
        /\ \A p \in 1 .. Len(s) : t[p] = s[p]
        /\ t[Len(s) + 1] = <<header>>
    BY <1>1, <2>1, LastReplaced
  <2> HIDE DEF t
  <2>3. ASSUME NEW p \in 2 .. Len(t) PROVE Len(t[p]) # 0
    <3>1. Len(t) = Len(s) + 1 /\ Len(s) \in Nat
      BY <1>1, <2>2
    <3>2. p = Len(s) + 1 \/ (p \in 1 .. Len(s) /\ p \in 2 .. Len(s))
      BY <3>1
    <3>3. CASE p = Len(s) + 1
      <4>1. t[p] = <<header>>
        BY <2>2, <3>3
      <4> QED BY <2>1, <4>1
    <3>4. CASE p \in 1 .. Len(s) /\ p \in 2 .. Len(s)
      <4>1. t[p] = s[p]
        BY <2>2, <3>4
      <4> QED BY <1>1, <3>4, <4>1
    <3> QED BY <3>2, <3>3, <3>4
  <2>4. IsList(t)
    BY <2>2, <2>3 DEF IsList
  <2> QED BY <2>4 DEF t
<1>3. IsList(Front(s) \o <<Append(Last(s), header)>>)
  <2> DEFINE new == Append(Last(s), header)
             t == Front(s) \o <<new>>
  <2>1. Last(s) \in Seq(Nat)
    BY <1>1 DEF Last
  <2>2. new \in Seq(Nat) /\ Len(new) # 0
    BY <2>1, AppendProperties, LenProperties
  <2> HIDE DEF new
  <2>5. /\ t \in Seq(Seq(Nat)) /\ Len(t) = Len(s) /\ t[Len(s)] = new
        /\ \A p \in 1 .. Len(s) - 1 : t[p] = s[p]
    BY <1>1, <2>2, LastReplaced
  <2> HIDE DEF t
  <2>6. t # <<>>
    BY <1>1, <2>5, EmptySeq
  <2>7. ASSUME NEW p \in 2 .. Len(t) PROVE Len(t[p]) # 0
    <3>1. p = Len(s) \/ (p \in 1 .. Len(s) - 1 /\ p \in 2 .. Len(s))
      BY <1>1, <2>5
    <3>2. CASE p = Len(s)
      BY <2>2, <2>5, <3>2
    <3>3. CASE p \in 1 .. Len(s) - 1 /\ p \in 2 .. Len(s)
      BY <1>1, <2>5, <3>3
    <3> QED BY <3>1, <3>2, <3>3
  <2>8. IsList(t)
    BY <2>5, <2>6, <2>7 DEF IsList
  <2> QED BY <2>8 DEF t, new
<1> QED BY <1>2, <1>3

\* Reading on in a part, from a part to the next, and to the end of the last.
LEMMA ReadOn ==
    ASSUME NEW s, IsList(s), NEW p \in 1 .. Len(s), NEW n \in 0 .. Len(s[p])
    PROVE  /\ Read(s, 1, 0) = <<>>
           /\ Read(s, p, n) \in Seq(Nat) /\ IsPrefix(Read(s, p, n), FlattenSeq(s))
           /\ n < Len(s[p]) => Read(s, p, n + 1) = Append(Read(s, p, n), s[p][n + 1])
           /\ n = Len(s[p]) /\ p < Len(s) => Read(s, p + 1, 0) = Read(s, p, n)
           /\ n = Len(s[p]) /\ p = Len(s) => Read(s, p, n) = FlattenSeq(s)
<1>1. /\ s \in Seq(Seq(Nat)) /\ Len(s) \in Nat \ {0} /\ p \in Nat /\ n \in Nat
      /\ s[p] \in Seq(Nat) /\ Len(s[p]) \in Nat
      /\ FlattenSeq(s) \in Seq(Nat)
  BY ListTypes
<1>2. /\ FirstParts(s, 0) = <<>>
      /\ FirstParts(s, p - 1) \in Seq(Nat)
      /\ FirstParts(s, p) = FirstParts(s, p - 1) \o s[p]
      /\ FirstParts(s, Len(s)) = FlattenSeq(s)
      /\ IsPrefix(FirstParts(s, p), FlattenSeq(s))
  BY <1>1, FlattenParts
<1>3. SubSeq(s[p], 1, n) \in Seq(Nat) /\ IsPrefix(SubSeq(s[p], 1, n), s[p])
  BY <1>1, PrefixTaken
<1>4. \A q \in 1 .. Len(s) : SubSeq(s[q], 1, 0) = <<>>
  BY SubSeqEmpty
<1>5. Read(s, 1, 0) = <<>>
  BY <1>1, <1>2, <1>4, ConcatEmptySeq, EmptySeq DEF Read
<1>6. Read(s, p, n) \in Seq(Nat)
  BY <1>2, <1>3, ConcatProperties DEF Read
<1>7. IsPrefix(Read(s, p, n), FlattenSeq(s))
  <2>1. IsPrefix(FirstParts(s, p - 1) \o SubSeq(s[p], 1, n), FirstParts(s, p - 1) \o s[p])
    <3>1. PICK x \in Seq(Nat) : x = SubSeq(s[p], 1, n)
      BY <1>3
    <3>2. PICK y \in Seq(Nat) : y = s[p]
      BY <1>1
    <3>3. PICK z \in Seq(Nat) : z = FirstParts(s, p - 1)
      BY <1>2
    <3>4. IsPrefix(x, y)
      BY <1>3, <3>1, <3>2
    <3>5. IsPrefix(z \o x, z \o y)
      BY <3>4, PrefixConcat
    <3> QED BY <3>1, <3>2, <3>3, <3>5
  <2>2. FirstParts(s, p) \in Seq(Nat)
    BY <1>1, <1>2, ConcatProperties
  <2>3. IsPrefix(Read(s, p, n), FirstParts(s, p))
    BY <1>2, <2>1 DEF Read
  <2> QED BY <1>1, <1>2, <1>6, <2>2, <2>3, PrefixConcat
<1>8. n < Len(s[p]) => Read(s, p, n + 1) = Append(Read(s, p, n), s[p][n + 1])
  <2> SUFFICES ASSUME n < Len(s[p])
               PROVE  Read(s, p, n + 1) = Append(Read(s, p, n), s[p][n + 1])
    OBVIOUS
  <2>1. PICK x \in Seq(Nat) : x = FirstParts(s, p - 1)
    BY <1>2
  <2>2. PICK y \in Seq(Nat) : y = s[p]
    BY <1>1
  <2>3. x \o SubSeq(y, 1, n + 1) = Append(x \o SubSeq(y, 1, n), y[n + 1])
    BY <2>2
  <2> QED BY <2>1, <2>2, <2>3 DEF Read
<1>9. n = Len(s[p]) => SubSeq(s[p], 1, n) = s[p]
  BY <1>1, SubSeqFull
<1>10. n = Len(s[p]) /\ p < Len(s) => Read(s, p + 1, 0) = Read(s, p, n)
  <2> SUFFICES ASSUME n = Len(s[p]), p < Len(s) PROVE Read(s, p + 1, 0) = Read(s, p, n)
    OBVIOUS
  <2>1. p + 1 \in 1 .. Len(s) /\ (p + 1) - 1 = p
    BY <1>1
  <2>2. FirstParts(s, p) \in Seq(Nat)
    BY <1>1, <1>2, ConcatProperties
  <2>3. Read(s, p + 1, 0) = FirstParts(s, p) \o <<>>
    BY <1>4, <2>1 DEF Read
  <2> QED BY <1>2, <1>9, <2>2, <2>3, ConcatEmptySeq DEF Read
<1>11. n = Len(s[p]) /\ p = Len(s) => Read(s, p, n) = FlattenSeq(s)
  BY <1>2, <1>9 DEF Read
<1> QED BY <1>5, <1>6, <1>7, <1>8, <1>10, <1>11

\* One pass of the loop calls f with the next header of the list.
LEMMA PassReads ==
    ASSUME ReadInv, reader = "loop", i < Len(parts[part]) \/ part < Len(parts)
    PROVE  LET p == next_element.part
               n == next_element.i + 1
           IN  /\ p \in 1 .. Len(parts) /\ n \in 1 .. Len(parts[p])
               /\ result => Read(parts, p, n) = Append(callbacks, parts[p][n])
<1> DEFINE s == parts
<1>1. /\ IsList(s) /\ part \in 1 .. Len(s) /\ i \in 0 .. Len(s[part])
      /\ result => callbacks = Read(s, part, i)
  BY DEF ReadInv
<1>2. /\ Len(s) \in Nat \ {0} /\ part \in Nat /\ i \in Nat
      /\ \A q \in 1 .. Len(s) : Len(s[q]) \in Nat
      /\ \A q \in 2 .. Len(s) : Len(s[q]) # 0
  BY <1>1, ListTypes DEF IsList
<1>3. CASE i < Len(s[part])
  <2>1. next_element.part = part /\ next_element.i = i
    BY <1>2, <1>3 DEF next_element
  <2>2. Read(s, part, i + 1) = Append(Read(s, part, i), s[part][i + 1])
    BY <1>1, <1>3, ReadOn
  <2>3. i + 1 \in 1 .. Len(s[part])
    BY <1>1, <1>2, <1>3
  <2> QED BY <1>1, <2>1, <2>2, <2>3
<1>4. CASE i >= Len(s[part])
  <2>1. /\ next_element.part = part + 1 /\ next_element.i = 0
        /\ part + 1 \in 2 .. Len(s) /\ i = Len(s[part])
    BY <1>1, <1>2, <1>4 DEF next_element
  <2>2. part + 1 \in 1 .. Len(s) /\ 0 \in 0 .. Len(s[part + 1]) /\ 0 < Len(s[part + 1])
        /\ 1 \in 1 .. Len(s[part + 1]) /\ part < Len(s)
    BY <1>2, <2>1
  <2>3. Read(s, part + 1, 0) = Read(s, part, i)
    BY <1>1, <2>1, <2>2, ReadOn
  <2>4. Read(s, part + 1, 0 + 1) = Append(Read(s, part + 1, 0), s[part + 1][0 + 1])
    BY <1>1, <2>2, ReadOn
  <2> QED BY <1>1, <2>1, <2>2, <2>3, <2>4
<1> QED BY <1>1, <1>2, <1>3, <1>4

\* Nothing is read at first;
LEMMA ReadInit == Init => ReadInv
<1> SUFFICES ASSUME Init PROVE ReadInv
  OBVIOUS
<1>1. /\ parts = <<<<>>>> /\ callbacks = <<>> /\ part = 1 /\ i = 0 /\ reader = "idle"
      /\ failures = 0 /\ result = TRUE
  BY DEF Init
<1>2. <<>> \in Seq(Nat) /\ Len(<<>>) = 0
  BY EmptySeq
<1>3. parts \in Seq(Seq(Nat)) /\ parts # <<>> /\ Len(parts) = 1 /\ parts[1] = <<>>
  BY <1>1, <1>2
<1>4. IsList(parts)
  BY <1>3 DEF IsList
<1>5. Headers \in Seq(Nat) /\ IsPrefix(<<>>, Headers)
  BY <1>4, ListTypes, PrefixEmpty DEF Headers
<1> QED BY <1>1, <1>2, <1>3, <1>4, <1>5 DEF ReadInv

\* headers come in before the loop, and each pass of it reads the next one.
LEMMA ReadStep == ReadInv /\ [Next]_vars => ReadInv'
<1> SUFFICES ASSUME ReadInv, [Next]_vars PROVE ReadInv'
  OBVIOUS
<1>1. /\ IsList(parts) /\ callbacks \in Seq(Nat)
      /\ part \in 1 .. Len(parts) /\ i \in 0 .. Len(parts[part])
      /\ IsPrefix(callbacks, Headers)
      /\ Headers \in Seq(Nat) /\ Len(parts) \in Nat \ {0}
      /\ \A p \in 1 .. Len(parts) : Len(parts[p]) \in Nat
  BY ListTypes DEF ReadInv, Headers
<1>2. CASE UNCHANGED headers_vars
  BY <1>2 DEF headers_vars, ReadInv, Headers
<1>3. CASE ngx_list_push
  <2>1. PICK header \in Nat :
          \/ parts' = Front(parts) \o <<Append(Last(parts), header)>>
          \/ parts' = Append(parts, <<header>>)
    <3>1. Len(Headers) + 1 \in Nat
      BY <1>1
    <3> QED BY <1>3, <3>1 DEF ngx_list_push
  <2>2. IsList(parts')
    BY <1>1, <2>1, ListGrows
  <2>3. /\ reader = "idle" /\ reader' = reader /\ callbacks = <<>> /\ callbacks' = callbacks
        /\ part' = 1 /\ i' = 0
        /\ result /\ result' = result /\ failures = 0 /\ failures' = failures
    BY <1>3 DEF ngx_list_push, ReadInv
  <2>4. /\ 1 \in 1 .. Len(parts') /\ 0 \in 0 .. Len(parts'[1])
        /\ FlattenSeq(parts') \in Seq(Nat)
    BY <2>2, ListTypes
  <2>5. IsPrefix(callbacks', Headers')
    BY <2>3, <2>4, PrefixEmpty DEF Headers
  <2> QED BY <1>1, <2>2, <2>3, <2>4, <2>5 DEF ReadInv
<1>4. CASE extract_span_context
  <2>1. /\ callbacks = <<>> /\ callbacks' = callbacks /\ parts' = parts
        /\ part' = 1 /\ i' = 0 /\ reader' = "loop"
        /\ result' = TRUE /\ failures' = 0
    BY <1>4 DEF extract_span_context, ReadInv
  <2>2. 1 \in 1 .. Len(parts) /\ 0 \in 0 .. Len(parts[1])
    BY <1>1
  <2>3. Read(parts, 1, 0) = <<>>
    BY <1>1, ReadOn
  <2> QED BY <1>1, <2>1, <2>2, <2>3 DEF ReadInv, Headers
<1>5. CASE for_each
  <2>1. reader = "loop" /\ parts' = parts /\ Headers' = Headers
    BY <1>5 DEF for_each, Headers
  <2>2. CASE i >= Len(parts[part]) /\ part = Len(parts) /\ reader' = "done"
               /\ UNCHANGED <<part, i, callbacks, failures, result>>
    <3>1. i = Len(parts[part])
      BY <1>1, <2>2
    <3>2. result => callbacks = Headers
      BY <1>1, <2>1, <2>2, <3>1, ReadOn DEF ReadInv, Headers
    <3> QED BY <1>1, <2>1, <2>2, <3>2 DEF ReadInv
  <2>3. CASE /\ i < Len(parts[part]) \/ part < Len(parts)
             /\ part' = next_element.part /\ i' = next_element.i + 1
             /\ reader' = reader
             /\ \/ ~result /\ UNCHANGED <<callbacks, failures, result>>
                \/ /\ result
                   /\ callbacks' = Append(callbacks, IF i' <= Len(parts[part'])
                                                     THEN parts[part'][i'] ELSE Garbage)
                   /\ result' \in BOOLEAN
                   /\ failures' = IF result' THEN failures ELSE failures + 1
    <3>1. /\ part' \in 1 .. Len(parts) /\ i' \in 1 .. Len(parts[part'])
          /\ result => Read(parts, part', i') = Append(callbacks, parts[part'][i'])
      BY <2>1, <2>3, PassReads
    <3>2. i' \in 0 .. Len(parts[part'])
      BY <3>1
    <3>3. CASE ~result /\ UNCHANGED <<callbacks, failures, result>>
      BY <1>1, <2>1, <2>3, <3>1, <3>2, <3>3 DEF ReadInv
    <3>4. CASE /\ result /\ result' \in BOOLEAN
               /\ callbacks' = Append(callbacks, parts[part'][i'])
               /\ failures' = IF result' THEN failures ELSE failures + 1
      <4>1. callbacks' = Read(parts, part', i')
        BY <3>1, <3>4
      <4>2. Read(parts, part', i') \in Seq(Nat) /\ IsPrefix(Read(parts, part', i'), Headers)
        BY <1>1, <3>1, <3>2, ReadOn DEF Headers
      <4>3. failures' = IF result' THEN 0 ELSE 1
        BY <3>4 DEF ReadInv
      <4> QED BY <1>1, <2>1, <2>3, <3>1, <3>2, <3>4, <4>1, <4>2, <4>3 DEF ReadInv
    <3>5. i' <= Len(parts[part'])
      BY <1>1, <3>1
    <3> QED BY <2>3, <3>3, <3>4, <3>5
  <2> QED BY <1>5, <2>1, <2>2, <2>3 DEF for_each
<1> QED BY <1>2, <1>3, <1>4, <1>5
        DEF Next, vars, StartRequest, ChangeBlock, expand_opentracing_context_variable,
            CreateUpstreamRequest

\* Whatever the list's parts, and wherever the tracer's callback fails, the
\* headers are read in order and once each, and none after the failure.
THEOREM HeadersReadOnce == Spec => []EachHeaderReadOnce
<1>1. ReadInv => EachHeaderReadOnce
  BY DEF ReadInv, EachHeaderReadOnce
<1> QED BY <1>1, ReadInit, ReadStep, PTL DEF Spec

-----------------------------------------------------------------------------
(* The inductive invariant: an expansion is some of one span's context, and *)
(* so is what an upstream request was made from.                           *)

TypeInv ==
    /\ injects \in Seq(KeyLists)
    /\ request_span # NoAddr => Len(injects) >= 1
    /\ traced \in BOOLEAN
    /\ traced => request_span # NoAddr /\ span.no \in 1 .. Len(injects)

IsExpansion(e) == \E no \in Nat, keys \in Seq(Seq(STRING)) : e = Expansion(no, keys)

HeadersFrom(e) ==
    [n \in DOMAIN span_context_keys |->
       [name  |-> HeaderName(span_context_keys[n]),
        value |-> FirstValue(e, Suffix(span_context_keys[n]))]]

SentInv == sent = <<>> \/ \E e : IsExpansion(e) /\ sent = HeadersFrom(e)

\* The expansion made in this block, if any, is the active span's.
CacheInv ==
    /\ expansions \in {0, 1}
    /\ expansions = 1 => request_span # NoAddr /\ values_span = active_span.addr

Inv == TypeInv /\ IsExpansion(span_context_expansion) /\ SentInv /\ CacheInv

\* The invariant holds at first, in every step, and for good.
LEMMA InitInv == Init => Inv
<1> SUFFICES ASSUME Init PROVE Inv
  OBVIOUS
<1>1. TypeInv
  <2>1. injects = <<>> /\ <<>> \in Seq(KeyLists)
    BY DEF Init
  <2> QED BY <2>1 DEF Init, TypeInv
<1>2. IsExpansion(span_context_expansion)
  <2>1. span_context_expansion = Expansion(0, <<>>)
    BY DEF Init, Expansion
  <2>2. <<>> \in Seq(Seq(STRING)) /\ 0 \in Nat
    OBVIOUS
  <2> QED BY <2>1, <2>2, Zenon DEF IsExpansion
<1>3. SentInv /\ CacheInv
  BY DEF Init, SentInv, CacheInv
<1> QED BY <1>1, <1>2, <1>3 DEF Inv

\* What the trace has, and so the active span, is changed by no lookup.
LEMMA LookupInv ==
    ASSUME Inv, request_span # NoAddr, lookup_value,
           UNCHANGED <<block_vars, span_context_keys, fastcgi>>
    PROVE  TypeInv' /\ IsExpansion(span_context_expansion)' /\ CacheInv'
<1>1. TypeInv'
  BY DEF Inv, TypeInv, block_vars
<1>2. active_span' = active_span
  BY DEF active_span, block_vars
<1>3. CASE UNCHANGED querier_vars
  BY <1>1, <1>2, <1>3 DEF Inv, CacheInv, querier_vars, block_vars, IsExpansion
<1>4. CASE active_span.addr # values_span /\ expand_span_context_values
  <2>1. active_span.no \in 1 .. Len(injects)
    BY DEF Inv, TypeInv, active_span
  <2>2. injects[active_span.no] \in Seq(Seq(STRING))
    BY <2>1, KeyListsAssumption DEF Inv, TypeInv
  <2>3. PICK n \in 0 .. Len(injects[active_span.no]) :
          span_context_expansion' =
            Expansion(active_span.no, SubSeq(injects[active_span.no], 1, n))
    BY <1>4 DEF expand_span_context_values
  <2>4. SubSeq(injects[active_span.no], 1, n) \in Seq(Seq(STRING))
    BY <2>2, <2>3
  <2>5. IsExpansion(span_context_expansion)'
    <3>1. Len(injects) \in Nat
      BY DEF Inv, TypeInv
    <3>2. active_span.no \in Nat
      BY <2>1, <3>1
    <3> QED BY <2>3, <2>4, <3>2, Zenon DEF IsExpansion
  <2>6. CacheInv'
    BY <1>2, <1>4 DEF Inv, CacheInv, expand_span_context_values, block_vars
  <2> QED BY <1>1, <2>5, <2>6
<1> QED BY <1>3, <1>4 DEF lookup_value

LEMMA NextInv == Inv /\ [Next]_vars => Inv'
<1> SUFFICES ASSUME Inv, [Next]_vars PROVE Inv'
  OBVIOUS
<1>1. ASSUME UNCHANGED <<fastcgi, span_context_keys, block_vars, querier_vars, sent>>
      PROVE  Inv'
  BY <1>1 DEF Inv, TypeInv, IsExpansion, SentInv, HeadersFrom, HeaderName, CacheInv,
              active_span, block_vars, querier_vars
<1>2. CASE ngx_list_push \/ extract_span_context \/ for_each \/ UNCHANGED vars
  BY <1>1, <1>2 DEF ngx_list_push, extract_span_context, for_each, vars
<1>3. ASSUME UNCHANGED <<fastcgi, span_context_keys, values_span,
                         span_context_expansion, sent>>
      PROVE  IsExpansion(span_context_expansion)' /\ SentInv'
  BY <1>3 DEF Inv, IsExpansion, SentInv, HeadersFrom, HeaderName
<1>4. CASE StartRequest
  <2>1. PICK keys \in KeyLists : injects' = <<keys>>
    BY <1>4 DEF StartRequest
  <2>2. TypeInv'
    BY <1>4, <2>1 DEF StartRequest, Inv, TypeInv
  <2>3. CacheInv'
    BY <1>4 DEF StartRequest, Inv, CacheInv, querier_vars
  <2> QED BY <1>3, <1>4, <2>2, <2>3 DEF StartRequest, querier_vars, Inv
<1>5. CASE ChangeBlock
  <2>1. TypeInv'
    <3>1. CASE ~traced'
      BY <1>5, <3>1 DEF ChangeBlock, Inv, TypeInv
    <3>2. CASE traced'
      <4>1. PICK keys \in KeyLists : injects' = Append(injects, keys)
        BY <1>5, <3>2 DEF ChangeBlock
      <4>2. span'.no = Len(injects) + 1
        BY <1>5, <3>2 DEF ChangeBlock
      <4> QED BY <1>5, <3>2, <4>1, <4>2 DEF ChangeBlock, Inv, TypeInv
    <3> QED BY <3>1, <3>2
  <2>2. CacheInv'
    BY <1>5 DEF ChangeBlock, CacheInv
  <2> QED BY <1>3, <1>5, <2>1, <2>2 DEF ChangeBlock, Inv
<1>6. CASE expand_opentracing_context_variable
  <2>1. SentInv'
    BY <1>6 DEF expand_opentracing_context_variable, Inv, SentInv, HeadersFrom,
                HeaderName, IsExpansion
  <2> QED BY <1>6, <2>1, LookupInv DEF expand_opentracing_context_variable, Inv
<1>7. CASE CreateUpstreamRequest
  <2>1. TypeInv' /\ IsExpansion(span_context_expansion)' /\ CacheInv'
    BY <1>7, LookupInv DEF CreateUpstreamRequest
  <2>2. sent' = HeadersFrom(span_context_expansion')
    BY <1>7 DEF CreateUpstreamRequest, HeadersFrom
  <2>3. \A e : HeadersFrom(e)' = HeadersFrom(e)
    BY <1>7 DEF CreateUpstreamRequest, HeadersFrom, HeaderName
  <2>4. IsExpansion(span_context_expansion')
    BY <2>1 DEF IsExpansion
  <2>5. SentInv'
    BY <2>2, <2>3, <2>4 DEF SentInv, IsExpansion
  <2> QED BY <2>1, <2>5 DEF Inv
<1> QED BY <1>2, <1>4, <1>5, <1>6, <1>7 DEF Next

LEMMA InvHolds == Spec => []Inv
  BY InitInv, NextInv, PTL DEF Spec

-----------------------------------------------------------------------------
\* A value that was found is that of a pair of the expansion, of its one span,
\* with a key that is alike; nothing is found only if no key is.
LEMMA ValueFound ==
    ASSUME NEW no \in Nat, NEW keys \in Seq(Seq(STRING)), NEW key
    PROVE  LET value == FirstValue(Expansion(no, keys), Suffix(key))
           IN  \/ /\ value = Empty
                  /\ \A n \in DOMAIN keys : ~Alike(keys[n], key)
               \/ \E n \in DOMAIN keys :
                    Alike(keys[n], key) /\ value = [span |-> no, key |-> keys[n]]
<1> DEFINE e == Expansion(no, keys)
           V == {e[n] : n \in DOMAIN e}
<1>1. /\ DOMAIN e = DOMAIN keys
      /\ \A n \in DOMAIN keys : /\ e[n][1] = Suffix(keys[n])
                               /\ e[n][2] = [span |-> no, key |-> keys[n]]
  BY DEF Expansion
<1>2. e \in Seq(V)
  <2>1. DOMAIN e = 1 .. Len(keys) /\ Len(keys) \in Nat
    BY <1>1
  <2>2. e = [n \in 1 .. Len(keys) |-> e[n]]
    BY <2>1 DEF Expansion
  <2>3. \A n \in 1 .. Len(keys) : e[n] \in V
    BY <2>1
  <2> QED BY <2>1, <2>2, <2>3
<1> HIDE DEF e, V
<1>3. \A n \in DOMAIN keys : Suffix(keys[n]) = Suffix(key) <=> Alike(keys[n], key)
  BY SameVariable
<1>4. \/ /\ FirstValue(e, Suffix(key)) = Empty
         /\ \A n \in DOMAIN e : e[n][1] # Suffix(key)
      \/ \E n \in DOMAIN e :
           e[n][1] = Suffix(key) /\ FirstValue(e, Suffix(key)) = e[n][2]
  BY <1>2, FirstValueFound
<1>5. \/ /\ FirstValue(e, Suffix(key)) = Empty
         /\ \A n \in DOMAIN keys : ~Alike(keys[n], key)
      \/ \E n \in DOMAIN keys :
           /\ Alike(keys[n], key)
           /\ FirstValue(e, Suffix(key)) = [span |-> no, key |-> keys[n]]
  BY <1>1, <1>3, <1>4
<1> QED BY <1>5 DEF e

\* An upstream request never carries the contexts of two spans.
THEOREM OneContextSent == Spec => []OneSpanPerRequest
<1>1. Inv => OneSpanPerRequest
  <2> SUFFICES ASSUME Inv, NEW m \in DOMAIN sent, NEW n \in DOMAIN sent,
                      Empty \notin {sent[m].value, sent[n].value}
               PROVE  sent[m].value.span = sent[n].value.span
    BY DEF OneSpanPerRequest
  <2>1. PICK e : IsExpansion(e) /\ sent = HeadersFrom(e)
    BY DEF Inv, SentInv
  <2>2. PICK no \in Nat, keys \in Seq(Seq(STRING)) : e = Expansion(no, keys)
    BY <2>1 DEF IsExpansion
  <2>3. \A i1 \in DOMAIN sent :
          sent[i1].value = FirstValue(e, Suffix(span_context_keys[i1]))
    BY <2>1 DEF HeadersFrom
  <2>4. \A i1 \in DOMAIN sent : sent[i1].value # Empty => sent[i1].value.span = no
    BY <2>2, <2>3, ValueFound
  <2> QED BY <2>4
<1> QED BY <1>1, InvHolds, PTL

\* A FastCGI parameter that two keys share has one value.
THEOREM OneValuePerParameter == Spec => []ParametersAgree
<1>1. Inv => ParametersAgree
  <2> SUFFICES ASSUME Inv, fastcgi, NEW m \in DOMAIN sent, NEW n \in DOMAIN sent,
                      sent[m].name = sent[n].name
               PROVE  sent[m].value = sent[n].value
    BY DEF ParametersAgree
  <2>1. PICK e : sent = HeadersFrom(e)
    BY DEF Inv, SentInv
  <2>2. \A i1 \in DOMAIN sent :
          /\ sent[i1].name = make_fastcgi_span_context_key(span_context_keys[i1])
          /\ sent[i1].value = FirstValue(e, Suffix(span_context_keys[i1]))
    BY <2>1 DEF HeadersFrom, HeaderName
  <2>3. Suffix(span_context_keys[m]) = Suffix(span_context_keys[n])
    BY <2>2, SameParameter
  <2> QED BY <2>2, <2>3
<1> QED BY <1>1, InvHolds, PTL

\* The context is injected at most once in a block, whether Inject fails or not.
THEOREM InjectedOncePerBlock == Spec => []ExpandedOncePerBlock
<1>1. Inv => ExpandedOncePerBlock
  BY DEF Inv, CacheInv, ExpandedOncePerBlock
<1> QED BY <1>1, InvHolds, PTL

\* The keys of an expansion that are alike are those of its list.
LEMMA AlikeKeysOf ==
    ASSUME NEW no, NEW keys \in Seq(Seq(STRING)), NEW key
    PROVE  AlikeKeys(Expansion(no, keys), key) =
             {keys[j] : j \in {k \in DOMAIN keys : Alike(keys[k], key)}}
<1> DEFINE e == Expansion(no, keys)
<1>1. /\ DOMAIN e = DOMAIN keys
      /\ \A j \in DOMAIN keys : e[j][2].key = keys[j]
  BY DEF Expansion
<1> HIDE DEF e
<1>2. AlikeKeys(e, key) = {e[j][2].key : j \in {k \in DOMAIN e : Alike(e[k][2].key, key)}}
  BY DEF AlikeKeys, Range
<1>3. AlikeKeys(e, key) = {keys[j] : j \in {k \in DOMAIN keys : Alike(keys[k], key)}}
  BY <1>1, <1>2
<1> QED BY <1>3 DEF e

\* What a header carries was given for a key alike to its own, and for its own
\* if the tracer set that one and no other alike.
THEOREM HeadersCarryOwnContext == Spec => HeadersCarryContext
<1>1. ASSUME Inv, Inv', [Next]_vars, sent' # sent, NEW n \in DOMAIN sent'
      PROVE  CarriesContext(sent'[n], span_context_keys[n], span_context_expansion')
  <2> DEFINE key == span_context_keys[n]
             alike == AlikeKeys(span_context_expansion', key)
  <2>1. CreateUpstreamRequest
    BY <1>1 DEF Next, vars, ngx_list_push, extract_span_context, for_each, StartRequest,
                ChangeBlock, expand_opentracing_context_variable
  <2>2. PICK no \in Nat, keys \in Seq(Seq(STRING)) :
          span_context_expansion' = Expansion(no, keys)
    BY <1>1 DEF Inv, IsExpansion
  <2>3. sent'[n].value = FirstValue(Expansion(no, keys), Suffix(key))
    BY <1>1, <2>1, <2>2 DEF CreateUpstreamRequest
  <2>4. alike = {keys[j] : j \in {k \in DOMAIN keys : Alike(keys[k], key)}}
    BY <2>2, AlikeKeysOf
  <2> HIDE DEF alike
  <2>5. \/ sent'[n].value = Empty /\ alike = {}
        \/ sent'[n].value.key \in alike
    <3>1. CASE \A j \in DOMAIN keys : ~Alike(keys[j], key)
      BY <2>3, <2>4, <3>1, ValueFound
    <3>2. CASE \E j \in DOMAIN keys : Alike(keys[j], key)
      <4>1. PICK j \in DOMAIN keys :
              Alike(keys[j], key) /\ sent'[n].value = [span |-> no, key |-> keys[j]]
        BY <2>3, <3>2, ValueFound
      <4> QED BY <2>4, <4>1
    <3> QED BY <3>1, <3>2
  <2>6. /\ sent'[n].value.key \in alike \cup {Empty.key}
        /\ alike = {key} => sent'[n].value.key = key
    BY <2>5
  <2> QED BY <2>6 DEF alike, CarriesContext
<1>2. Inv /\ Inv' /\ [Next]_vars =>
        (sent' # sent =>
           \A n \in DOMAIN sent' :
             CarriesContext(sent'[n], span_context_keys[n], span_context_expansion'))
  BY <1>1
<1> QED BY <1>2, InvHolds, PTL DEF Spec, HeadersCarryContext
=============================================================================
