----------------------- MODULE XCodecPipeCodecProofs ------------------------
(***************************************************************************)
(* What the encoder and the decoder of an XCodecPipePair do, for every     *)
(* buffer, window and cache.                                               *)
(***************************************************************************)
EXTENDS XCodecPipeTrace, TLAPS

-----------------------------------------------------------------------------
(***************************************************************************)
(* Windows.                                                                *)
(***************************************************************************)

\* Membership in a set of maps, as a fact about the map.
LEMMA MapFacts ==
  ASSUME NEW K, NEW V, NEW m
  PROVE  m \in MapOf(K, V) <=> /\ m = [x \in DOMAIN m |-> m[x]]
                              /\ DOMAIN m \subseteq K
                              /\ \A x \in DOMAIN m : m[x] \in V
  BY DEF MapOf

\* The empty map is a map.
LEMMA EmptyMapType == ASSUME NEW K, NEW V PROVE EmptyMap \in MapOf(K, V)
<1>1. {} \in SUBSET K /\ EmptyMap \in [{} -> V]
  BY Zenon DEF EmptyMap
<1>2. QED
  BY <1>1, Zenon DEF MapOf

\* Insert and Erase preserve the type of a map.
LEMMA InsertType ==
  ASSUME NEW K, NEW V, NEW m \in MapOf(K, V), NEW k \in K, NEW v \in V
  PROVE  Insert(m, k, v) \in MapOf(K, V)
  BY MapFacts DEF Insert

\* Erasing a key from a map leaves a map of the same type.
LEMMA EraseType ==
  ASSUME NEW K, NEW V, NEW m \in MapOf(K, V), NEW k
  PROVE  Erase(m, k) \in MapOf(K, V)
  BY MapFacts DEF Erase

\* The window starts out consistent.
LEMMA EmptyWindowInv == WindowInv(EmptyWindow)
<1>1. EmptyWindow \in Window
  BY WindowAssumption, EmptyMapType DEF Window, EmptyWindow, Slot
<1>2. QED
  BY <1>1, Zenon DEF WindowInv, EmptyWindow, EmptyMap

\* XCodecWindow::declare keeps present_ the inverse of window_.
LEMMA DeclareInv ==
  ASSUME NEW w, WindowInv(w), NEW hash \in Hash, NEW seg \in Segment
  PROVE  WindowInv(Declare(w, hash, seg))
<1>1. CASE hash = 0 \/ hash \in DOMAIN w.present
  BY <1>1, Zenon DEF Declare
<1>2. CASE hash # 0 /\ hash \notin DOMAIN w.present
  <2> DEFINE old == w.window[w.cursor]
             x == Declare(w, hash, seg)
  <2>1. x = [window   |-> [w.window EXCEPT ![w.cursor] = hash],
             cursor   |-> (w.cursor + 1) % WINDOW_COUNT,
             present  |-> Insert(Erase(w.present, old), hash, w.cursor),
             segments |-> Insert(Erase(w.segments, old), hash, seg)]
    BY <1>2, Zenon DEF Declare
  <2>2. /\ w.window \in [Slot -> Hash \cup {0}] /\ w.cursor \in Slot
        /\ w.present \in MapOf(Hash \ {0}, Slot)
        /\ w.segments \in MapOf(Hash \ {0}, Segment)
        /\ DOMAIN w.segments = DOMAIN w.present
        /\ \A h \in DOMAIN w.present : w.present[h] \in Slot
    BY MapFacts DEF WindowInv, Window
  <2>3. /\ x.window = [w.window EXCEPT ![w.cursor] = hash]
        /\ x.cursor = (w.cursor + 1) % WINDOW_COUNT
        /\ x.present = Insert(Erase(w.present, old), hash, w.cursor)
        /\ x.segments = Insert(Erase(w.segments, old), hash, seg)
    BY <2>1
  <2>4. x.cursor \in Slot
    BY <2>2, <2>3, WindowAssumption DEF Slot
  <2>5. /\ DOMAIN x.present = (DOMAIN w.present \ {old}) \cup {hash}
        /\ DOMAIN x.segments = DOMAIN x.present
        /\ \A h \in DOMAIN x.present :
             x.present[h] = IF h = hash THEN w.cursor ELSE w.present[h]
    BY <2>2, <2>3, Zenon DEF Insert, Erase
  <2>6. x.present \in MapOf(Hash \ {0}, Slot)
    <3>1. Erase(w.present, old) \in MapOf(Hash \ {0}, Slot)
      BY <2>2, EraseType, Zenon
    <3>2. hash \in Hash \ {0} /\ w.cursor \in Slot
      BY <1>2, <2>2, Zenon
    <3>3. QED
      BY <2>3, <3>1, <3>2, InsertType
  <2>7. x.segments \in MapOf(Hash \ {0}, Segment)
    <3>1. Erase(w.segments, old) \in MapOf(Hash \ {0}, Segment)
      BY <2>2, EraseType, Zenon
    <3>2. QED
      BY <1>2, <2>2, <2>3, <3>1, InsertType
  <2>8. x \in Window
    BY <2>1, <2>2, <2>3, <2>4, <2>6, <2>7, Zenon DEF Window
  <2>9. \A h \in DOMAIN x.present : x.window[x.present[h]] = h
    <3>1. \A h \in DOMAIN w.present : w.window[w.present[h]] = h
      BY Zenon DEF WindowInv
    <3>2. QED
      BY <2>2, <2>3, <2>5, <3>1, SMTT(30)
  <2>10. \A c \in Slot : x.window[c] # 0 => /\ x.window[c] \in DOMAIN x.present
                                            /\ x.present[x.window[c]] = c
    BY <1>2, <2>2, <2>3, <2>5, SMTT(30) DEF WindowInv
  <2>11. QED
    BY <2>5, <2>8, <2>9, <2>10, Zenon DEF WindowInv
<1>3. QED
  BY <1>1, <1>2, Zenon

\* A consistent window passes every ASSERT of XCodecWindow.
LEMMA InvAsserts ==
  ASSUME NEW w, WindowInv(w)
  PROVE  AssertsHold(w)
  BY Zenon DEF WindowInv, Window, AssertsHold, Holds

\* The segments a window refers to are cached once the declared one is.
LEMMA DeclareSubMap ==
  ASSUME NEW w, NEW m, NEW hash \in Hash, NEW seg \in Segment,
         SubMap(w.segments, m), hash \in DOMAIN m, m[hash] = seg
  PROVE  SubMap(Declare(w, hash, seg).segments, m)
  BY Zenon DEF Declare, SubMap, Insert, Erase
-----------------------------------------------------------------------------
(***************************************************************************)
(* Induction.                                                              *)
(***************************************************************************)

\* Induction on the natural numbers, for the members of a set.
LEMMA InductiveSet ==
  ASSUME Induction, NEW T, 0 \in T, \A n \in Nat : n \in T => n + 1 \in T
  PROVE  \A n \in Nat : n \in T
  BY Zenon DEF Induction

\* Induction along a function on 0..n, whose values lie in sets of their own.
LEMMA InductiveValues ==
    ASSUME Induction, NEW n \in Nat, NEW c, NEW S, c[0] \in S[0],
           \A i \in 1..n : c[i - 1] \in S[i - 1] => c[i] \in S[i]
    PROVE  \A i \in 0..n : c[i] \in S[i]
<1> DEFINE T == {i \in Nat : i <= n => c[i] \in S[i]}
<1>1. 0 \in T
  OBVIOUS
<1>2. ASSUME NEW i \in Nat, i \in T PROVE i + 1 \in T
  <2> SUFFICES ASSUME i + 1 <= n PROVE c[i + 1] \in S[i + 1]
    OBVIOUS
  <2>1. i + 1 \in 1..n /\ i + 1 - 1 = i /\ c[i] \in S[i]
    BY <1>2
  <2> QED
    BY <2>1
<1>3. \A i \in Nat : i \in T
  <2> HIDE DEF T
  <2> QED
    BY <1>1, <1>2, InductiveSet, Zenon
<1> QED
  BY <1>3
-----------------------------------------------------------------------------
(***************************************************************************)
(* XCodecDecoder::decode follows the trace as far as the hashes are known. *)
(***************************************************************************)

\* The state in which decode starts.
DecodeStart(window, known) ==
    [rest |-> <<>>, output |-> <<>>, window |-> window, cache |-> known,
     unknown |-> {}, stop |-> FALSE, error |-> FALSE]

\* c[i] is the state of the decoder after i units.
DecodesBy(c, window, known, units) ==
    /\ c[0] = DecodeStart(window, known)
    /\ \A i \in 1..Len(units) : c[i] = DecodeUnit(c[i - 1], units[i])
    /\ Decode(window, known, units) = c[Len(units)]

\* decode is as many steps of the decoder as there are units.
LEMMA DecodeUnfold ==
  ASSUME Induction, NEW window, NEW known, NEW units, Len(units) \in Nat
  PROVE  \E c : DecodesBy(c, window, known, units)
<1> DEFINE n == Len(units)
           b == DecodeStart(window, known)
           D(m, k) == k = [i \in 0..m |-> IF i = 0 THEN b ELSE DecodeUnit(k[i - 1], units[i])]
           T == {m \in Nat : \E k : D(m, k)}
<1>1. 0 \in T
  <2>1. D(0, [i \in 0..0 |-> b])
    OBVIOUS
  <2> QED
    BY <2>1, Zenon
<1>2. ASSUME NEW m \in Nat, m \in T PROVE m + 1 \in T
  <2>1. PICK k : D(m, k)
    BY <1>2, Zenon
  <2> DEFINE k2 == [i \in 0..(m + 1) |-> IF i <= m THEN k[i] ELSE DecodeUnit(k[m], units[m + 1])]
  <2>2. ASSUME NEW i \in 0..(m + 1)
        PROVE  k2[i] = IF i = 0 THEN b ELSE DecodeUnit(k2[i - 1], units[i])
    <3>1. CASE i <= m
      <4>1. i \in 0..m /\ k2[i] = k[i] /\ (i # 0 => i - 1 \in 0..(m + 1) /\ k2[i - 1] = k[i - 1])
        BY <3>1
      <4>2. k[i] = IF i = 0 THEN b ELSE DecodeUnit(k[i - 1], units[i])
        BY <2>1, <4>1, Zenon
      <4> HIDE DEF k2, b
      <4> QED
        BY <4>1, <4>2, Zenon
    <3>2. CASE i = m + 1
      BY <3>2
    <3> QED
      BY <3>1, <3>2
  <2>3. k2 = [i \in 0..(m + 1) |-> k2[i]]
    OBVIOUS
  <2>4. D(m + 1, k2)
    <3> HIDE DEF k2, b
    <3> QED
      BY <2>2, <2>3, Zenon
  <2>5. m + 1 \in Nat /\ \E k3 : D(m + 1, k3)
    <3> HIDE DEF k2
    <3> QED
      BY <2>4
  <2> QED
    BY <2>5, Zenon
<1>3. n \in T
  <2> HIDE DEF T
  <2> QED
    BY <1>1, <1>2, InductiveSet, Zenon
<1> DEFINE c == CHOOSE k : D(n, k)
<1>4. D(n, c)
  BY <1>3, Zenon
<1>5. c[0] = b /\ \A i \in 1..n : c[i] = DecodeUnit(c[i - 1], units[i])
  <2> HIDE DEF c, b
  <2> QED
    BY <1>4
<1>6. Decode(window, known, units) = c[n]
  BY Zenon DEF Decode, DecodeStart
<1> QED
  BY <1>5, <1>6, Zenon DEF DecodesBy

\* Of i units the first j are decoded, as the trace has it; the others are left
\* over because they are half a symbol, or a <REF> to an unknown hash and what
\* follows it.
DecodedAt(d, i, j, U, T, G, V) ==
    /\ d \in DecoderState /\ SubMap(d.cache, G)
    /\ j \in 0..i /\ ~T[j].inside /\ d.window = T[j].win /\ V \o d.output = T[j].out
    /\ Len(d.rest) = i - j /\ \A k \in 1..(i - j) : d.rest[k] = U[j + k]
    /\ d.stop => /\ i - j >= 2 /\ U[j + 1].op = "MAGIC" /\ U[j + 2].op = "REF"
                 /\ d.unknown = {U[j + 2].hash}
    /\ ~d.stop => /\ d.unknown = {}
                  /\ j = i \/ (i - j = 1 /\ U[i].op = "MAGIC")
    /\ j > 0 => d.output # <<>>

\* The members of a unit depend on its kind.
LEMMA UnitFacts ==
  ASSUME NEW u \in Unit
  PROVE  /\ u.op \in {"MAGIC", "ESCAPE", "EXTRACT", "REF", "BACKREF"}
         /\ u.op \in {"ESCAPE", "EXTRACT"} => u.seg \in Segment
         /\ u.op = "REF" => u.hash \in Hash
         /\ u.op = "BACKREF" => u.slot \in Slot
  BY Zenon DEF Unit

\* The members of the decoder's state.
LEMMA DecoderFacts ==
  ASSUME NEW d \in DecoderState
  PROVE  /\ d.rest \in Seq(Unit) /\ d.output \in Seq(Segment) /\ d.window \in Window
         /\ d.cache \in MapOf(Hash, Segment) /\ d.unknown \in SUBSET Hash
         /\ d.stop \in BOOLEAN /\ d.error = FALSE
  BY Zenon DEF DecoderState

\* Appending to what is output appends to everything that was output.
LEMMA AppendConcat ==
  ASSUME NEW E, NEW V \in Seq(E), NEW o \in Seq(E), NEW x \in E
  PROVE  V \o Append(o, x) = Append(V \o o, x) /\ Append(o, x) # <<>>
<1>1. V \o Append(o, x) \in Seq(E) /\ Append(V \o o, x) \in Seq(E)
  OBVIOUS
<1>2. Len(V \o Append(o, x)) = Len(Append(V \o o, x))
  OBVIOUS
<1>3. ASSUME NEW i \in 1..Len(V \o Append(o, x))
      PROVE  (V \o Append(o, x))[i] = Append(V \o o, x)[i]
  <2>1. CASE i <= Len(V)
    BY <2>1
  <2>2. CASE i > Len(V) /\ i <= Len(V) + Len(o)
    BY <2>2
  <2>3. CASE i = Len(V) + Len(o) + 1
    BY <2>3
  <2> QED
    BY <2>1, <2>2, <2>3
<1> QED
  BY <1>1, <1>2, <1>3

\* A unit that completes a symbol: everything up to it is decoded.
LEMMA DecodeSymbol ==
  ASSUME NEW d, NEW i \in Nat, NEW j, NEW U, NEW T, NEW G, NEW V \in Seq(Segment), NEW d2,
         DecodedAt(d, i, j, U, T, G, V), ~d.stop,
         NEW seg \in Segment, T[j].out \in Seq(Segment),
         T[i + 1].out = Append(T[j].out, seg), ~T[i + 1].inside, T[i + 1].win \in Window,
         d2 \in DecoderState, SubMap(d2.cache, G),
         d2.rest = <<>>, d2.output = Append(d.output, seg), d2.window = T[i + 1].win,
         d2.unknown = d.unknown, d2.stop = d.stop
  PROVE  DecodedAt(d2, i + 1, i + 1, U, T, G, V)
<1>1. d.output \in Seq(Segment) /\ V \o d.output = T[j].out
  BY DecoderFacts, Zenon DEF DecodedAt
<1>2. V \o d2.output = T[i + 1].out /\ d2.output # <<>>
  <2>1. V \o Append(d.output, seg) = Append(V \o d.output, seg) /\ Append(d.output, seg) # <<>>
    BY <1>1, AppendConcat, Zenon
  <2> QED
    BY <1>1, <2>1, Zenon
<1>3. /\ i + 1 \in 0..(i + 1) /\ (i + 1) - (i + 1) = 0 /\ Len(d2.rest) = 0
      /\ 1..0 = {}
  OBVIOUS
<1>4. ~d2.stop /\ d.unknown = {} /\ d2.unknown = {}
  BY Zenon DEF DecodedAt
<1> QED
  BY <1>2, <1>3, <1>4, Zenon DEF DecodedAt

\* One more unit.
LEMMA DecodeUnitStep ==
  ASSUME NEW d, NEW i \in Nat, NEW j, NEW U \in Seq(Unit), NEW T, NEW G,
         NEW V \in Seq(Segment), i + 1 \in 1..Len(U), G \in MapOf(Hash, Segment),
         IsTrace(G, U, T), DecodedAt(d, i, j, U, T, G, V)
  PROVE  \E j2 : DecodedAt(DecodeUnit(d, U[i + 1]), i + 1, j2, U, T, G, V)
<1> DEFINE u == U[i + 1]
           d2 == DecodeUnit(d, u)
<1>1. u \in Unit /\ i \in 0..Len(U) /\ i + 1 \in 0..Len(U) /\ (i + 1) - 1 = i
  OBVIOUS
<1>2. TraceState(G, T[i]) /\ TraceState(G, T[i + 1]) /\ TraceStep(G, T[i], u, T[i + 1])
  BY <1>1, Zenon DEF IsTrace
<1>3. /\ d \in DecoderState /\ d.rest \in Seq(Unit) /\ d.output \in Seq(Segment)
      /\ d.window \in Window /\ d.cache \in MapOf(Hash, Segment) /\ d.unknown \in SUBSET Hash
      /\ d.stop \in BOOLEAN /\ d.error = FALSE /\ SubMap(d.cache, G)
      /\ j \in 0..i /\ j \in Nat
  <2>1. d \in DecoderState /\ SubMap(d.cache, G) /\ j \in 0..i
    BY Zenon DEF DecodedAt
  <2>2. j \in Nat
    BY <2>1
  <2> QED
    BY <2>1, <2>2, DecoderFacts, Zenon
<1>4. TraceState(G, T[j])
  BY <1>1, <1>3 DEF IsTrace
<1>5. ASSUME ~d.stop
      PROVE  /\ T[i].win = T[j].win /\ T[i].out = T[j].out
             /\ T[i].inside <=> j # i
             /\ Len(d.rest) = i - j
  <2>1. CASE j = i
    BY <1>2, <1>3, <1>5, <2>1, Zenon DEF DecodedAt, TraceState
  <2>2. CASE j # i
    <3>1. i - j = 1 /\ U[i].op = "MAGIC" /\ Len(d.rest) = i - j
      BY <1>5, <2>2, Zenon DEF DecodedAt
    <3>2. i \in 1..Len(U) /\ i - 1 = j
      <4>1. i \in 0..Len(U) /\ j \in 0..i /\ j # i /\ i - j = 1
        BY <1>1, <1>3, <2>2, <3>1, Zenon
      <4> QED
        BY <4>1
    <3>3. TraceStep(G, T[i - 1], U[i], T[i])
      BY <3>2, Zenon DEF IsTrace
    <3>4. T[i].inside = TRUE /\ T[i].win = T[i - 1].win /\ T[i].out = T[i - 1].out
      BY <3>1, <3>3, Zenon DEF TraceStep
    <3> QED
      BY <2>2, <3>1, <3>2, <3>4, Zenon
  <2> QED
    BY <2>1, <2>2, Zenon
<1>6. CASE d.stop
  <2>1. d2 = [d EXCEPT !.rest = Append(@, u)]
    BY <1>6, Zenon DEF DecodeUnit
  <2>2. d2 \in DecoderState /\ d2.rest = Append(d.rest, u) /\ d2.output = d.output
        /\ d2.window = d.window /\ d2.cache = d.cache /\ d2.unknown = d.unknown /\ d2.stop = d.stop
    <3>1. Append(d.rest, u) \in Seq(Unit)
      BY <1>1, <1>3
    <3> HIDE DEF d2, u
    <3> QED
      BY <1>3, <2>1, <3>1, Zenon DEF DecoderState
  <2>3. Len(d2.rest) = (i + 1) - j /\ \A k \in 1..((i + 1) - j) : d2.rest[k] = U[j + k]
    <3>1. Len(d.rest) = i - j /\ \A k \in 1..(i - j) : d.rest[k] = U[j + k]
      BY Zenon DEF DecodedAt
    <3>2. j + ((i + 1) - j) = i + 1
      BY <1>3
    <3> QED
      BY <1>1, <1>3, <2>2, <3>1, <3>2
  <2>4. DecodedAt(d2, i + 1, j, U, T, G, V)
    <3> HIDE DEF d2
    <3>1. /\ ~T[j].inside /\ d2.window = T[j].win /\ V \o d2.output = T[j].out
          /\ i - j >= 2 /\ U[j + 1].op = "MAGIC" /\ U[j + 2].op = "REF"
          /\ d2.unknown = {U[j + 2].hash} /\ (j > 0 => d2.output # <<>>)
      BY <1>6, <2>2, Zenon DEF DecodedAt
    <3>2. (i + 1) - j >= 2 /\ j \in 0..(i + 1)
      BY <1>3, <3>1
    <3> QED
      BY <1>3, <1>6, <2>2, <2>3, <3>1, <3>2, Zenon DEF DecodedAt
  <2> QED
    BY <2>4, Zenon
<1>7. CASE ~d.stop /\ u.op = "MAGIC"
  <2>1. d2 = [d EXCEPT !.rest = <<u>>]
    BY <1>7, Zenon DEF DecodeUnit
  <2>2. d2 \in DecoderState /\ d2.rest = <<u>> /\ d2.output = d.output
        /\ d2.window = d.window /\ d2.cache = d.cache /\ d2.unknown = d.unknown /\ d2.stop = d.stop
    <3>1. <<u>> \in Seq(Unit)
      BY <1>1
    <3> HIDE DEF d2, u
    <3> QED
      BY <1>3, <2>1, <3>1, Zenon DEF DecoderState
  <2>3. j = i
    BY <1>2, <1>5, <1>7, Zenon DEF TraceStep
  <2>4. DecodedAt(d2, i + 1, j, U, T, G, V)
    <3> HIDE DEF d2
    <3>1. /\ Len(d2.rest) = (i + 1) - j /\ (i + 1) - j = 1 /\ j \in 0..(i + 1)
          /\ \A k \in 1..((i + 1) - j) : d2.rest[k] = U[j + k]
      BY <1>3, <2>2, <2>3
    <3>2. /\ ~T[j].inside /\ d2.window = T[j].win /\ V \o d2.output = T[j].out
          /\ d2.unknown = {} /\ (j > 0 => d2.output # <<>>)
      BY <1>7, <2>2, Zenon DEF DecodedAt
    <3> QED
      BY <1>3, <1>7, <2>2, <3>1, <3>2, Zenon DEF DecodedAt
  <2> QED
    BY <2>4, Zenon
<1>8. CASE ~d.stop /\ u.op = "ESCAPE"
  <2>1. d2 = [d EXCEPT !.output = Append(@, u.seg)]
    BY <1>8, Zenon DEF DecodeUnit
  <2>2. u.seg \in Segment
    BY <1>1, <1>8, UnitFacts, Zenon
  <2>3. d2 \in DecoderState /\ d2.rest = d.rest /\ d2.output = Append(d.output, u.seg)
        /\ d2.window = d.window /\ d2.cache = d.cache /\ d2.unknown = d.unknown /\ d2.stop = d.stop
    <3>1. Append(d.output, u.seg) \in Seq(Segment)
      BY <1>3, <2>2
    <3> HIDE DEF d2, u
    <3> QED
      BY <1>3, <2>1, <3>1, Zenon DEF DecoderState
  <2>4. j = i
    BY <1>2, <1>5, <1>8, Zenon DEF TraceStep
  <2>5. d2.rest = <<>>
    BY <1>3, <1>5, <1>8, <2>3, <2>4
  <2>6. /\ T[i + 1].out = Append(T[j].out, u.seg) /\ ~T[i + 1].inside
        /\ T[i + 1].win = T[j].win
    BY <1>2, <1>8, <2>4, Zenon DEF TraceStep
  <2>7. T[i + 1].win \in Window /\ T[j].out \in Seq(Segment) /\ d.window = T[j].win
    BY <1>2, <1>4, Zenon DEF TraceState, WindowInv, DecodedAt
  <2>8. DecodedAt(d2, i + 1, i + 1, U, T, G, V)
    <3> HIDE DEF d2, u
    <3> QED
      BY <1>3, <1>8, <2>2, <2>3, <2>5, <2>6, <2>7, DecodeSymbol, Zenon
  <2> QED
    BY <2>8, Zenon
<1>9. CASE ~d.stop /\ u.op = "EXTRACT"
  <2> DEFINE hash == HashOf[u.seg]
             known == IF hash \in DOMAIN d.cache THEN d.cache ELSE Insert(d.cache, hash, u.seg)
  <2>1. u.seg \in Segment /\ hash \in Hash /\ Known(G, u.seg)
    BY <1>1, <1>2, <1>9, UnitFacts, PipeAssumption, Zenon DEF TraceStep
  <2>2. hash \in DOMAIN d.cache => d.cache[hash] = u.seg
    BY <1>3, <2>1, Zenon DEF SubMap, Known
  <2>3. d2 = [d EXCEPT !.rest = <<>>, !.output = Append(@, u.seg),
                       !.window = Declare(@, hash, u.seg), !.cache = known]
    <3>1. CASE hash \in DOMAIN d.cache
      BY <1>9, <2>2, <3>1, Zenon DEF DecodeUnit, DecoderState
    <3>2. CASE hash \notin DOMAIN d.cache
      BY <1>9, <3>2, Zenon DEF DecodeUnit
    <3> QED
      BY <3>1, <3>2, Zenon
  <2>4. known \in MapOf(Hash, Segment) /\ SubMap(known, G)
    BY <1>3, <2>1, InsertType, Zenon DEF SubMap, Known, Insert
  <2>5. d.window = T[i].win /\ T[i].out = T[j].out
    BY <1>5, <1>9, Zenon DEF DecodedAt
  <2>6. /\ T[i + 1].out = Append(T[j].out, u.seg) /\ ~T[i + 1].inside
        /\ T[i + 1].win = Declare(d.window, hash, u.seg)
    BY <1>2, <1>9, <2>5, Zenon DEF TraceStep
  <2>7. T[i + 1].win \in Window /\ T[j].out \in Seq(Segment)
    BY <1>2, <1>4, Zenon DEF TraceState, WindowInv
  <2>8. d2 \in DecoderState /\ d2.rest = <<>> /\ d2.output = Append(d.output, u.seg)
        /\ d2.window = T[i + 1].win /\ d2.cache = known /\ d2.unknown = d.unknown
        /\ d2.stop = d.stop
    <3>1. Append(d.output, u.seg) \in Seq(Segment) /\ <<>> \in Seq(Unit)
      BY <1>3, <2>1
    <3> HIDE DEF d2, u, known, hash
    <3> QED
      BY <1>3, <2>3, <2>4, <2>6, <2>7, <3>1, Zenon DEF DecoderState
  <2>9. DecodedAt(d2, i + 1, i + 1, U, T, G, V)
    <3> HIDE DEF d2, u, known, hash
    <3> QED
      BY <1>3, <1>9, <2>1, <2>4, <2>6, <2>7, <2>8, DecodeSymbol, Zenon
  <2> QED
    BY <2>9, Zenon
<1>10. CASE ~d.stop /\ u.op = "REF" /\ u.hash \in DOMAIN d.cache
  <2> DEFINE seg == d.cache[u.hash]
  <2>1. d2 = [d EXCEPT !.rest = <<>>, !.output = Append(@, seg),
                       !.window = Declare(@, u.hash, seg)]
    BY <1>10, Zenon DEF DecodeUnit
  <2>2. seg \in Segment /\ u.hash \in DOMAIN G /\ seg = G[u.hash]
    BY <1>3, <1>10, MapFacts, Zenon DEF SubMap
  <2>5. d.window = T[i].win /\ T[i].out = T[j].out
    BY <1>5, <1>10, Zenon DEF DecodedAt
  <2>6. /\ T[i + 1].out = Append(T[j].out, seg) /\ ~T[i + 1].inside
        /\ T[i + 1].win = Declare(d.window, u.hash, seg)
    BY <1>2, <1>10, <2>2, <2>5, Zenon DEF TraceStep
  <2>7. T[i + 1].win \in Window /\ T[j].out \in Seq(Segment)
    BY <1>2, <1>4, Zenon DEF TraceState, WindowInv
  <2>8. d2 \in DecoderState /\ d2.rest = <<>> /\ d2.output = Append(d.output, seg)
        /\ d2.window = T[i + 1].win /\ d2.cache = d.cache /\ d2.unknown = d.unknown
        /\ d2.stop = d.stop
    <3>1. Append(d.output, seg) \in Seq(Segment) /\ <<>> \in Seq(Unit)
      BY <1>3, <2>2
    <3> HIDE DEF d2, u, seg
    <3> QED
      BY <1>3, <2>1, <2>6, <2>7, <3>1, Zenon DEF DecoderState
  <2>9. DecodedAt(d2, i + 1, i + 1, U, T, G, V)
    <3> HIDE DEF d2, u, seg
    <3> QED
      BY <1>3, <1>10, <2>2, <2>6, <2>7, <2>8, DecodeSymbol, Zenon
  <2> QED
    BY <2>9, Zenon
<1>11. CASE ~d.stop /\ u.op = "REF" /\ u.hash \notin DOMAIN d.cache
  <2>1. d2 = [d EXCEPT !.unknown = @ \cup {u.hash}, !.stop = TRUE, !.rest = Append(@, u)]
    BY <1>11, Zenon DEF DecodeUnit
  <2>2. u.hash \in Hash
    BY <1>1, <1>11, UnitFacts, Zenon
  <2>3. j # i
    BY <1>2, <1>5, <1>11, Zenon DEF TraceStep
  <2>4. /\ i - j = 1 /\ U[i].op = "MAGIC" /\ d.unknown = {} /\ Len(d.rest) = i - j
        /\ \A k \in 1..(i - j) : d.rest[k] = U[j + k]
    BY <1>11, <2>3, Zenon DEF DecodedAt
  <2>5. d2 \in DecoderState /\ d2.rest = Append(d.rest, u) /\ d2.output = d.output
        /\ d2.window = d.window /\ d2.cache = d.cache /\ d2.unknown = {u.hash} /\ d2.stop = TRUE
    <3>1. Append(d.rest, u) \in Seq(Unit) /\ d.unknown \cup {u.hash} = {u.hash}
      BY <1>1, <1>3, <2>4
    <3> HIDE DEF d2, u
    <3> QED
      BY <1>3, <2>1, <2>2, <3>1, Zenon DEF DecoderState
  <2>6. /\ j + 1 = i /\ j + 2 = i + 1 /\ (i + 1) - j = 2 /\ j \in 0..(i + 1)
    BY <1>3, <2>4
  <2>7. Len(d2.rest) = (i + 1) - j /\ \A k \in 1..((i + 1) - j) : d2.rest[k] = U[j + k]
    <3> HIDE DEF d2
    <3>1. Len(d2.rest) = 2 /\ d2.rest[1] = U[j + 1] /\ d2.rest[2] = u
      BY <1>1, <1>3, <2>4, <2>5
    <3>2. \A k \in 1..2 : k = 1 \/ k = 2
      OBVIOUS
    <3> QED
      BY <2>6, <3>1, <3>2, Zenon
  <2>8. DecodedAt(d2, i + 1, j, U, T, G, V)
    <3> HIDE DEF d2
    <3>1. /\ ~T[j].inside /\ d2.window = T[j].win /\ V \o d2.output = T[j].out
          /\ (j > 0 => d2.output # <<>>)
      BY <2>5, Zenon DEF DecodedAt
    <3>2. U[j + 1].op = "MAGIC" /\ U[j + 2].op = "REF" /\ d2.unknown = {U[j + 2].hash}
      BY <1>11, <2>4, <2>5, <2>6, Zenon
    <3>3. (i + 1) - j >= 2 /\ SubMap(d2.cache, G) /\ j \in 0..(i + 1)
      BY <1>3, <2>5, <2>6
    <3> QED
      BY <2>5, <2>7, <3>1, <3>2, <3>3, Zenon DEF DecodedAt
  <2> QED
    BY <2>8, Zenon
<1>12. CASE ~d.stop /\ u.op = "BACKREF"
  <2> DEFINE seg == Dereference(d.window, u.slot)
  <2>1. d.window = T[i].win /\ T[i].out = T[j].out
    BY <1>5, <1>12, Zenon DEF DecodedAt
  <2>2. Holds(d.window, u.slot) /\ u.slot \in Slot
    BY <1>1, <1>2, <1>12, <2>1, UnitFacts, Zenon DEF TraceStep
  <2>3. d2 = [d EXCEPT !.rest = <<>>, !.output = Append(@, seg)]
    BY <1>12, <2>2, Zenon DEF DecodeUnit
  <2>4. seg \in Segment
    <3>1. WindowInv(d.window)
      BY <1>2, <2>1, Zenon DEF TraceState
    <3>2. d.window.window[u.slot] \in DOMAIN d.window.segments
      BY <2>2, <3>1, InvAsserts, Zenon DEF AssertsHold
    <3>3. d.window.segments \in MapOf(Hash \ {0}, Segment)
      BY <3>1, Zenon DEF WindowInv, Window
    <3> QED
      BY <3>2, <3>3, MapFacts DEF Dereference
  <2>6. /\ T[i + 1].out = Append(T[j].out, seg) /\ ~T[i + 1].inside
        /\ T[i + 1].win = d.window
    BY <1>2, <1>12, <2>1, Zenon DEF TraceStep
  <2>7. T[i + 1].win \in Window /\ T[j].out \in Seq(Segment)
    BY <1>2, <1>4, Zenon DEF TraceState, WindowInv
  <2>8. d2 \in DecoderState /\ d2.rest = <<>> /\ d2.output = Append(d.output, seg)
        /\ d2.window = T[i + 1].win /\ d2.cache = d.cache /\ d2.unknown = d.unknown
        /\ d2.stop = d.stop
    <3>1. Append(d.output, seg) \in Seq(Segment) /\ <<>> \in Seq(Unit)
      BY <1>3, <2>4
    <3> HIDE DEF d2, u, seg
    <3> QED
      BY <1>3, <2>3, <2>6, <3>1, Zenon DEF DecoderState
  <2>9. DecodedAt(d2, i + 1, i + 1, U, T, G, V)
    <3> HIDE DEF d2, u, seg
    <3> QED
      BY <1>3, <1>12, <2>4, <2>6, <2>7, <2>8, DecodeSymbol, Zenon
  <2> QED
    BY <2>9, Zenon
<1> QED
  <2>1. u.op \in {"MAGIC", "ESCAPE", "EXTRACT", "REF", "BACKREF"}
    BY <1>1, UnitFacts, Zenon
  <2> QED
    BY <1>3, <1>6, <1>7, <1>8, <1>9, <1>10, <1>11, <1>12, <2>1, Zenon

\* What decoding the frame data B leaves to do: B is the beginning of U.
LEMMA DecodeFollowsTrace ==
  ASSUME Induction, NEW B \in Seq(Unit), NEW U \in Seq(Unit), NEW T, NEW G \in MapOf(Hash, Segment),
         NEW V \in Seq(Segment), NEW known \in MapOf(Hash, Segment), NEW window,
         IsTrace(G, U, T), Len(B) <= Len(U), \A i \in 1..Len(B) : B[i] = U[i],
         T[0].win = window, T[0].out = V, ~T[0].inside, SubMap(known, G)
  PROVE  \E j : DecodedAt(Decode(window, known, B), Len(B), j, U, T, G, V)
<1>1. Len(B) \in Nat
  OBVIOUS
<1>2. PICK c : DecodesBy(c, window, known, B)
  BY <1>1, DecodeUnfold, Zenon
<1> DEFINE S == [i \in 0..Len(B) |-> {d \in DecoderState : \E j : DecodedAt(d, i, j, U, T, G, V)}]
<1>3. c[0] \in S[0]
  <2>1. c[0] = DecodeStart(window, known)
    BY <1>2, Zenon DEF DecodesBy
  <2>2. window \in Window
    <3>1. 0 \in 0..Len(U)
      OBVIOUS
    <3> QED
      BY <3>1, Zenon DEF IsTrace, TraceState, WindowInv
  <2>3. c[0] \in DecoderState
    BY <2>1, <2>2 DEF DecodeStart, DecoderState
  <2>4. /\ c[0].rest = <<>> /\ c[0].output = <<>> /\ c[0].window = window /\ c[0].cache = known
        /\ c[0].unknown = {} /\ c[0].stop = FALSE
    BY <2>1 DEF DecodeStart
  <2>5. V \o c[0].output = T[0].out
    BY <2>4
  <2>6. DecodedAt(c[0], 0, 0, U, T, G, V)
    BY <2>3, <2>4, <2>5 DEF DecodedAt
  <2> QED
    BY <2>3, <2>6
<1>4. ASSUME NEW i \in 1..Len(B), c[i - 1] \in S[i - 1]
      PROVE  c[i] \in S[i]
  <2>1. i - 1 \in Nat /\ i - 1 \in 0..Len(B) /\ i \in 0..Len(B) /\ (i - 1) + 1 = i
        /\ (i - 1) + 1 \in 1..Len(U)
    BY <1>1
  <2>2. PICK j : DecodedAt(c[i - 1], i - 1, j, U, T, G, V)
    BY <1>4, <2>1, Zenon
  <2>3. c[i] = DecodeUnit(c[i - 1], U[i])
    BY <1>2, Zenon DEF DecodesBy
  <2>4. \E j2 : DecodedAt(DecodeUnit(c[i - 1], U[(i - 1) + 1]), (i - 1) + 1, j2, U, T, G, V)
    <3> HIDE DEF S
    <3> QED
      BY <2>1, <2>2, DecodeUnitStep, Zenon
  <2>5. \E j2 : DecodedAt(c[i], i, j2, U, T, G, V)
    <3> HIDE DEF S
    <3> QED
      BY <2>1, <2>3, <2>4, Zenon
  <2>6. c[i] \in DecoderState
    BY <2>5, Zenon DEF DecodedAt
  <2> QED
    BY <2>1, <2>5, <2>6, Zenon
<1>5. \A i \in 0..Len(B) : c[i] \in S[i]
  <2> HIDE DEF S
  <2> QED
    BY <1>1, <1>3, <1>4, InductiveValues, Zenon
<1>6. Decode(window, known, B) = c[Len(B)]
  BY <1>2, Zenon DEF DecodesBy
<1>7. c[Len(B)] \in S[Len(B)]
  BY <1>1, <1>5
<1> QED
  BY <1>1, <1>6, <1>7

\* After j units have been decoded, the rest of the trace is still to come.
LEMMA DecodeDelivers ==
  ASSUME Induction, NEW P, NEW P2, NEW Q, NEW C \in Seq(AnyMessage), NEW G, NEW S,
         NEW V \in Seq(Segment), NEW U, NEW pos, NEW T, NEW d, NEW j,
         Carries(P, Q, C, G, S, V, U, pos, T), P.decoder_frame_buffer \in Seq(Unit),
         DecodedAt(d, Len(P.decoder_frame_buffer), j, U, T, G, V),
         P2.decoder_frame_buffer = d.rest, P2.decoder_window = d.window
  PROVE  Delivers(P2, Q, C, G, S, V \o d.output)
<1> DEFINE B == P.decoder_frame_buffer
           n == Len(U) - j
           U2 == [i \in 1..n |-> U[i + j]]
           T2 == [i \in 0..n |-> T[i + j]]
           to == [i \in 0..Len(C) |-> pos[i] - j]
<1>1. Flat(B, C, U, pos) /\ IsTrace(G, U, T) /\ U \in Seq(Unit)
  BY Zenon DEF Carries, Flat
<1>2. /\ j \in 0..Len(B) /\ Len(B) \in Nat /\ Len(U) \in Nat /\ Len(C) \in Nat /\ j \in Nat
      /\ \A i \in 0..Len(C) : pos[i] \in 0..Len(U)
      /\ pos[0] = Len(B) /\ pos[Len(C)] = Len(U)
  <2>1. j \in 0..Len(B)
    BY Zenon DEF DecodedAt
  <2>2. Len(B) \in Nat /\ Len(U) \in Nat /\ Len(C) \in Nat
    BY <1>1
  <2>3. /\ pos \in [0..Len(C) -> 0..Len(U)]
        /\ pos[0] = Len(B) /\ pos[Len(C)] = Len(U)
    BY <1>1, Zenon DEF Flat
  <2>4. j \in Nat
    BY <2>1, <2>2
  <2> QED
    BY <2>1, <2>2, <2>3, <2>4, Zenon
<1>3. n \in Nat /\ U2 \in Seq(Unit) /\ Len(U2) = n
  BY <1>1, <1>2
<1>4. \A i \in 0..Len(C) : pos[i] >= Len(B)
  <2> DEFINE A == [i \in 0..Len(C) |-> {x \in Nat : x >= Len(B)}]
  <2>1. pos[0] \in A[0]
    BY <1>2
  <2>2. ASSUME NEW i \in 1..Len(C), pos[i - 1] \in A[i - 1] PROVE pos[i] \in A[i]
    <3>1. Piece(C[i], U, pos[i - 1], pos[i]) /\ C[i] \in AnyMessage
      BY <1>1 DEF Flat
    <3>2. i \in 0..Len(C) /\ i - 1 \in 0..Len(C) /\ pos[i] \in Nat /\ pos[i - 1] \in Nat
      BY <1>2
    <3>3. C[i].op = "FRAME" => Len(C[i].units) \in Nat
      BY <3>1 DEF AnyMessage, Message
    <3>4. pos[i] >= pos[i - 1]
      BY <3>1, <3>2, <3>3 DEF Piece
    <3>5. pos[i - 1] >= Len(B)
      BY <2>2, <3>2, Zenon
    <3> QED
      BY <1>2, <3>2, <3>4, <3>5
  <2>3. \A i \in 0..Len(C) : pos[i] \in A[i]
    <3> HIDE DEF A
    <3> QED
      BY <1>2, <2>1, <2>2, InductiveValues, Zenon
  <2> QED
    BY <2>3, Zenon
<1>5. Flat(d.rest, C, U2, to)
  <2>1. /\ d.rest \in Seq(Unit) /\ Len(d.rest) = Len(B) - j
        /\ \A k \in 1..(Len(B) - j) : d.rest[k] = U[j + k]
    BY DecoderFacts, Zenon DEF DecodedAt
  <2>2. to \in [0..Len(C) -> 0..Len(U2)] /\ to[0] = Len(d.rest) /\ to[Len(C)] = Len(U2)
    <3>1. \A i \in 0..Len(C) : pos[i] - j \in 0..n
      BY <1>2, <1>4
    <3>2. 0 \in 0..Len(C) /\ Len(C) \in 0..Len(C)
      BY <1>2
    <3>3. to[0] = Len(B) - j /\ to[Len(C)] = n
      BY <1>2, <3>2, Zenon
    <3> QED
      BY <1>3, <2>1, <3>1, <3>3, Zenon
  <2>3. ASSUME NEW i \in 1..Len(d.rest) PROVE d.rest[i] = U2[i]
    <3>1. Len(B) <= Len(U)
      BY <1>2
    <3>2. i \in 1..(Len(B) - j) /\ i \in 1..n /\ j + i = i + j
      BY <1>2, <2>1, <3>1
    <3> QED
      BY <2>1, <3>2, Zenon
  <2>4. ASSUME NEW i \in 1..Len(C) PROVE Piece(C[i], U2, to[i - 1], to[i])
    <3>1. Piece(C[i], U, pos[i - 1], pos[i]) /\ C[i] \in AnyMessage
      BY <1>1 DEF Flat
    <3>2. /\ i - 1 \in 0..Len(C) /\ i \in 0..Len(C) /\ to[i] = pos[i] - j
          /\ to[i - 1] = pos[i - 1] - j
          /\ pos[i] \in Nat /\ pos[i - 1] \in Nat /\ pos[i] <= Len(U) /\ pos[i - 1] >= Len(B)
      BY <1>2, <1>4
    <3>3. CASE C[i].op # "FRAME"
      BY <3>1, <3>2, <3>3, Zenon DEF Piece
    <3>4. CASE C[i].op = "FRAME"
      <4>1. C[i].units \in Seq(Unit) /\ Len(C[i].units) \in Nat
        BY <3>1, <3>4 DEF AnyMessage, Message
      <4>2. /\ pos[i] = pos[i - 1] + Len(C[i].units)
            /\ \A k \in 1..Len(C[i].units) : C[i].units[k] = U[pos[i - 1] + k]
        BY <3>1, <3>4, Zenon DEF Piece
      <4>3. to[i] = to[i - 1] + Len(C[i].units)
        BY <1>2, <3>2, <4>1, <4>2
      <4>4. ASSUME NEW k \in 1..Len(C[i].units) PROVE C[i].units[k] = U2[to[i - 1] + k]
        <5>1. to[i - 1] + k \in 1..n /\ (to[i - 1] + k) + j = pos[i - 1] + k
          <6> DEFINE a == pos[i - 1]
                     l == Len(C[i].units)
          <6>1. /\ a \in Nat /\ l \in Nat /\ a + l <= Len(U) /\ a >= Len(B) /\ j <= Len(B)
                /\ k \in 1..l /\ to[i - 1] = a - j /\ j \in Nat /\ Len(U) \in Nat /\ Len(B) \in Nat
            BY <1>2, <3>2, <4>1, <4>2
          <6> HIDE DEF a, l, to
          <6>2. (a - j) + k \in 1..n /\ ((a - j) + k) + j = a + k
            BY <6>1
          <6> QED
            BY <6>1, <6>2, Zenon DEF a
        <5> QED
          BY <4>2, <5>1, Zenon
      <4> HIDE DEF to, U2
      <4> QED
        BY <3>4, <4>3, <4>4, Zenon DEF Piece
    <3> QED
      BY <3>3, <3>4, Zenon
  <2> HIDE DEF to, U2
  <2> QED
    BY <1>3, <2>2, <2>3, <2>4, Zenon DEF Flat
<1>6. IsTrace(G, U2, T2)
  <2>1. ASSUME NEW i \in 0..n PROVE TraceState(G, T2[i])
    <3>1. i + j \in 0..Len(U) /\ T2[i] = T[i + j]
      BY <1>2
    <3> QED
      BY <1>1, <3>1, Zenon DEF IsTrace
  <2>2. ASSUME NEW i \in 1..n PROVE TraceStep(G, T2[i - 1], U2[i], T2[i])
    <3>1. /\ i + j \in 1..Len(U) /\ T2[i] = T[i + j] /\ U2[i] = U[i + j]
          /\ T2[i - 1] = T[(i + j) - 1]
      BY <1>2
    <3>2. TraceStep(G, T[(i + j) - 1], U[i + j], T[i + j])
      BY <1>1, <3>1, Zenon DEF IsTrace
    <3> QED
      BY <3>1, <3>2, Zenon
  <2> HIDE DEF T2, U2, n
  <2> QED
    BY <1>3, <2>1, <2>2, Zenon DEF IsTrace
<1>7. T2[0] = T[j] /\ T2[Len(U2)] = T[Len(U)]
  BY <1>2, <1>3
<1>8. ~T[j].inside /\ d.window = T[j].win /\ V \o d.output = T[j].out
  BY Zenon DEF DecodedAt
<1>9. Carries(P2, Q, C, G, S, V \o d.output, U2, to, T2)
  <2> HIDE DEF T2, U2, to
  <2> QED
    BY <1>5, <1>6, <1>7, <1>8, Zenon DEF Carries
<1> QED
  BY <1>9, Zenon DEF Delivers

(***************************************************************************)
(* The rest of the loop body, and what follows the loop.                   *)
(***************************************************************************)
\* When no frame is on its way the frame data is all that is to be decoded.
LEMMA NoFrames ==
  ASSUME Induction, NEW B \in Seq(Unit), NEW C \in Seq(AnyMessage), NEW U, NEW pos,
         Flat(B, C, U, pos), None(C, "FRAME")
  PROVE  Len(U) = Len(B)
<1> DEFINE A == [i \in 0..Len(C) |-> {Len(B)}]
<1>1. Len(C) \in Nat
  OBVIOUS
<1>2. pos[0] \in A[0]
  BY DEF Flat
<1>3. ASSUME NEW i \in 1..Len(C), pos[i - 1] \in A[i - 1] PROVE pos[i] \in A[i]
  <2>1. Piece(C[i], U, pos[i - 1], pos[i]) /\ C[i].op # "FRAME"
    BY Zenon DEF Flat, None
  <2>2. i \in 0..Len(C) /\ i - 1 \in 0..Len(C)
    OBVIOUS
  <2> QED
    BY <1>3, <2>1, <2>2, Zenon DEF Piece
<1>4. \A i \in 0..Len(C) : pos[i] \in A[i]
  <2> HIDE DEF A
  <2> QED
    BY <1>1, <1>2, <1>3, InductiveValues, Zenon
<1>5. pos[Len(C)] = Len(B)
  BY <1>1, <1>4
<1> QED
  BY <1>5, Zenon DEF Flat

\* After <EOS>, frame data that waits for nothing is all decoded, and then
\* everything has been delivered.
LEMMA AllDecoded ==
  ASSUME Induction, NEW P \in PairRecord, NEW Q, NEW C \in Seq(AnyMessage), NEW G, NEW S, NEW V,
         Delivers(P, Q, C, G, S, V), None(C, "FRAME")
  PROVE  /\ P.decoder_frame_buffer = <<>> => V = S
         /\ Len(P.decoder_frame_buffer) = 1 => P.decoder_frame_buffer[1].op # "MAGIC"
<1>1. PICK U, pos, T : Carries(P, Q, C, G, S, V, U, pos, T)
  BY Zenon DEF Delivers
<1> DEFINE B == P.decoder_frame_buffer
<1>2. B \in Seq(Unit) /\ Flat(B, C, U, pos)
  BY <1>1, Zenon DEF Carries, PairRecord
<1>3. Len(U) = Len(B)
  BY <1>2, NoFrames, Zenon
<1>4. ASSUME B = <<>> PROVE V = S
  <2>1. Len(U) = 0
    BY <1>3, <1>4, Zenon
  <2> QED
    BY <1>1, <2>1, Zenon DEF Carries
<1>5. ASSUME Len(B) = 1, B[1].op = "MAGIC" PROVE FALSE
  <2>1. Len(U) = 1 /\ U[1].op = "MAGIC" /\ 1 \in 1..Len(U)
    BY <1>2, <1>3, <1>5 DEF Flat
  <2>2. TraceStep(G, T[1 - 1], U[1], T[1])
    BY <1>1, <2>1, Zenon DEF Carries, IsTrace
  <2>3. T[1].inside = TRUE
    BY <2>1, <2>2, Zenon DEF TraceStep
  <2> QED
    BY <1>1, <2>1, <2>3, Zenon DEF Carries
<1> QED
  BY <1>4, <1>5, Zenon

\* The frame data can be decoded up to a reference to a hash that has to be
\* asked for, and the codec of the other end has that hash.
LEMMA DecodeFrames ==
  ASSUME Induction, NEW P, NEW Q, NEW C, NEW G, NEW S, NEW V,
         NEW known \in MapOf(Hash, Segment), NEW d,
         Decodable(P, Q, C, G, S, V), SubMap(known, G), P.decoder_frame_buffer # <<>>,
         d = Decode(P.decoder_window, known, P.decoder_frame_buffer)
  PROVE  DecodedFrames(d, P, Q, C, G, S, V)
<1> DEFINE B == P.decoder_frame_buffer
<1>1. /\ P \in PairRecord /\ C \in Seq(AnyMessage) /\ Waiting(P) /\ V \in Seq(Segment)
      /\ G \in MapOf(Hash, Segment) /\ Delivers(P, Q, C, G, S, V)
  BY Zenon DEF Decodable
<1>2. PICK U, pos, T : Carries(P, Q, C, G, S, V, U, pos, T)
  BY <1>1, Zenon DEF Delivers
<1>3. /\ B \in Seq(Unit) /\ U \in Seq(Unit) /\ Len(B) <= Len(U)
      /\ \A i \in 1..Len(B) : B[i] = U[i]
  <2>1. Flat(B, C, U, pos) /\ B \in Seq(Unit)
    BY <1>1, <1>2, Zenon DEF Carries, PairRecord
  <2>2. 0 \in 0..Len(C)
    BY <1>1
  <2>3. pos[0] \in 0..Len(U)
    BY <2>1, <2>2, Zenon DEF Flat
  <2> QED
    BY <2>1, <2>3 DEF Flat
<1>4. /\ IsTrace(G, U, T) /\ T[0].win = P.decoder_window /\ T[0].out = V /\ ~T[0].inside
  BY <1>2, Zenon DEF Carries
<1>5. PICK j : DecodedAt(d, Len(B), j, U, T, G, V)
  BY <1>1, <1>3, <1>4, DecodeFollowsTrace, Zenon
<1>6. d \in DecoderState /\ SubMap(d.cache, G)
  BY <1>5, Zenon DEF DecodedAt
<1>7. Len(B) \in Nat /\ Len(B) # 0 /\ j \in 0..Len(B) /\ Len(U) \in Nat
  BY <1>3, <1>5 DEF DecodedAt
<1>8. d.output = <<>> => d.rest # <<>>
  <2>1. d.output = <<>> => j = 0
    BY <1>5, <1>7 DEF DecodedAt
  <2>2. Len(d.rest) = Len(B) - j /\ d.rest \in Seq(Unit)
    BY <1>5, <1>6, DecoderFacts, Zenon DEF DecodedAt
  <2> QED
    BY <1>7, <2>1, <2>2
<1>9. d.unknown = {} \/ \E h \in DOMAIN G : d.unknown = {h}
  <2>1. CASE ~d.stop
    BY <1>5, <2>1, Zenon DEF DecodedAt
  <2>2. CASE d.stop
    <3>1. Len(B) - j >= 2 /\ U[j + 2].op = "REF" /\ d.unknown = {U[j + 2].hash}
      BY <1>5, <2>2, Zenon DEF DecodedAt
    <3>2. j + 2 \in 1..Len(U)
      BY <1>3, <1>7, <3>1
    <3>3. TraceStep(G, T[(j + 2) - 1], U[j + 2], T[j + 2])
      BY <1>4, <3>2, Zenon DEF IsTrace
    <3>4. U[j + 2].hash \in DOMAIN G
      BY <3>1, <3>3, Zenon DEF TraceStep
    <3> QED
      BY <3>1, <3>4, Zenon
  <2> QED
    BY <2>1, <2>2, Zenon
<1>10. ASSUME NEW P2, P2.decoder = P.decoder, P2.decoder_frame_buffer = d.rest,
              P2.decoder_window = d.window, P2.decoder_unknown_hashes = d.unknown
       PROVE  Waiting(P2) /\ Settled(P2) /\ Delivers(P2, Q, C, G, S, V \o d.output)
  <2>1. Delivers(P2, Q, C, G, S, V \o d.output)
    BY <1>1, <1>2, <1>3, <1>5, <1>10, DecodeDelivers, Zenon
  <2>2. P.decoder # NoUuid
    BY <1>1, Zenon DEF Waiting
  <2>3. /\ Len(d.rest) = Len(B) - j /\ d.rest \in Seq(Unit)
        /\ \A k \in 1..(Len(B) - j) : d.rest[k] = U[j + k]
    BY <1>5, <1>6, DecoderFacts, Zenon DEF DecodedAt
  <2>4. CASE d.stop
    <3>1. /\ Len(B) - j >= 2 /\ U[j + 1].op = "MAGIC" /\ U[j + 2].op = "REF"
          /\ d.unknown = {U[j + 2].hash}
      BY <1>5, <2>4, Zenon DEF DecodedAt
    <3>2. d.rest[1] = U[j + 1] /\ d.rest[2] = U[j + 2]
      <4>1. 1 \in 1..(Len(B) - j) /\ 2 \in 1..(Len(B) - j)
        BY <1>7, <3>1
      <4> QED
        BY <2>3, <4>1, Zenon
    <3> QED
      BY <1>10, <2>1, <2>2, <2>3, <3>1, <3>2, Zenon DEF Waiting, Settled
  <2>5. CASE ~d.stop
    <3>1. d.unknown = {} /\ (j = Len(B) \/ (Len(B) - j = 1 /\ U[Len(B)].op = "MAGIC"))
      BY <1>5, <2>5, Zenon DEF DecodedAt
    <3>2. Waiting(P2)
      BY <1>10, <2>2, <3>1, Zenon DEF Waiting
    <3>3. CASE j = Len(B)
      <4>1. d.rest = <<>>
        BY <1>7, <2>3, <3>3
      <4> QED
        BY <1>10, <2>1, <3>2, <4>1, Zenon DEF Settled
    <3>4. CASE Len(B) - j = 1 /\ U[Len(B)].op = "MAGIC"
      <4>1. Len(d.rest) = 1 /\ d.rest[1] = U[j + 1] /\ j + 1 = Len(B)
        BY <1>7, <2>3, <3>4
      <4> QED
        BY <1>10, <2>1, <3>2, <3>4, <4>1, Zenon DEF Settled
    <3> QED
      BY <3>1, <3>3, <3>4, Zenon
  <2> QED
    BY <2>4, <2>5, Zenon
<1> QED
  BY <1>6, <1>8, <1>9, <1>10, Zenon DEF DecodedFrames

\* Decoding only appends to the output.
LEMMA TraceGrows ==
  ASSUME Induction, NEW G, NEW U \in Seq(Unit), NEW T, IsTrace(G, U, T)
  PROVE  StartsWith(T[Len(U)].out, T[0].out)
<1> DEFINE n == Len(U)
           K == {i \in Nat : i <= n => StartsWith(T[i].out, T[0].out)}
<1>1. \A i \in 0..n : T[i].out \in Seq(Segment)
  BY Zenon DEF IsTrace, TraceState
<1>2. n \in Nat
  OBVIOUS
<1>3. 0 \in K
  <2>1. StartsWith(T[0].out, T[0].out)
    BY <1>1, <1>2 DEF StartsWith
  <2> QED
    BY <2>1, Zenon
<1>4. ASSUME NEW i \in Nat, i \in K PROVE i + 1 \in K
  <2> SUFFICES ASSUME i + 1 <= n PROVE StartsWith(T[i + 1].out, T[0].out)
    OBVIOUS
  <2>1. StartsWith(T[i].out, T[0].out) /\ i + 1 \in 1..n /\ i + 1 - 1 = i
    BY <1>2, <1>4
  <2>2. TraceStep(G, T[i], U[i + 1], T[i + 1])
    BY <2>1 DEF IsTrace
  <2>3. T[i + 1].out = T[i].out \/ \E x : T[i + 1].out = Append(T[i].out, x)
    BY <2>2, Zenon DEF TraceStep
  <2> DEFINE o == T[i].out
             p == T[i + 1].out
             b == T[0].out
  <2>4. o \in Seq(Segment) /\ p \in Seq(Segment) /\ b \in Seq(Segment)
    BY <1>1, <2>1
  <2>6. StartsWith(o, b)
    BY <2>1, Zenon
  <2> HIDE DEF o, p, b
  <2>5. Len(o) <= Len(p) /\ \A j \in 1..Len(o) : p[j] = o[j]
    <3>1. p = o \/ \E x : p = Append(o, x)
      BY <2>3, Zenon DEF o, p
    <3>2. CASE p = o
      BY <2>4, <3>2
    <3>3. CASE \E x : p = Append(o, x)
      BY <2>4, <3>3
    <3> QED
      BY <3>1, <3>2, <3>3, Zenon
  <2>7. StartsWith(p, b)
    BY <2>4, <2>5, <2>6 DEF StartsWith
  <2> QED
    BY <2>7, Zenon DEF p, b
<1>5. n \in K
  <2> HIDE DEF K, n
  <2> QED
    BY <1>2, <1>3, <1>4, InductiveSet, Zenon
<1> QED
  BY <1>2, <1>5
-----------------------------------------------------------------------------
(***************************************************************************)
(* What encoder_consume adds to what is on its way to Q.                   *)
(***************************************************************************)

\* A cache that has more makes the same trace.
LEMMA LongerCache ==
  ASSUME NEW G, NEW G2, NEW U, NEW T, SubMap(G, G2), IsTrace(G, U, T)
  PROVE  IsTrace(G2, U, T)
<1>1. ASSUME NEW i \in 0..Len(U) PROVE TraceState(G2, T[i])
  BY Zenon DEF IsTrace, TraceState, SubMap
<1>2. ASSUME NEW i \in 1..Len(U) PROVE TraceStep(G2, T[i - 1], U[i], T[i])
  <2>1. TraceStep(G, T[i - 1], U[i], T[i])
    BY Zenon DEF IsTrace
  <2> QED
    BY <2>1, Zenon DEF TraceStep, Known, SubMap
<1> QED
  BY <1>1, <1>2, Zenon DEF IsTrace

\* One more unit.
LEMMA TraceUnit ==
  ASSUME NEW G, NEW G2, NEW U \in Seq(Unit), NEW u \in Unit, NEW w0, NEW o0, NEW win,
         NEW out, NEW inside, NEW win2, NEW out2, NEW inside2,
         Traced(G, U, w0, o0, win, out, inside), SubMap(G, G2),
         TraceState(G2, [win |-> win2, out |-> out2, inside |-> inside2]),
         TraceStep(G2, [win |-> win, out |-> out, inside |-> inside], u,
                   [win |-> win2, out |-> out2, inside |-> inside2])
  PROVE  Traced(G2, Append(U, u), w0, o0, win2, out2, inside2)
<1>1. PICK T : /\ IsTrace(G, U, T)
               /\ T[0].win = w0 /\ T[0].out = o0 /\ ~T[0].inside
               /\ T[Len(U)].win = win /\ T[Len(U)].out = out /\ T[Len(U)].inside = inside
  BY Zenon DEF Traced
<1> DEFINE U2 == Append(U, u)
           v == [win |-> win2, out |-> out2, inside |-> inside2]
           T2 == [i \in 0..Len(U2) |-> IF i <= Len(U) THEN T[i] ELSE v]
<1>2. IsTrace(G2, U, T)
  BY <1>1, LongerCache, Zenon
<1>3. /\ Len(U) \in Nat /\ Len(U2) = Len(U) + 1 /\ U2[Len(U) + 1] = u
      /\ \A i \in 1..Len(U) : U2[i] = U[i]
  OBVIOUS
<1>4. (\A i \in 0..Len(U) : T2[i] = T[i]) /\ T2[Len(U) + 1] = v
  BY <1>3
<1>5. ASSUME NEW i \in 0..Len(U2) PROVE TraceState(G2, T2[i])
  <2>1. CASE i <= Len(U)
    <3>1. i \in 0..Len(U)
      BY <1>3, <2>1
    <3> HIDE DEF T2, v, U2
    <3> QED
      BY <1>2, <1>4, <3>1, Zenon DEF IsTrace
  <2>2. CASE i = Len(U) + 1
    <3> HIDE DEF T2, U2
    <3> QED
      BY <1>4, <2>2, Zenon
  <2> QED
    BY <1>3, <2>1, <2>2, Zenon
<1>6. ASSUME NEW i \in 1..Len(U2) PROVE TraceStep(G2, T2[i - 1], U2[i], T2[i])
  <2>1. CASE i <= Len(U)
    <3>1. i \in 1..Len(U) /\ i \in 0..Len(U) /\ i - 1 \in 0..Len(U)
      BY <1>3, <2>1
    <3>2. TraceStep(G2, T[i - 1], U[i], T[i])
      BY <1>2, <3>1, Zenon DEF IsTrace
    <3>3. T2[i - 1] = T[i - 1] /\ T2[i] = T[i] /\ U2[i] = U[i]
      BY <1>3, <1>4, <3>1, Zenon
    <3> HIDE DEF T2, v, U2
    <3> QED
      BY <3>2, <3>3, Zenon
  <2>2. CASE i = Len(U) + 1
    <3>1. T2[i - 1] = T[Len(U)] /\ T2[i] = v /\ U2[i] = u
      <4>1. Len(U) \in 0..Len(U) /\ i - 1 = Len(U)
        BY <1>3, <2>2
      <4> HIDE DEF T2, v, U2
      <4> QED
        BY <1>3, <1>4, <2>2, <4>1, Zenon
    <3>2. TraceStep(G2, T[Len(U)], u, v)
      <4> HIDE DEF v
      <4> QED
        BY <1>1, Zenon DEF TraceStep, v
    <3> HIDE DEF T2, v, U2
    <3> QED
      BY <3>1, <3>2, Zenon
  <2> QED
    BY <1>3, <2>1, <2>2
<1>7. T2[0] = T[0] /\ T2[Len(U2)] = v
  <2>1. 0 \in 0..Len(U)
    BY <1>3
  <2> HIDE DEF T2, v, U2
  <2> QED
    BY <1>3, <1>4, <2>1, Zenon
<1>8. IsTrace(G2, U2, T2)
  <2> HIDE DEF T2, v, U2
  <2> QED
    BY <1>5, <1>6, Zenon DEF IsTrace
<1>9. v.win = win2 /\ v.out = out2 /\ v.inside = inside2
  OBVIOUS
<1>10. \E T3 : /\ IsTrace(G2, U2, T3)
               /\ T3[0].win = w0 /\ T3[0].out = o0 /\ ~T3[0].inside
               /\ T3[Len(U2)].win = win2 /\ T3[Len(U2)].out = out2 /\ T3[Len(U2)].inside = inside2
  <2> HIDE DEF T2, v, U2
  <2> QED
    BY <1>1, <1>7, <1>8, <1>9, Zenon
<1> QED
  BY <1>10, Zenon DEF Traced

\* A symbol of two units.
LEMMA TraceSymbol ==
  ASSUME NEW G, NEW G2, NEW U \in Seq(Unit), NEW u \in Unit, NEW w0, NEW o0, NEW win,
         NEW out \in Seq(Segment), NEW win2, NEW seg \in Segment,
         Traced(G, U, w0, o0, win, out, FALSE), SubMap(G, G2),
         WindowInv(win), SubMap(win.segments, G), WindowInv(win2), SubMap(win2.segments, G2),
         TraceStep(G2, [win |-> win, out |-> out, inside |-> TRUE], u,
                   [win |-> win2, out |-> Append(out, seg), inside |-> FALSE])
  PROVE  Traced(G2, U \o <<[op |-> "MAGIC"], u>>, w0, o0, win2, Append(out, seg), FALSE)
<1> DEFINE magic == [op |-> "MAGIC"]
           out2 == Append(out, seg)
<1>1. magic \in Unit /\ magic.op = "MAGIC" /\ out2 \in Seq(Segment)
  BY DEF Unit
<1>2. U \o <<magic, u>> = Append(Append(U, magic), u) /\ Append(U, magic) \in Seq(Unit)
  BY <1>1
<1>3. Traced(G, Append(U, magic), w0, o0, win, out, TRUE)
  <2>1. TraceState(G, [win |-> win, out |-> out, inside |-> TRUE])
    BY Zenon DEF TraceState
  <2>2. TraceStep(G, [win |-> win, out |-> out, inside |-> FALSE], magic,
                  [win |-> win, out |-> out, inside |-> TRUE])
    <3>1. magic.op = "MAGIC" /\ (magic.op \in {"EXTRACT", "REF", "BACKREF"}) = FALSE
      BY <1>1
    <3> DEFINE t == [win |-> win, out |-> out, inside |-> FALSE]
               v == [win |-> win, out |-> out, inside |-> TRUE]
    <3>2. /\ t.win = win /\ t.out = out /\ t.inside = FALSE
          /\ v.win = win /\ v.out = out /\ v.inside = TRUE
      OBVIOUS
    <3> HIDE DEF magic, t, v
    <3>3. TraceStep(G, t, magic, v)
      BY <3>1, <3>2, Zenon DEF TraceStep
    <3> QED
      BY <3>3, Zenon DEF t, v
  <2>3. SubMap(G, G)
    BY Zenon DEF SubMap
  <2> HIDE DEF magic
  <2> QED
    BY <1>1, <2>1, <2>2, <2>3, TraceUnit, Zenon
<1>4. Traced(G2, Append(Append(U, magic), u), w0, o0, win2, out2, FALSE)
  <2>1. TraceState(G2, [win |-> win2, out |-> out2, inside |-> FALSE])
    BY <1>1, Zenon DEF TraceState
  <2> HIDE DEF magic
  <2>2. TraceStep(G2, [win |-> win, out |-> out, inside |-> TRUE], u,
                   [win |-> win2, out |-> out2, inside |-> FALSE])
    OBVIOUS
  <2> HIDE DEF out2
  <2> DEFINE U1 == Append(U, magic)
  <2>3. U1 \in Seq(Unit) /\ Traced(G, U1, w0, o0, win, out, TRUE)
    BY <1>2, <1>3, Zenon
  <2> HIDE DEF U1
  <2>4. Traced(G2, Append(U1, u), w0, o0, win2, out2, FALSE)
    BY <2>1, <2>2, <2>3, TraceUnit, Zenon
  <2> QED
    BY <2>4, Zenon DEF U1
<1> QED
  BY <1>2, <1>4, Zenon

\* Writing units leaves the cache and the window of the encoder alone.
LEMMA EncoderChanged ==
  ASSUME NEW c \in EncoderState, NEW units \in Seq(Unit)
  PROVE  /\ [c EXCEPT !.units = units] \in EncoderState
         /\ [c EXCEPT !.units = units].units = units
         /\ [c EXCEPT !.units = units].cache = c.cache
         /\ [c EXCEPT !.units = units].window = c.window
  BY Zenon DEF EncoderState

\* Concatenation is associative.
LEMMA ConcatAssociates ==
  ASSUME NEW A \in Seq(Unit), NEW B \in Seq(Unit), NEW C \in Seq(Unit)
  PROVE  A \o (B \o C) = (A \o B) \o C
<1> DEFINE L == A \o (B \o C)
           M == (A \o B) \o C
<1>1. /\ B \o C \in Seq(Unit) /\ Len(B \o C) = Len(B) + Len(C)
      /\ A \o B \in Seq(Unit) /\ Len(A \o B) = Len(A) + Len(B)
  OBVIOUS
<1>2. L \in Seq(Unit) /\ M \in Seq(Unit) /\ Len(L) = Len(M)
  BY <1>1
<1>3. ASSUME NEW i \in 1..Len(L) PROVE L[i] = M[i]
  OBVIOUS
<1> QED
  BY <1>1, <1>2, <1>3

\* What a symbol adds to the trace, for an encoder with G2 as its cache and win2 as
\* its window after it.
LEMMA EncodedSymbol ==
  ASSUME NEW c, NEW cache0, NEW U \in Seq(Unit), NEW w0, NEW o0, NEW out,
         Encoded(c, cache0, U, w0, o0, out), NEW seg \in Segment, NEW u \in Unit, NEW c2,
         c2 \in EncoderState,
         c2.units = c.units \o <<[op |-> "MAGIC"], u>>,
         SubMap(c.cache, c2.cache), \A h \in DOMAIN c2.cache : HashOf[c2.cache[h]] = h,
         WindowInv(c2.window), SubMap(c2.window.segments, c2.cache),
         TraceStep(c2.cache, [win |-> c.window, out |-> out, inside |-> TRUE], u,
                   [win |-> c2.window, out |-> Append(out, seg), inside |-> FALSE])
  PROVE  Encoded(c2, cache0, U, w0, o0, Append(out, seg))
<1> DEFINE pre == U \o c.units
           win == c.window
           win2 == c2.window
           G == c.cache
           G2 == c2.cache
           symbol == <<[op |-> "MAGIC"], u>>
<1>1. /\ c.units \in Seq(Unit) /\ pre \in Seq(Unit) /\ out \in Seq(Segment)
      /\ Traced(G, pre, w0, o0, win, out, FALSE) /\ WindowInv(win) /\ SubMap(win.segments, G)
  <2>1. c.units \in Seq(Unit)
    BY Zenon DEF Encoded, EncoderState
  <2>2. pre \in Seq(Unit)
    BY <2>1
  <2>3. Traced(G, pre, w0, o0, win, out, FALSE)
    BY Zenon DEF Encoded
  <2> QED
    BY <2>1, <2>2, <2>3, Zenon DEF Encoded
<1>2. symbol \in Seq(Unit)
  BY DEF Unit
<1>3. U \o c2.units = pre \o symbol
  <2> DEFINE units == c.units
  <2>1. c2.units = units \o symbol
    OBVIOUS
  <2>3. units \in Seq(Unit)
    BY <1>1, Zenon
  <2> HIDE DEF symbol, units
  <2>2. U \o (units \o symbol) = (U \o units) \o symbol
    BY <1>2, <2>3, ConcatAssociates, Zenon
  <2> QED
    BY <2>1, <2>2, Zenon DEF units
<1>4. Traced(G2, pre \o symbol, w0, o0, win2, Append(out, seg), FALSE)
  <2>1. /\ SubMap(G, G2) /\ WindowInv(win2) /\ SubMap(win2.segments, G2)
        /\ TraceStep(G2, [win |-> win, out |-> out, inside |-> TRUE], u,
                     [win |-> win2, out |-> Append(out, seg), inside |-> FALSE])
    OBVIOUS
  <2> HIDE DEF pre, win, win2, G, G2
  <2> QED
    BY <1>1, <2>1, TraceSymbol, Zenon
<1>5. SubMap(cache0, c2.cache)
  <2>1. SubMap(cache0, c.cache)
    BY Zenon DEF Encoded
  <2>2. \A K, L, M : SubMap(K, L) /\ SubMap(L, M) => SubMap(K, M)
    BY Zenon DEF SubMap
  <2> QED
    BY <2>1, <2>2, Zenon
<1>6. Append(out, seg) \in Seq(Segment)
  BY <1>1
<1> QED
  BY <1>3, <1>4, <1>5, <1>6, Zenon DEF Encoded

\* What is sent for a segment yields it, whatever the cache and the window have.
LEMMA EncodeSegmentStep ==
  ASSUME NEW c, NEW cache0, NEW U \in Seq(Unit), NEW w0, NEW o0, NEW out,
         Encoded(c, cache0, U, w0, o0, out), NEW seg \in Segment
  PROVE  Encoded(EncodeSegment(c, seg), cache0, U, w0, o0, Append(out, seg))
<1> DEFINE hash == HashOf[seg]
           next == Append(out, seg)
           t == [win |-> c.window, out |-> out, inside |-> TRUE]
<1>1. /\ hash \in Hash /\ c.cache \in MapOf(Hash, Segment) /\ c.units \in Seq(Unit)
      /\ c.window \in Window /\ WindowInv(c.window) /\ SubMap(c.window.segments, c.cache)
      /\ out \in Seq(Segment) /\ next \in Seq(Segment)
      /\ c \in EncoderState /\ \A h \in DOMAIN c.cache : HashOf[c.cache[h]] = h
  <2>1. hash \in Hash
    BY PipeAssumption, Zenon
  <2>2. /\ c \in EncoderState /\ WindowInv(c.window) /\ SubMap(c.window.segments, c.cache)
        /\ out \in Seq(Segment) /\ \A h \in DOMAIN c.cache : HashOf[c.cache[h]] = h
    BY Zenon DEF Encoded
  <2>3. c.cache \in MapOf(Hash, Segment) /\ c.units \in Seq(Unit) /\ c.window \in Window
    BY <2>2, Zenon DEF EncoderState
  <2>4. next \in Seq(Segment)
    BY <2>2
  <2> QED
    BY <2>1, <2>2, <2>3, <2>4, Zenon
<1>2. t.win = c.window /\ t.out = out /\ t.inside = TRUE
  OBVIOUS
<1>3. SubMap(c.cache, c.cache)
  BY Zenon DEF SubMap
<1>4. CASE hash \notin DOMAIN c.cache
  <2> DEFINE u == [op |-> "EXTRACT", seg |-> seg]
             c2 == [cache |-> Insert(c.cache, hash, seg), window |-> Declare(c.window, hash, seg),
                    units |-> c.units \o <<[op |-> "MAGIC"], u>>]
             v == [win |-> c2.window, out |-> next, inside |-> FALSE]
  <2>1. EncodeSegment(c, seg) = c2
    BY <1>4, Zenon DEF EncodeSegment, Units
  <2>2. u \in Unit /\ u.op = "EXTRACT" /\ u.seg = seg
    BY Zenon DEF Unit
  <2>3. c2.units \in Seq(Unit)
    <3>1. <<[op |-> "MAGIC"], u>> \in Seq(Unit)
      BY <2>2 DEF Unit
    <3> HIDE DEF u
    <3> QED
      BY <1>1, <3>1
  <2>4. c2.cache \in MapOf(Hash, Segment)
    <3> HIDE DEF hash
    <3> QED
      BY <1>1, InsertType, Zenon
  <2>5. WindowInv(c2.window) /\ c2.window \in Window
    <3> HIDE DEF hash
    <3>1. WindowInv(Declare(c.window, hash, seg))
      BY <1>1, DeclareInv, Zenon
    <3> QED
      BY <3>1, Zenon DEF WindowInv
  <2>6. /\ DOMAIN c2.cache = DOMAIN c.cache \cup {hash} /\ c2.cache[hash] = seg
        /\ \A h \in DOMAIN c.cache : c2.cache[h] = c.cache[h]
    BY <1>4, Zenon DEF Insert
  <2>7. SubMap(c.cache, c2.cache) /\ \A h \in DOMAIN c2.cache : HashOf[c2.cache[h]] = h
    BY <1>1, <2>6, Zenon DEF SubMap
  <2>8. SubMap(c2.window.segments, c2.cache)
    <3>1. SubMap(c.window.segments, c2.cache)
      BY <1>1, <2>6, Zenon DEF SubMap
    <3> DEFINE G2 == c2.cache
               w == c.window
    <3>2. SubMap(w.segments, G2) /\ hash \in DOMAIN G2 /\ G2[hash] = seg
      BY <2>6, <3>1, Zenon
    <3> HIDE DEF G2, w, hash
    <3>3. SubMap(Declare(w, hash, seg).segments, G2)
      BY <1>1, <3>2, DeclareSubMap, Zenon
    <3> QED
      BY <3>3, Zenon DEF G2, w
  <2>9. TraceStep(c2.cache, t, u, v)
    <3>1. Known(c2.cache, seg)
      BY <2>6, Zenon DEF Known
    <3>2. v.win = Declare(c.window, hash, seg) /\ v.out = next /\ v.inside = FALSE
      OBVIOUS
    <3> HIDE DEF t, u, v, c2
    <3> QED
      BY <1>2, <2>2, <3>1, <3>2, Zenon DEF TraceStep
  <2>10. c2 \in EncoderState
    BY <2>3, <2>4, <2>5, Zenon DEF EncoderState
  <2>11. c2.units = c.units \o <<[op |-> "MAGIC"], u>>
    OBVIOUS
  <2> HIDE DEF c2, u
  <2>12. Encoded(c2, cache0, U, w0, o0, Append(out, seg))
    BY <2>2, <2>5, <2>7, <2>8, <2>9, <2>10, <2>11, EncodedSymbol, Zenon
  <2> QED
    BY <2>1, <2>12, Zenon
<1>5. CASE hash \in DOMAIN c.cache /\ c.cache[hash] # seg
  <2> DEFINE u == [op |-> "ESCAPE", seg |-> seg]
             c2 == [c EXCEPT !.units = c.units \o <<u>>]
             t0 == [win |-> c.window, out |-> out, inside |-> FALSE]
             v == [win |-> c.window, out |-> next, inside |-> FALSE]
             pre == U \o c.units
  <2>1. EncodeSegment(c, seg) = c2
    BY <1>5, Zenon DEF EncodeSegment, Units
  <2>2. u \in Unit /\ u.op = "ESCAPE" /\ u.seg = seg
    BY Zenon DEF Unit
  <2>3. /\ c2.cache = c.cache /\ c2.window = c.window /\ c2.units = c.units \o <<u>>
        /\ c2 \in EncoderState
    <3> HIDE DEF u
    <3>1. c.units \o <<u>> \in Seq(Unit)
      BY <1>1, <2>2
    <3> QED
      BY <1>1, <3>1, EncoderChanged, Zenon
  <2>4. TraceStep(c.cache, t0, u, v)
    <3>1. /\ t0.win = c.window /\ t0.out = out /\ t0.inside = FALSE
          /\ v.win = c.window /\ v.out = next /\ v.inside = FALSE
      OBVIOUS
    <3>2. (u.op \in {"EXTRACT", "REF", "BACKREF"}) = FALSE /\ (u.op = "MAGIC") = FALSE
      BY <2>2
    <3> HIDE DEF t0, u, v
    <3> QED
      BY <2>2, <3>1, <3>2, Zenon DEF TraceStep
  <2>5. TraceState(c.cache, v)
    BY <1>1, Zenon DEF TraceState
  <2>6. pre \in Seq(Unit) /\ Traced(c.cache, pre, w0, o0, c.window, out, FALSE)
    <3>1. pre \in Seq(Unit)
      BY <1>1
    <3>2. Traced(c.cache, pre, w0, o0, c.window, out, FALSE)
      BY Zenon DEF Encoded
    <3> QED
      BY <3>1, <3>2, Zenon
  <2>7. Traced(c.cache, Append(pre, u), w0, o0, c.window, next, FALSE)
    <3> HIDE DEF pre, u, next
    <3> QED
      BY <1>3, <2>2, <2>4, <2>5, <2>6, TraceUnit, Zenon
  <2>8. U \o c2.units = Append(pre, u)
    <3> HIDE DEF u
    <3> QED
      BY <1>1, <2>2, <2>3
  <2> HIDE DEF c2
  <2>9. Encoded(c2, cache0, U, w0, o0, next)
    BY <1>1, <2>3, <2>7, <2>8, Zenon DEF Encoded
  <2> QED
    BY <2>1, <2>9, Zenon
<1>6. CASE hash \in DOMAIN c.cache /\ c.cache[hash] = seg /\ Present(c.window, hash)
  <2> DEFINE slot == c.window.present[hash]
             u == [op |-> "BACKREF", slot |-> slot]
             c2 == [c EXCEPT !.units = c.units \o <<[op |-> "MAGIC"], u>>]
             v == [win |-> c2.window, out |-> next, inside |-> FALSE]
  <2>1. EncodeSegment(c, seg) = c2
    BY <1>6, Zenon DEF EncodeSegment, Units
  <2>2. /\ slot \in Slot /\ Holds(c.window, slot) /\ Dereference(c.window, slot) = seg
    <3> DEFINE w == c.window
    <3>1. w \in Window /\ hash \in DOMAIN w.present /\ DOMAIN w.segments = DOMAIN w.present
          /\ w.window[w.present[hash]] = hash /\ hash # 0 /\ w.present[hash] \in Slot
      <4>1. w.present \in MapOf(Hash \ {0}, Slot) /\ hash \in DOMAIN w.present
        BY <1>1, <1>6, Zenon DEF Window, Present
      <4>2. hash \in Hash \ {0} /\ w.present[hash] \in Slot
        <5> HIDE DEF w, hash
        <5> QED
          BY <4>1, MapFacts
      <4> QED
        BY <1>1, <4>1, <4>2, Zenon DEF WindowInv
    <3>2. w.segments[hash] = c.cache[hash]
      BY <1>1, <3>1, Zenon DEF SubMap
    <3> QED
      BY <1>6, <3>1, <3>2, Zenon DEF Holds, Dereference
  <2>3. u \in Unit /\ u.op = "BACKREF" /\ u.slot = slot
    BY <2>2, Zenon DEF Unit
  <2>4. /\ c2.cache = c.cache /\ c2.window = c.window
        /\ c2.units = c.units \o <<[op |-> "MAGIC"], u>>
        /\ c2 \in EncoderState
    <3>1. <<[op |-> "MAGIC"], u>> \in Seq(Unit)
      BY <2>3 DEF Unit
    <3> DEFINE symbol == <<[op |-> "MAGIC"], u>>
    <3> HIDE DEF u, symbol
    <3>2. c.units \o symbol \in Seq(Unit)
      BY <1>1, <3>1 DEF symbol
    <3> QED
      BY <1>1, <3>2, EncoderChanged, Zenon DEF symbol
  <2>5. TraceStep(c2.cache, t, u, v)
    <3>1. v.win = c.window /\ v.out = next /\ v.inside = FALSE
      BY <2>4, Zenon
    <3> HIDE DEF t, u, v, c2, slot
    <3> QED
      BY <1>2, <2>2, <2>3, <3>1, Zenon DEF TraceStep
  <2> HIDE DEF c2, u
  <2>6. Encoded(c2, cache0, U, w0, o0, Append(out, seg))
    BY <1>1, <1>3, <2>3, <2>4, <2>5, EncodedSymbol, Zenon
  <2> QED
    BY <2>1, <2>6, Zenon
<1>7. CASE hash \in DOMAIN c.cache /\ c.cache[hash] = seg /\ ~Present(c.window, hash)
  <2> DEFINE u == [op |-> "REF", hash |-> hash]
             c2 == [c EXCEPT !.units = c.units \o <<[op |-> "MAGIC"], u>>,
                             !.window = Declare(c.window, hash, seg)]
             v == [win |-> c2.window, out |-> next, inside |-> FALSE]
  <2>1. EncodeSegment(c, seg) = c2
    BY <1>7, Zenon DEF EncodeSegment, Units
  <2>2. u \in Unit /\ u.op = "REF" /\ u.hash = hash
    BY <1>1, Zenon DEF Unit
  <2>3. /\ WindowInv(Declare(c.window, hash, seg)) /\ Declare(c.window, hash, seg) \in Window
    <3> HIDE DEF hash
    <3>1. WindowInv(Declare(c.window, hash, seg))
      BY <1>1, DeclareInv, Zenon
    <3> QED
      BY <3>1, Zenon DEF WindowInv
  <2>4. SubMap(Declare(c.window, hash, seg).segments, c.cache)
    <3> DEFINE G == c.cache
               w == c.window
    <3>1. SubMap(w.segments, G) /\ hash \in DOMAIN G /\ G[hash] = seg /\ hash \in Hash
      BY <1>1, <1>7, Zenon
    <3> HIDE DEF G, w, hash
    <3>2. SubMap(Declare(w, hash, seg).segments, G)
      BY <3>1, DeclareSubMap, Zenon
    <3> QED
      BY <3>2, Zenon DEF G, w
  <2>5. /\ c2.cache = c.cache /\ c2.window = Declare(c.window, hash, seg)
        /\ c2.units = c.units \o <<[op |-> "MAGIC"], u>>
        /\ c2 \in EncoderState
    <3>1. <<[op |-> "MAGIC"], u>> \in Seq(Unit)
      BY <2>2 DEF Unit
    <3> DEFINE symbol == <<[op |-> "MAGIC"], u>>
               w2 == Declare(c.window, hash, seg)
    <3> HIDE DEF u, symbol, w2
    <3>2. c.units \o symbol \in Seq(Unit) /\ w2 \in Window
      BY <1>1, <2>3, <3>1 DEF symbol, w2
    <3> DEFINE us == c.units \o symbol
    <3>3. c2 = [c EXCEPT !.units = us, !.window = w2] /\ us \in Seq(Unit)
      BY <3>2, Zenon DEF symbol, w2
    <3> HIDE DEF us, c2
    <3>4. /\ c2.cache = c.cache /\ c2.window = w2 /\ c2.units = us /\ c2 \in EncoderState
      BY <1>1, <3>2, <3>3, Zenon DEF EncoderState
    <3> QED
      BY <3>4, Zenon DEF symbol, w2, us
  <2>6. TraceStep(c2.cache, t, u, v)
    <3>1. v.win = Declare(c.window, hash, seg) /\ v.out = next /\ v.inside = FALSE
      BY <2>5, Zenon
    <3>2. hash \in DOMAIN c2.cache /\ c2.cache[hash] = seg
      BY <1>7, <2>5, Zenon
    <3> HIDE DEF t, u, v, c2, hash
    <3> QED
      BY <1>2, <2>2, <3>1, <3>2, Zenon DEF TraceStep
  <2>7. SubMap(c2.window.segments, c2.cache) /\ WindowInv(c2.window)
    BY <2>3, <2>4, <2>5, Zenon
  <2> HIDE DEF c2, u
  <2>8. Encoded(c2, cache0, U, w0, o0, Append(out, seg))
    BY <1>1, <1>3, <2>2, <2>5, <2>6, <2>7, EncodedSymbol, Zenon
  <2> QED
    BY <2>1, <2>8, Zenon
<1> QED
  BY <1>4, <1>5, <1>6, <1>7, Zenon

\* done[i] is the encoder after i segments.
EncodedBy(done, s, buf) ==
    /\ done[0] = s
    /\ \A i \in 1..Len(buf) : done[i] = EncodeSegment(done[i - 1], buf[i])
    /\ Encode(s, buf) = done[Len(buf)]

\* encode is as many steps of the encoder as there are segments.
LEMMA EncodeUnfold ==
  ASSUME Induction, NEW s, NEW buf, Len(buf) \in Nat
  PROVE  \E c : EncodedBy(c, s, buf)
<1> DEFINE n == Len(buf)
           D(m, k) == k = [i \in 0..m |-> IF i = 0 THEN s ELSE EncodeSegment(k[i - 1], buf[i])]
           T == {m \in Nat : \E k : D(m, k)}
<1>1. 0 \in T
  <2>1. D(0, [i \in 0..0 |-> s])
    OBVIOUS
  <2> QED
    BY <2>1, Zenon
<1>2. ASSUME NEW m \in Nat, m \in T PROVE m + 1 \in T
  <2>1. PICK k : D(m, k)
    BY <1>2, Zenon
  <2> DEFINE k2 == [i \in 0..(m + 1) |-> IF i <= m THEN k[i] ELSE EncodeSegment(k[m], buf[m + 1])]
  <2>2. ASSUME NEW i \in 0..(m + 1)
        PROVE  k2[i] = IF i = 0 THEN s ELSE EncodeSegment(k2[i - 1], buf[i])
    <3>1. CASE i <= m
      <4>1. i \in 0..m /\ k2[i] = k[i] /\ (i # 0 => i - 1 \in 0..(m + 1) /\ k2[i - 1] = k[i - 1])
        BY <3>1
      <4>2. k[i] = IF i = 0 THEN s ELSE EncodeSegment(k[i - 1], buf[i])
        BY <2>1, <4>1, Zenon
      <4> HIDE DEF k2
      <4> QED
        BY <4>1, <4>2, Zenon
    <3>2. CASE i = m + 1
      BY <3>2
    <3> QED
      BY <3>1, <3>2
  <2>3. k2 = [i \in 0..(m + 1) |-> k2[i]]
    OBVIOUS
  <2>4. D(m + 1, k2)
    <3> HIDE DEF k2
    <3> QED
      BY <2>2, <2>3, Zenon
  <2>5. m + 1 \in Nat /\ \E k3 : D(m + 1, k3)
    <3> HIDE DEF k2
    <3> QED
      BY <2>4
  <2> QED
    BY <2>5, Zenon
<1>3. n \in T
  <2> HIDE DEF T
  <2> QED
    BY <1>1, <1>2, InductiveSet, Zenon
<1> DEFINE c == CHOOSE k : D(n, k)
<1>4. D(n, c)
  BY <1>3, Zenon
<1>5. c[0] = s /\ \A i \in 1..n : c[i] = EncodeSegment(c[i - 1], buf[i])
  <2> HIDE DEF c
  <2> QED
    BY <1>4
<1>6. Encode(s, buf) = c[n]
  BY Zenon DEF Encode
<1> QED
  BY <1>5, <1>6, Zenon DEF EncodedBy

\* What is sent for a buffer yields it.
LEMMA EncodeStep ==
  ASSUME Induction, NEW s, NEW cache0, NEW U \in Seq(Unit), NEW w0, NEW o0, NEW out,
         Encoded(s, cache0, U, w0, o0, out), NEW buf \in Seq(Segment)
  PROVE  Encoded(Encode(s, buf), cache0, U, w0, o0, out \o buf)
<1> DEFINE n == Len(buf)
           upto(i) == out \o SubSeq(buf, 1, i)
<1>1. n \in Nat /\ out \in Seq(Segment) /\ \A i \in 1..n : buf[i] \in Segment
  BY DEF Encoded
<1>2. PICK c : EncodedBy(c, s, buf)
  BY <1>1, EncodeUnfold, Zenon
<1>3. c[0] = s /\ (\A i \in 1..n : c[i] = EncodeSegment(c[i - 1], buf[i])) /\ Encode(s, buf) = c[n]
  BY <1>2, Zenon DEF EncodedBy
<1>4. upto(0) = out /\ upto(n) = out \o buf
  <2>1. SubSeq(buf, 1, 0) = <<>> /\ SubSeq(buf, 1, n) = buf
    BY <1>1
  <2>2. out \o <<>> = out
    BY <1>1
  <2> QED
    BY <2>1, <2>2, Zenon
<1>5. ASSUME NEW i \in 0..(n - 1) PROVE upto(i + 1) = Append(upto(i), buf[i + 1])
  <2> DEFINE a == SubSeq(buf, 1, i)
             x == buf[i + 1]
  <2>1. SubSeq(buf, 1, i + 1) = Append(a, x) /\ a \in Seq(Segment) /\ x \in Segment
    BY <1>1
  <2> HIDE DEF a, x
  <2>2. out \o Append(a, x) = Append(out \o a, x)
    BY <1>1, <2>1, AppendConcat
  <2> QED
    BY <2>1, <2>2, Zenon DEF a, x
<1> HIDE DEF upto
<1> DEFINE T == {i \in Nat : i <= n => Encoded(c[i], cache0, U, w0, o0, upto(i))}
<1>6. 0 \in T
  BY <1>3, <1>4, Zenon
<1>7. ASSUME NEW i \in Nat, i \in T PROVE i + 1 \in T
  <2> SUFFICES ASSUME i + 1 <= n PROVE Encoded(c[i + 1], cache0, U, w0, o0, upto(i + 1))
    OBVIOUS
  <2>1. i \in 0..(n - 1) /\ i + 1 \in 1..n /\ (i + 1) - 1 = i
    BY <1>1
  <2> DEFINE x == buf[i + 1]
             o == upto(i)
             ci == c[i]
  <2>2. Encoded(ci, cache0, U, w0, o0, o) /\ x \in Segment
    BY <1>1, <1>7, <2>1
  <2>3. c[i + 1] = EncodeSegment(ci, x) /\ upto(i + 1) = Append(o, x)
    BY <1>3, <1>5, <2>1, Zenon
  <2> HIDE DEF x, o, ci
  <2>4. Encoded(EncodeSegment(ci, x), cache0, U, w0, o0, Append(o, x))
    BY <2>2, EncodeSegmentStep, Zenon
  <2> QED
    BY <2>3, <2>4, Zenon
<1>8. n \in T
  <2> HIDE DEF T
  <2> QED
    BY <1>1, <1>6, <1>7, InductiveSet, Zenon
<1>9. Encoded(c[n], cache0, U, w0, o0, upto(n))
  BY <1>1, <1>8
<1> QED
  BY <1>3, <1>4, <1>9, Zenon

\* Encoding nothing changes nothing.
LEMMA EncodeNothing ==
  ASSUME Induction, NEW s
  PROVE  Encode(s, <<>>) = s
<1> DEFINE none == <<>>
<1>1. Len(none) = 0 /\ Len(none) \in Nat
  OBVIOUS
<1> HIDE DEF none
<1>2. \E c : EncodedBy(c, s, none)
  BY <1>1, EncodeUnfold, Zenon
<1>3. PICK c : EncodedBy(c, s, none)
  BY <1>2, Zenon
<1>4. Encode(s, none) = s
  BY <1>1, <1>3, Zenon DEF EncodedBy
<1> QED
  BY <1>4, Zenon DEF none

\* Encoding a buffer continues the trace of what is on its way.
LEMMA EncodeBuffer ==
  ASSUME Induction, NEW P, NEW own \in MapOf(Hash, Segment), NEW W \in Seq(Segment), NEW U \in Seq(Unit),
         NEW w0, NEW o0, NEW buf \in Seq(Segment), WriterOK(P, own),
         Traced(own, U, w0, o0, P.encoder_window, W, FALSE)
  PROVE  Encoded(Encode(EncodeStart(own, P.encoder_window), buf), own, U, w0, o0, W \o buf)
<1> DEFINE s == EncodeStart(own, P.encoder_window)
<1>1. /\ s.cache = own /\ s.units = <<>> /\ s.window = P.encoder_window
  BY Zenon DEF EncodeStart
<1>2. s \in EncoderState
  <2>1. <<>> \in Seq(Unit) /\ P.encoder_window \in Window
    BY DEF WriterOK, WindowInv
  <2> QED
    BY <2>1, Zenon DEF EncodeStart, EncoderState
<1>3. SubMap(own, own) /\ U \o <<>> = U
  BY DEF SubMap
<1>4. Encoded(s, own, U, w0, o0, W)
  <2> HIDE DEF s
  <2>1. Traced(s.cache, U \o s.units, w0, o0, s.window, W, FALSE)
    BY <1>1, <1>3, Zenon
  <2> QED
    BY <1>1, <1>2, <1>3, <2>1, Zenon DEF Encoded, WriterOK
<1> HIDE DEF s
<1>5. Encoded(Encode(s, buf), own, U, w0, o0, W \o buf)
  BY <1>4, EncodeStep, Zenon
<1> QED
  BY <1>5, Zenon DEF s

\* What an encoder sent to nobody still leaves its cache and its window sound.
LEMMA EncodeSound ==
  ASSUME Induction, NEW P, NEW P2, NEW own \in MapOf(Hash, Segment),
         NEW buf \in Seq(Segment), WriterOK(P, own), NEW s,
         s = Encode(EncodeStart(own, P.encoder_window), buf),
         P2.encoder_window = s.window
  PROVE  /\ s \in EncoderState /\ SubMap(own, s.cache) /\ WriterOK(P2, s.cache)
<1> DEFINE w == P.encoder_window
           W == <<>>
           t == [win |-> w, out |-> W, inside |-> FALSE]
           T == [i \in 0..0 |-> t]
           none == <<>>
<1>1. /\ none \in Seq(Unit) /\ W \in Seq(Segment)
      /\ Len(none) = 0 /\ 0..0 = {0} /\ 1..0 = {}
  OBVIOUS
<1>2. T[0] = t /\ t.win = w /\ t.out = W /\ t.inside = FALSE
  OBVIOUS
<1>3. TraceState(own, t)
  BY <1>1, Zenon DEF TraceState, WriterOK
<1>4. IsTrace(own, none, T)
  <2> HIDE DEF T, t, none, W
  <2> QED
    BY <1>1, <1>2, <1>3, Zenon DEF IsTrace
<1>5. Traced(own, none, w, W, w, W, FALSE)
  <2> HIDE DEF T, t, none, w, W
  <2> QED
    BY <1>1, <1>2, <1>4, Zenon DEF Traced
<1>6. Encoded(s, own, none, w, W, W \o buf)
  <2> HIDE DEF none, W
  <2> QED
    BY <1>1, <1>5, EncodeBuffer, Zenon
<1> QED
  BY <1>6, Zenon DEF Encoded, WriterOK

\* Frames of up to M units cover n units without a gap, and none is empty.
LEMMA FrameBounds ==
  ASSUME NEW n \in Nat, NEW M \in Nat \ {0}
  PROVE  LET count == (n + M - 1) \div M IN
         /\ count \in Nat /\ FrameEnd(n, M, 0) = 0 /\ FrameEnd(n, M, count) = n
         /\ \A i \in 1..count :
              /\ FrameEnd(n, M, i - 1) = (i - 1) * M /\ FrameEnd(n, M, i) \in 0..n
              /\ FrameEnd(n, M, i) - (i - 1) * M \in 1..M
<1> DEFINE count == (n + M - 1) \div M
<1>1. n + M - 1 \in Nat
  OBVIOUS
<1>2. count \in Nat /\ count * M <= n + M - 1 /\ n + M - 1 < count * M + M
  <2> DEFINE a == n + M - 1
  <2>1. a \in Nat
    BY <1>1, Zenon
  <2> HIDE DEF a
  <2>2. a \div M \in Nat /\ (a \div M) * M <= a /\ a < (a \div M) * M + M
    BY <2>1
  <2> QED
    BY <2>2, Zenon DEF a
<1> HIDE DEF count
<1>3. count * M >= n
  BY <1>2
<1>4. FrameEnd(n, M, count) = n /\ FrameEnd(n, M, 0) = 0
  BY <1>2, <1>3 DEF FrameEnd
<1>5. ASSUME NEW i \in 1..count
      PROVE  /\ FrameEnd(n, M, i - 1) = (i - 1) * M /\ FrameEnd(n, M, i) \in 0..n
             /\ FrameEnd(n, M, i) - (i - 1) * M \in 1..M
  <2>1. i * M = (i - 1) * M + M /\ (i - 1) * M \in Nat
    BY <1>2
  <2>2. (i - 1) * M <= (count - 1) * M
    BY <1>2
  <2>3. (count - 1) * M = count * M - M
    BY <1>2
  <2>4. (i - 1) * M < n
    <3> DEFINE x == (i - 1) * M
               y == count * M
    <3>1. x <= y - M /\ x \in Nat /\ y \in Nat
      BY <1>2, <2>1, <2>2, <2>3
    <3>2. y <= n + M - 1
      BY <1>2, Zenon
    <3> HIDE DEF x, y
    <3>3. x < n
      BY <3>1, <3>2
    <3> QED
      BY <3>3, Zenon DEF x
  <2> DEFINE x == (i - 1) * M
             z == i * M
  <2>5. z = x + M /\ x \in Nat /\ x < n
    BY <2>1, <2>4, Zenon
  <2>6. FrameEnd(n, M, i - 1) = x
    BY <2>4, Zenon DEF FrameEnd
  <2>7. FrameEnd(n, M, i) = IF z < n THEN z ELSE n
    BY Zenon DEF FrameEnd
  <2> HIDE DEF x, z
  <2>8. FrameEnd(n, M, i) \in 0..n /\ FrameEnd(n, M, i) - x \in 1..M
    BY <2>5, <2>7
  <2> QED
    BY <2>6, <2>8, Zenon DEF x
<1> QED
  BY <1>2, <1>4, <1>5, Zenon DEF count

\* encode_frame makes frames of permitted length that carry the units.
LEMMA FramesAreTyped ==
  ASSUME NEW units \in Seq(Unit), NEW F, F = EncodeFrame(units)
  PROVE  FramesOf(F, units)
<1> DEFINE n == Len(units)
           M == MAX_FRAME
           count == (n + M - 1) \div M
           end(i) == FrameEnd(n, M, i)
           part(i) == SubSeq(units, (i - 1) * M + 1, end(i))
           m(i) == [op |-> "FRAME", units |-> part(i)]
<1>1. n \in Nat /\ M \in Nat \ {0}
  BY PipeAssumption
<1>2. /\ count \in Nat /\ end(0) = 0 /\ end(count) = n
      /\ \A i \in 1..count : /\ end(i - 1) = (i - 1) * M /\ end(i) \in 0..n
                             /\ end(i) - (i - 1) * M \in 1..M
  <2> HIDE DEF n, M
  <2> QED
    BY <1>1, FrameBounds, Zenon
<1>3. F = [i \in 1..count |-> m(i)]
  BY Zenon DEF EncodeFrame, FrameEnd
<1>4. ASSUME NEW i \in 1..count
      PROVE  /\ part(i) \in {us \in Seq(Unit) : Len(us) \in 1..M}
             /\ Len(part(i)) = end(i) - end(i - 1)
             /\ \A j \in 1..Len(part(i)) : part(i)[j] = units[end(i - 1) + j]
  <2> DEFINE a == (i - 1) * M
             b == end(i)
  <2>1. a \in Nat /\ b \in 0..n /\ b - a \in 1..M /\ end(i - 1) = a
    <3>1. (i - 1) * M \in Nat
      BY <1>1, <1>2
    <3> QED
      BY <1>2, <3>1, Zenon
  <2>2. part(i) = SubSeq(units, a + 1, b)
    OBVIOUS
  <2> HIDE DEF a, b
  <2>3. SubSeq(units, a + 1, b) \in Seq(Unit)
    <3>1. \A k \in (a + 1)..b : units[k] \in Unit
      BY <1>1, <2>1
    <3> QED
      BY <1>1, <2>1, <3>1
  <2>4. /\ Len(SubSeq(units, a + 1, b)) = b - a
        /\ \A j \in 1..(b - a) : SubSeq(units, a + 1, b)[j] = units[a + j]
    BY <1>1, <2>1
  <2> HIDE DEF part, n, M, end
  <2> QED
    BY <2>1, <2>2, <2>3, <2>4, Zenon DEF b
<1> HIDE DEF part
<1>5. ASSUME NEW i \in 1..count PROVE m(i) \in AnyMessage /\ m(i).op = "FRAME" /\ m(i).units = part(i)
  BY <1>4, Zenon DEF AnyMessage
<1> HIDE DEF m, count
<1>6. F \in Seq(AnyMessage) /\ Len(F) = count /\ \A i \in 1..count : F[i] = m(i)
  BY <1>2, <1>3, <1>5
<1> HIDE DEF end
<1>7. ASSUME NEW i \in 1..Len(F)
      PROVE  /\ F[i].op = "FRAME" /\ end(i) \in 0..n
             /\ Len(F[i].units) = end(i) - end(i - 1)
             /\ \A j \in 1..Len(F[i].units) : F[i].units[j] = units[end(i - 1) + j]
  <2>1. i \in 1..count /\ F[i] = m(i)
    BY <1>6, Zenon
  <2>2. F[i].units = part(i) /\ F[i].op = "FRAME"
    BY <1>5, <2>1, Zenon
  <2> QED
    BY <1>2, <1>4, <2>1, <2>2, Zenon
<1> QED
  BY <1>2, <1>6, <1>7, Zenon DEF FramesOf, end, n, M

\* A position in a frame that lies within a stream is a position of the stream.
LEMMA WithinPiece ==
    ASSUME NEW m \in Nat, NEW a \in 0..m, NEW b \in 0..m, NEW n \in Nat, b = a + n,
           NEW j \in 1..n
    PROVE  a + j \in 1..m
OBVIOUS

\* Frames sent after C carry on with the units that C brings.
LEMMA FramesFlat ==
  ASSUME NEW B, NEW C \in Seq(AnyMessage), NEW U, NEW pos, Flat(B, C, U, pos),
         NEW units \in Seq(Unit)
  PROVE  \E to : Flat(B, C \o EncodeFrame(units), U \o units, to)
<1> DEFINE F == EncodeFrame(units)
           D == C \o F
           U2 == U \o units
           end(i) == FrameEnd(Len(units), MAX_FRAME, i)
           to == [i \in 0..Len(D) |-> IF i <= Len(C) THEN pos[i] ELSE Len(U) + end(i - Len(C))]
<1>1. /\ F \in Seq(AnyMessage) /\ end(0) = 0 /\ end(Len(F)) = Len(units)
      /\ \A i \in 1..Len(F) :
           /\ F[i].op = "FRAME" /\ end(i) \in 0..Len(units)
           /\ Len(F[i].units) = end(i) - end(i - 1)
           /\ \A j \in 1..Len(F[i].units) : F[i].units[j] = units[end(i - 1) + j]
  <2>1. F = EncodeFrame(units)
    OBVIOUS
  <2> HIDE DEF F
  <2>2. FramesOf(F, units)
    BY <2>1, FramesAreTyped, Zenon
  <2> QED
    BY <2>2, Zenon DEF FramesOf
<1> HIDE DEF F, end
<1>2. /\ U \in Seq(Unit) /\ pos \in [0..Len(C) -> 0..Len(U)] /\ pos[0] = Len(B)
      /\ pos[Len(C)] = Len(U)
  BY Zenon DEF Flat
<1>3. /\ Len(C) \in Nat /\ Len(F) \in Nat /\ Len(U) \in Nat /\ Len(units) \in Nat
      /\ D \in Seq(AnyMessage) /\ Len(D) = Len(C) + Len(F)
      /\ U2 \in Seq(Unit) /\ Len(U2) = Len(U) + Len(units)
  BY <1>1, <1>2
<1>4. /\ \A i \in 1..Len(C) : D[i] = C[i]
      /\ \A i \in 1..Len(F) : D[Len(C) + i] = F[i]
      /\ \A i \in 1..Len(U) : U2[i] = U[i]
      /\ \A i \in 1..Len(units) : U2[Len(U) + i] = units[i]
  BY <1>1, <1>2
<1>5. \A i \in 0..Len(F) : end(i) \in 0..Len(units)
  BY <1>1, <1>3
<1>6. /\ \A i \in 0..Len(C) : to[i] = pos[i]
      /\ \A i \in 0..Len(F) : to[Len(C) + i] = Len(U) + end(i)
  <2>1. \A i \in 0..Len(C) : to[i] = pos[i]
    BY <1>3
  <2>2. ASSUME NEW i \in 0..Len(F) PROVE to[Len(C) + i] = Len(U) + end(i)
    <3>1. CASE i = 0
      BY <1>1, <1>2, <1>3, <2>1, <3>1
    <3>2. CASE i # 0
      <4>1. Len(C) + i \in 0..Len(D) /\ ~(Len(C) + i <= Len(C)) /\ (Len(C) + i) - Len(C) = i
        BY <1>3, <3>2
      <4> HIDE DEF D
      <4> QED
        BY <4>1, Zenon
    <3> QED
      BY <3>1, <3>2, Zenon
  <2> QED
    BY <2>1, <2>2, Zenon
<1>7. to \in [0..Len(D) -> 0..Len(U2)] /\ to[0] = Len(B) /\ to[Len(D)] = Len(U2)
  <2>1. ASSUME NEW i \in 0..Len(D) PROVE to[i] \in 0..Len(U2)
    <3>1. CASE i <= Len(C)
      <4>1. i \in 0..Len(C) /\ to[i] = pos[i]
        BY <1>3, <1>6, <3>1
      <4>2. pos[i] \in 0..Len(U)
        BY <1>2, <4>1, Zenon
      <4> HIDE DEF to
      <4> QED
        BY <1>3, <4>1, <4>2
    <3>2. CASE ~(i <= Len(C))
      <4> DEFINE k == i - Len(C)
      <4>1. k \in 0..Len(F) /\ i = Len(C) + k
        BY <1>3, <3>2
      <4> HIDE DEF k, to, U2, D
      <4>2. to[i] = Len(U) + end(k) /\ end(k) \in 0..Len(units)
        BY <1>5, <1>6, <4>1, Zenon
      <4> QED
        BY <1>3, <4>2
    <3> QED
      BY <3>1, <3>2, Zenon
  <2>2. 0 \in 0..Len(C) /\ Len(F) \in 0..Len(F)
    BY <1>3
  <2>3. to[0] = Len(B)
    <3> HIDE DEF to
    <3> QED
      BY <1>2, <1>6, <2>2, Zenon
  <2>4. to[Len(D)] = Len(U2)
    <3> HIDE DEF to, D, U2
    <3> QED
      BY <1>1, <1>3, <1>6, <2>2, Zenon
  <2> QED
    BY <2>1, <2>3, <2>4, Zenon
<1> HIDE DEF to, D, U2
<1>8. ASSUME NEW i \in 1..Len(B) PROVE B[i] = U2[i]
  <2>1. Len(B) \in 0..Len(U) /\ B[i] = U[i]
    <3>1. 0 \in 0..Len(C)
      BY <1>3
    <3> QED
      BY <1>2, <3>1, Zenon DEF Flat
  <2>2. i \in 1..Len(U)
    BY <1>3, <2>1
  <2> QED
    BY <1>4, <2>1, <2>2, Zenon
<1>9. ASSUME NEW i \in 1..Len(D) PROVE Piece(D[i], U2, to[i - 1], to[i])
  <2>1. CASE i <= Len(C)
    <3>1. i \in 1..Len(C) /\ i \in 0..Len(C) /\ i - 1 \in 0..Len(C)
      BY <1>3, <2>1
    <3>2. Piece(C[i], U, pos[i - 1], pos[i])
      BY <3>1, Zenon DEF Flat
    <3>3. D[i] = C[i] /\ to[i - 1] = pos[i - 1] /\ to[i] = pos[i]
      BY <1>4, <1>6, <3>1, Zenon
    <3>4. pos[i - 1] \in 0..Len(U) /\ pos[i] \in 0..Len(U)
      BY <1>2, <3>1, Zenon
    <3>5. CASE C[i].op = "FRAME"
      <4>1. /\ pos[i] = pos[i - 1] + Len(C[i].units)
            /\ \A j \in 1..Len(C[i].units) : C[i].units[j] = U[pos[i - 1] + j]
        BY <3>2, <3>5, Zenon DEF Piece
      <4>2. C[i] \in AnyMessage
        BY <3>1
      <4>3. Len(C[i].units) \in Nat
        BY <3>5, <4>2 DEF AnyMessage, Message
      <4>4. ASSUME NEW j \in 1..Len(C[i].units) PROVE C[i].units[j] = U2[pos[i - 1] + j]
        <5>1. Len(U) \in Nat
          BY <1>3
        <5>2. pos[i - 1] + j \in 1..Len(U)
          BY <3>4, <4>1, <4>3, <5>1, WithinPiece, Zenon
        <5> QED
          BY <1>4, <4>1, <5>2, Zenon
      <4> QED
        BY <3>3, <3>5, <4>1, <4>4, Zenon DEF Piece
    <3>6. CASE C[i].op # "FRAME"
      BY <3>2, <3>3, <3>6, Zenon DEF Piece
    <3> QED
      BY <3>5, <3>6, Zenon
  <2>2. CASE ~(i <= Len(C))
    <3> DEFINE k == i - Len(C)
    <3>1. k \in 1..Len(F) /\ k \in 0..Len(F) /\ k - 1 \in 0..Len(F) /\ i = Len(C) + k
          /\ i - 1 = Len(C) + (k - 1)
      BY <1>3, <2>2
    <3> HIDE DEF k
    <3>2. D[i] = F[k] /\ to[i - 1] = Len(U) + end(k - 1) /\ to[i] = Len(U) + end(k)
      BY <1>4, <1>6, <3>1, Zenon
    <3>3. /\ F[k].op = "FRAME" /\ Len(F[k].units) = end(k) - end(k - 1)
          /\ \A j \in 1..Len(F[k].units) : F[k].units[j] = units[end(k - 1) + j]
      BY <1>1, <3>1, Zenon
    <3>4. end(k) \in 0..Len(units) /\ end(k - 1) \in 0..Len(units)
      BY <1>5, <3>1, Zenon
    <3>5. to[i] = to[i - 1] + Len(F[k].units)
      BY <1>3, <3>2, <3>3, <3>4
    <3>6. ASSUME NEW j \in 1..Len(F[k].units) PROVE F[k].units[j] = U2[to[i - 1] + j]
      <4> DEFINE a == end(k - 1)
                 b == end(k)
      <4>2. a \in 0..Len(units) /\ b \in 0..Len(units) /\ j \in 1..(b - a)
        BY <3>3, <3>4, Zenon
      <4>3. to[i - 1] = Len(U) + a
        BY <3>2, Zenon
      <4> HIDE DEF a, b
      <4>4. a + j \in 1..Len(units) /\ to[i - 1] + j = Len(U) + (a + j)
        BY <1>3, <4>2, <4>3
      <4>1. end(k - 1) + j \in 1..Len(units) /\ to[i - 1] + j = Len(U) + (end(k - 1) + j)
        BY <4>4, Zenon DEF a
      <4> QED
        BY <1>4, <3>3, <4>1, Zenon
    <3> QED
      BY <3>2, <3>3, <3>5, <3>6, Zenon DEF Piece
  <2> QED
    BY <1>3, <2>1, <2>2, Zenon
<1>10. Flat(B, D, U2, to)
  BY <1>3, <1>7, <1>8, <1>9, Zenon DEF Flat
<1> QED
  BY <1>10, Zenon DEF D, U2, F
=============================================================================
