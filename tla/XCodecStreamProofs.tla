------------------------- MODULE XCodecStreamProofs -------------------------
(***************************************************************************)
(* For every window size, every set of segments and hashes and every hash  *)
(* function: the windows' ASSERTs hold, the decoder never fails and what   *)
(* it outputs is what was sent.                                            *)
(***************************************************************************)
EXTENDS XCodecStream, SequenceTheorems, TLAPS

-----------------------------------------------------------------------------
(***************************************************************************)
(* The maps and the windows that the codec is built from, for every window *)
(* size and every set of hashes and segments.                              *)
(***************************************************************************)

\* Membership in a set of maps, as a fact about the map.
LEMMA MapFacts ==
  ASSUME NEW K, NEW V, NEW m
  PROVE  m \in MapOf(K, V) <=> /\ m = [x \in DOMAIN m |-> m[x]]
                              /\ DOMAIN m \subseteq K
                              /\ \A x \in DOMAIN m : m[x] \in V
  BY DEF MapOf

\* The empty map is a map.
LEMMA EmptyMapType == ASSUME NEW K, NEW V PROVE EmptyMap \in MapOf(K, V)
<1>1. {} \in SUBSET K /\ EmptyMap \in [{} -> V]
  BY DEF EmptyMap
<1>2. QED
  BY <1>1 DEF MapOf

\* Insert and Erase preserve the type of a map.
LEMMA InsertType ==
  ASSUME NEW K, NEW V, NEW m \in MapOf(K, V), NEW k \in K, NEW v \in V
  PROVE  Insert(m, k, v) \in MapOf(K, V)
  BY MapFacts DEF Insert

\* Erasing a key from a map leaves a map of the same type.
LEMMA EraseType ==
  ASSUME NEW K, NEW V, NEW m \in MapOf(K, V), NEW k
  PROVE  Erase(m, k) \in MapOf(K, V)
  BY MapFacts DEF Erase

\* The window starts out consistent.
LEMMA EmptyWindowInv == WindowInv(EmptyWindow)
<1>1. EmptyWindow \in Window
  BY WindowAssumption, EmptyMapType DEF Window, EmptyWindow, Slot
<1>2. QED
  BY <1>1 DEF WindowInv, EmptyWindow, EmptyMap

\* XCodecWindow::declare keeps present_ the inverse of window_.
LEMMA DeclareInv ==
  ASSUME NEW w, WindowInv(w), NEW hash \in Hash, NEW seg \in Segment
  PROVE  WindowInv(Declare(w, hash, seg))
<1>1. CASE hash = 0 \/ hash \in DOMAIN w.present
  BY <1>1 DEF Declare
<1>2. CASE hash # 0 /\ hash \notin DOMAIN w.present
  <2> DEFINE old == w.window[w.cursor]
             x == Declare(w, hash, seg)
  <2>1. x = [window   |-> [w.window EXCEPT ![w.cursor] = hash],
             cursor   |-> (w.cursor + 1) % WINDOW_COUNT,
             present  |-> Insert(Erase(w.present, old), hash, w.cursor),
             segments |-> Insert(Erase(w.segments, old), hash, seg)]
    BY <1>2 DEF Declare
  <2>2. /\ w.window \in [Slot -> Hash \cup {0}] /\ w.cursor \in Slot
        /\ w.present \in MapOf(Hash \ {0}, Slot)
        /\ w.segments \in MapOf(Hash \ {0}, Segment)
        /\ DOMAIN w.segments = DOMAIN w.present
        /\ \A h \in DOMAIN w.present : w.present[h] \in Slot
    BY MapFacts DEF WindowInv, Window
  <2>3. /\ x.window = [w.window EXCEPT ![w.cursor] = hash]
        /\ x.cursor = (w.cursor + 1) % WINDOW_COUNT
        /\ x.present = Insert(Erase(w.present, old), hash, w.cursor)
        /\ x.segments = Insert(Erase(w.segments, old), hash, seg)
    BY <2>1
  <2>4. x.cursor \in Slot
    BY <2>2, <2>3, WindowAssumption DEF Slot
  <2>5. /\ DOMAIN x.present = (DOMAIN w.present \ {old}) \cup {hash}
        /\ DOMAIN x.segments = DOMAIN x.present
        /\ \A h \in DOMAIN x.present :
             x.present[h] = IF h = hash THEN w.cursor ELSE w.present[h]
    BY <2>2, <2>3 DEF Insert, Erase
  <2>6. x.present \in MapOf(Hash \ {0}, Slot)
    <3>1. Erase(w.present, old) \in MapOf(Hash \ {0}, Slot)
      BY <2>2, EraseType
    <3>2. hash \in Hash \ {0} /\ w.cursor \in Slot
      BY <1>2, <2>2
    <3>3. QED
      BY <2>3, <3>1, <3>2, InsertType
  <2>7. x.segments \in MapOf(Hash \ {0}, Segment)
    <3>1. Erase(w.segments, old) \in MapOf(Hash \ {0}, Segment)
      BY <2>2, EraseType
    <3>2. QED
      BY <1>2, <2>2, <2>3, <3>1, InsertType
  <2>8. x \in Window
    BY <2>1, <2>2, <2>3, <2>4, <2>6, <2>7 DEF Window
  <2>9. \A h \in DOMAIN x.present : x.window[x.present[h]] = h
    <3>1. \A h \in DOMAIN w.present : w.window[w.present[h]] = h
      BY DEF WindowInv
    <3>2. QED
      BY <2>2, <2>3, <2>5, <3>1, SMTT(30)
  <2>10. \A c \in Slot : x.window[c] # 0 => /\ x.window[c] \in DOMAIN x.present
                                            /\ x.present[x.window[c]] = c
    BY <1>2, <2>2, <2>3, <2>5, SMTT(30) DEF WindowInv
  <2>11. QED
    BY <2>5, <2>8, <2>9, <2>10 DEF WindowInv
<1>3. QED
  BY <1>1, <1>2

\* A consistent window passes every ASSERT of XCodecWindow.
LEMMA InvAsserts ==
  ASSUME NEW w, WindowInv(w)
  PROVE  AssertsHold(w)
  BY DEF WindowInv, Window, AssertsHold, Holds

\* The segments a window refers to are cached once the declared one is.
LEMMA DeclareSubMap ==
  ASSUME NEW w, NEW m, NEW hash \in Hash, NEW seg \in Segment,
         SubMap(w.segments, m), hash \in DOMAIN m, m[hash] = seg
  PROVE  SubMap(Declare(w, hash, seg).segments, m)
  BY DEF Declare, SubMap, Insert, Erase

\* Inserting a free key keeps every binding.
LEMMA InsertSubMap ==
  ASSUME NEW m, NEW n, NEW k, NEW v, SubMap(m, n), k \notin DOMAIN n
  PROVE  SubMap(m, Insert(n, k, v))
  BY DEF SubMap, Insert
-----------------------------------------------------------------------------

\* The lengths and the integrity that IInv contains, without the rest of it.
LEMMA Lengths ==
  ASSUME IInv
  PROVE  /\ Len(recv) \in Nat /\ Len(sent) \in Nat /\ Len(recv) <= Len(sent)
         /\ Len(ewins) = Len(sent) + 1 /\ Len(ops) = Len(sent)
<1>1. /\ recv \in Seq(Segment) /\ sent \in Seq(Segment) /\ StreamIntegrity
      /\ Len(ewins) = Len(sent) + 1 /\ Len(ops) = Len(sent)
  BY Zenon DEF IInv
<1>2. QED
  BY <1>1 DEF StreamIntegrity

-----------------------------------------------------------------------------
\* Appending one symbol keeps the part of the invariant that is about the
\* encoder, when that symbol was encoded under the current window.
LEMMA EmitInv ==
  ASSUME IInv, NEW seg \in Segment, NEW symbol \in Symbol, NEW w,
         WindowInv(w), SubMap(w.segments, ecache'),
         ecache' \in MapOf(Hash, Segment), SubMap(ecache, ecache'),
         \A h \in DOMAIN ecache' : HashOf[ecache'[h]] = h,
         Emit(seg, symbol, w), UNCHANGED decoderVars,
         NEW n \in Nat, n = Len(sent), EncodedFrom(n + 1)'
  PROVE  IInv'
<1>1. /\ sent' \in Seq(Segment) /\ Len(sent') = n + 1
      /\ \A i \in 1..n : sent'[i] = sent[i]
      /\ ops' \in Seq(Symbol) /\ Len(ops') = n + 1
      /\ \A i \in 1..n : ops'[i] = ops[i]
      /\ n \in Nat
  BY DEF IInv, Emit
<1>2. /\ ewins' \in Seq(Window) /\ Len(ewins') = n + 2
      /\ \A i \in 1..(n + 1) : ewins'[i] = ewins[i]
      /\ ewins'[n + 2] = w
  BY DEF IInv, Emit, WindowInv
<1>3. \A i \in 1..Len(ewins') : /\ WindowInv(ewins'[i])
                                /\ SubMap(ewins'[i].segments, ecache')
  <2> SUFFICES ASSUME NEW i \in 1..(n + 2)
               PROVE  WindowInv(ewins'[i]) /\ SubMap(ewins'[i].segments, ecache')
    BY <1>2
  <2>1. CASE i = n + 2
    BY <1>2, <2>1
  <2>2. CASE i \in 1..(n + 1)
    BY <1>2, <2>2 DEF IInv, SubMap
  <2>3. QED
    BY <2>1, <2>2
<1>4. \A i \in 1..Len(sent') : EncodedFrom(i)'
  <2> SUFFICES ASSUME NEW i \in 1..n PROVE EncodedFrom(i)'
    <3>1. \A i \in 1..(n + 1) : i \in 1..n \/ i = n + 1
      OBVIOUS
    <3>2. QED
      BY <1>1, <3>1
  <2>1. EncodedFrom(i)
    BY DEF IInv
  <2>2. /\ sent'[i] = sent[i] /\ ops'[i] = ops[i]
        /\ ewins'[i] = ewins[i] /\ ewins'[i + 1] = ewins[i + 1]
    BY <1>1, <1>2
  <2>3. QED
    BY <2>1, <2>2 DEF EncodedFrom, SubMap, Present
<1>5. UNCHANGED <<dcache, dwin, unknown, error, recv>>
  BY DEF decoderVars
<1>6. Len(recv) \in 0..n /\ \A i \in 1..Len(recv) : recv[i] = sent[i]
  BY <1>1 DEF IInv, StreamIntegrity
<1>7. StreamIntegrity'
  BY <1>1, <1>5, <1>6 DEF StreamIntegrity
<1>8. dwin' = ewins'[Len(recv') + 1]
  BY <1>1, <1>2, <1>5, <1>6 DEF IInv
<1>9. SubMap(dcache', ecache') /\ unknown' \subseteq DOMAIN ecache'
  BY <1>5 DEF IInv, SubMap
<1>10. QED
  BY <1>1, <1>2, <1>3, <1>4, <1>5, <1>7, <1>8, <1>9 DEF IInv

\* Decoding the next symbol keeps the invariant when it outputs the segment
\* that was sent and leaves the window the encoder had after that segment.
LEMMA OutputInv ==
  ASSUME IInv, Len(recv) < Len(ops),
         dcache' \in MapOf(Hash, Segment), SubMap(dcache', ecache),
         Output(sent[Len(recv) + 1]), dwin' = ewins[Len(recv) + 2],
         UNCHANGED <<unknown, error>>, UNCHANGED encoderVars
  PROVE  IInv'
<1> DEFINE n == Len(recv)
<1>1. /\ sent' = sent /\ ops' = ops /\ ewins' = ewins /\ ecache' = ecache
      /\ unknown' = unknown /\ error' = error
  BY DEF encoderVars
<1>2. n \in Nat /\ n + 1 \in 1..Len(sent) /\ sent[n + 1] \in Segment
  BY DEF IInv
<1>3. /\ recv' \in Seq(Segment) /\ Len(recv') = n + 1
      /\ \A i \in 1..n : recv'[i] = recv[i]
      /\ recv'[n + 1] = sent[n + 1]
  BY <1>2 DEF IInv, Output
<1>4. StreamIntegrity'
  <2>1. \A i \in 1..n : recv[i] = sent[i]
    BY DEF IInv, StreamIntegrity
  <2>2. \A i \in 1..(n + 1) : recv'[i] = sent[i]
    BY <1>2, <1>3, <2>1
  <2>3. QED
    BY <1>1, <1>2, <1>3, <2>2 DEF StreamIntegrity
<1>5. dwin' = ewins'[Len(recv') + 1]
  BY <1>1, <1>2, <1>3
<1>6. \A i \in 1..Len(sent') : EncodedFrom(i)'
  BY <1>1 DEF IInv, EncodedFrom
<1>7. QED
  BY <1>1, <1>3, <1>4, <1>5, <1>6 DEF IInv

-----------------------------------------------------------------------------
\* Each of the three ways to encode a segment keeps the invariant.
LEMMA EncodeInv ==
  ASSUME IInv, Encode
  PROVE  IInv'
<1>1. PICK seg \in Segment : \/ EncodeDeclaration(seg)
                             \/ EncodeReference(seg)
                             \/ EncodeCollision(seg)
  BY DEF Encode
<1>n. PICK n \in Nat : n = Len(sent)
  BY DEF IInv
<1> DEFINE hash == HashOf[seg]
<1>2. /\ UNCHANGED decoderVars /\ hash \in Hash /\ n \in Nat /\ n = Len(sent)
      /\ Len(ewins) = n + 1 /\ ewin = ewins[n + 1]
      /\ WindowInv(ewin) /\ SubMap(ewin.segments, ecache)
      /\ ecache \in MapOf(Hash, Segment) /\ SubMap(ecache, ecache)
      /\ \A h \in DOMAIN ecache : HashOf[ecache[h]] = h
  BY <1>n, StreamAssumption DEF Encode, IInv, ewin, SubMap
<1>3. ASSUME NEW symbol, NEW w, Emit(seg, symbol, w)
      PROVE  /\ sent'[n + 1] = seg /\ ops'[n + 1] = symbol
             /\ ewins'[n + 1] = ewin /\ ewins'[(n + 1) + 1] = w
  <2>1. /\ sent \in Seq(Segment) /\ Len(sent) = n
        /\ ops \in Seq(Symbol) /\ Len(ops) = n
        /\ ewins \in Seq(Window) /\ Len(ewins) = n + 1
    BY <1>2 DEF IInv
  <2>2. /\ sent' = Append(sent, seg) /\ ops' = Append(ops, symbol)
        /\ ewins' = Append(ewins, w)
    BY <1>3 DEF Emit
  <2>3. sent'[n + 1] = seg /\ ops'[n + 1] = symbol
    BY <1>2, <2>1, <2>2
  <2>4. ewins'[n + 1] = ewin /\ ewins'[(n + 1) + 1] = w
    BY <1>2, <2>1, <2>2
  <2>5. QED
    BY <2>3, <2>4
<1>4. CASE EncodeDeclaration(seg)
  <2> DEFINE w == Declare(ewin, hash, seg)
  <2>1. /\ hash \notin DOMAIN ecache /\ ecache' = Insert(ecache, hash, seg)
        /\ Emit(seg, Extract(seg), w)
    BY <1>4 DEF EncodeDeclaration
  <2>2. ecache' \in MapOf(Hash, Segment)
    BY <1>2, <2>1, InsertType
  <2>3. /\ hash \in DOMAIN ecache' /\ ecache'[hash] = seg
        /\ \A h \in DOMAIN ecache' : HashOf[ecache'[h]] = h
    BY <1>2, <2>1 DEF Insert
  <2>4. SubMap(ecache, ecache') /\ SubMap(ewin.segments, ecache')
    BY <1>2, <2>1, InsertSubMap
  <2>5. WindowInv(w) /\ SubMap(w.segments, ecache')
    BY <1>2, <2>3, <2>4, DeclareInv, DeclareSubMap
  <2>6. EncodedFrom(n + 1)'
    <3>1. /\ sent'[n + 1] = seg /\ ops'[n + 1] = Extract(seg)
          /\ ewins'[n + 1] = ewin /\ ewins'[(n + 1) + 1] = w
      BY <1>2, <1>3, <2>1, ZenonT(30)
    <3>2. QED
      BY <2>3, <3>1 DEF EncodedFrom
  <2>7. Extract(seg) \in Symbol
    BY DEF Extract, Symbol
  <2>8. QED
    BY <1>2, <2>1, <2>2, <2>3, <2>4, <2>5, <2>6, <2>7, EmitInv
<1>5. CASE EncodeReference(seg)
  <2>1. hash \in DOMAIN ecache /\ ecache[hash] = seg /\ ecache' = ecache
    BY <1>5 DEF EncodeReference
  <2>2. CASE Present(ewin, hash)
    <3> DEFINE symbol == BackRef(ewin.present[hash])
    <3>1. Emit(seg, symbol, ewin)
      BY <1>5, <2>2 DEF EncodeReference
    <3>2. symbol \in Symbol
      <4>1. ewin.present[hash] \in Slot
        BY <1>2, <2>2, MapFacts DEF WindowInv, Window, Present
      <4>2. QED
        BY <4>1 DEF BackRef, Symbol
    <3>3. EncodedFrom(n + 1)'
      <4>1. /\ sent'[n + 1] = seg /\ ops'[n + 1] = symbol
            /\ ewins'[n + 1] = ewin /\ ewins'[(n + 1) + 1] = ewin
        BY <1>2, <1>3, <3>1, ZenonT(30)
      <4>2. QED
        BY <2>1, <2>2, <4>1 DEF EncodedFrom, Present
    <3>4. QED
      BY <1>2, <2>1, <3>1, <3>2, <3>3, EmitInv
  <2>3. CASE ~Present(ewin, hash)
    <3> DEFINE w == Declare(ewin, hash, seg)
    <3>1. Emit(seg, Ref(hash), w)
      BY <1>5, <2>3 DEF EncodeReference
    <3>2. WindowInv(w) /\ SubMap(w.segments, ecache')
      BY <1>2, <2>1, DeclareInv, DeclareSubMap
    <3>3. EncodedFrom(n + 1)'
      <4>1. /\ sent'[n + 1] = seg /\ ops'[n + 1] = Ref(hash)
            /\ ewins'[n + 1] = ewin /\ ewins'[(n + 1) + 1] = w
        BY <1>2, <1>3, <3>1, ZenonT(30)
      <4>2. QED
        BY <2>1, <4>1 DEF EncodedFrom
    <3>4. Ref(hash) \in Symbol
      BY <1>2 DEF Ref, Symbol
    <3>5. QED
      BY <1>2, <2>1, <3>1, <3>2, <3>3, <3>4, EmitInv
  <2>4. QED
    BY <2>2, <2>3
<1>6. CASE EncodeCollision(seg)
  <2>1. Emit(seg, Escape(seg), ewin) /\ ecache' = ecache
    BY <1>6 DEF EncodeCollision
  <2>2. EncodedFrom(n + 1)'
    <3>1. /\ sent'[n + 1] = seg /\ ops'[n + 1] = Escape(seg)
          /\ ewins'[n + 1] = ewin /\ ewins'[(n + 1) + 1] = ewin
      BY <1>2, <1>3, <2>1, ZenonT(30)
    <3>2. QED
      BY <3>1 DEF EncodedFrom
  <2>3. Escape(seg) \in Symbol
    BY DEF Escape, Symbol
  <2>4. QED
    BY <1>2, <2>1, <2>2, <2>3, EmitInv
<1>7. QED
  BY <1>1, <1>4, <1>5, <1>6

\* A hash that is present has a slot, the slot holds it, and its segment is kept.
LEMMA PresentFacts ==
  ASSUME NEW w, WindowInv(w), NEW h, Present(w, h)
  PROVE  h # 0 /\ w.window[w.present[h]] = h /\ h \in DOMAIN w.segments
<1>1. w.present \in MapOf(Hash \ {0}, Slot)
  BY DEF WindowInv, Window
<1>2. h \in Hash \ {0}
  BY <1>1, MapFacts DEF Present
<1>3. w.window[w.present[h]] = h /\ h \in DOMAIN w.segments
  BY DEF WindowInv, Present
<1>4. QED
  BY <1>2, <1>3

\* What the opcode of a symbol in flight tells about the encoder's step.
LEMMA SymbolCases ==
  ASSUME NEW i, EncodedFrom(i)
  PROVE  LET seg == sent[i]
             hash == HashOf[seg]
             cached == hash \in DOMAIN ecache /\ ecache[hash] = seg
         IN /\ ops[i].op = "ESCAPE" =>
                 ops[i] = Escape(seg) /\ ewins[i + 1] = ewins[i]
            /\ ops[i].op = "EXTRACT" =>
                 /\ ops[i] = Extract(seg) /\ cached
                 /\ ewins[i + 1] = Declare(ewins[i], hash, seg)
            /\ ops[i].op = "REF" =>
                 /\ ops[i] = Ref(hash) /\ cached
                 /\ ewins[i + 1] = Declare(ewins[i], hash, seg)
            /\ ops[i].op = "BACKREF" =>
                 /\ Present(ewins[i], hash) /\ cached
                 /\ ops[i] = BackRef(ewins[i].present[hash])
                 /\ ewins[i + 1] = ewins[i]
<1>1. /\ \A x : Escape(x).op = "ESCAPE"
      /\ \A x : Extract(x).op = "EXTRACT"
      /\ \A x : Ref(x).op = "REF"
      /\ \A x : BackRef(x).op = "BACKREF"
  BY DEF Escape, Extract, Ref, BackRef
<1>2. QED
  BY <1>1 DEF EncodedFrom

\* Decoding one symbol keeps the invariant: it is the symbol the encoder made
\* of the next segment, under the window the decoder now has.
LEMMA DecodeInv ==
  ASSUME IInv, Decode
  PROVE  IInv'
<1>i. PICK i \in Nat : i = Len(recv) + 1
  BY DEF IInv
<1>s. PICK seg : seg = sent[i]
  OBVIOUS
<1>h. PICK hash : hash = HashOf[seg]
  OBVIOUS
<1> DEFINE symbol == ops[i]
<1>1. /\ i \in 1..Len(sent) /\ Len(recv) < Len(ops)
      /\ EncodedFrom(i) /\ dwin = ewins[i]
      /\ WindowInv(dwin) /\ SubMap(dwin.segments, ecache)
      /\ seg \in Segment /\ hash \in Hash
      /\ dcache \in MapOf(Hash, Segment) /\ SubMap(dcache, ecache)
      /\ error = FALSE /\ UNCHANGED encoderVars
  BY <1>i, <1>s, <1>h, StreamAssumption DEF Decode, IInv
<1>w. EncodedFrom(i) /\ dwin = ewins[i] /\ seg = sent[i] /\ hash = HashOf[seg]
  BY <1>1, <1>s, <1>h
<1>o. /\ Len(recv) < Len(ops) /\ sent[Len(recv) + 1] = seg
      /\ ewins[Len(recv) + 2] = ewins[i + 1] /\ ops[Len(recv) + 1] = ops[i]
  BY <1>1, <1>i, <1>s, Lengths
<1>f. \A x : /\ Escape(x).seg = x /\ Extract(x).seg = x
             /\ Ref(x).hash = x /\ BackRef(x).slot = x
  BY DEF Escape, Extract, Ref, BackRef
<1>2. CASE DecodeEscape(symbol)
  <2>0. symbol.op = "ESCAPE"
    BY <1>2 DEF DecodeEscape
  <2>1. symbol = Escape(seg) /\ ewins[i + 1] = ewins[i]
    BY <1>w, <2>0, SymbolCases, ZenonT(30)
  <2>2. Output(seg) /\ dwin' = ewins[i + 1] /\ dcache' = dcache
    <3>1. symbol.seg = seg
      BY <1>f, <2>1
    <3>2. Output(seg) /\ dwin' = dwin /\ dcache' = dcache
      BY <1>2, <3>1 DEF DecodeEscape
    <3>3. QED
      BY <1>w, <2>1, <3>2
  <2>3. UNCHANGED <<unknown, error>>
    BY <1>2 DEF DecodeEscape
  <2>4. QED
    BY <1>1, <1>o, <2>2, <2>3, OutputInv
<1>3. CASE DecodeExtract(symbol)
  <2>0. symbol.op = "EXTRACT"
    BY <1>3 DEF DecodeExtract
  <2>1. /\ symbol = Extract(seg) /\ hash \in DOMAIN ecache /\ ecache[hash] = seg
        /\ ewins[i + 1] = Declare(dwin, hash, seg)
    BY <1>w, <2>0, SymbolCases, ZenonT(30)
  <2>s. symbol.seg = seg
    BY <1>f, <2>1
  <2>2. /\ hash \in DOMAIN dcache => dcache[hash] = seg
        /\ symbol.seg = seg
    BY <1>1, <2>1, <2>s DEF SubMap
  <2>3. /\ dcache' = IF hash \in DOMAIN dcache THEN dcache
                     ELSE Insert(dcache, hash, seg)
        /\ dwin' = ewins[i + 1] /\ Output(seg) /\ UNCHANGED <<unknown, error>>
    <3>1. /\ HashOf[symbol.seg] = hash /\ symbol.seg = seg
          /\ ~(hash \in DOMAIN dcache /\ dcache[hash] # seg)
      BY <1>w, <2>2
    <3>2. /\ dcache' = IF hash \in DOMAIN dcache THEN dcache
                       ELSE Insert(dcache, hash, seg)
          /\ dwin' = Declare(dwin, hash, seg) /\ Output(seg)
          /\ UNCHANGED <<unknown, error>>
      BY <1>3, <3>1 DEF DecodeExtract
    <3>3. QED
      BY <2>1, <3>2
  <2>4. dcache' \in MapOf(Hash, Segment) /\ SubMap(dcache', ecache)
    BY <1>1, <2>1, <2>3, InsertType DEF SubMap, Insert
  <2>5. QED
    BY <1>1, <1>o, <2>3, <2>4, OutputInv
<1>4. CASE DecodeRef(symbol)
  <2>0. symbol.op = "REF"
    BY <1>4 DEF DecodeRef
  <2>1. /\ symbol = Ref(hash) /\ hash \in DOMAIN ecache /\ ecache[hash] = seg
        /\ ewins[i + 1] = Declare(dwin, hash, seg) /\ symbol.hash = hash
    <3>1. /\ symbol = Ref(hash) /\ hash \in DOMAIN ecache /\ ecache[hash] = seg
          /\ ewins[i + 1] = Declare(dwin, hash, seg)
      BY <1>w, <2>0, SymbolCases, ZenonT(30)
    <3>2. symbol.hash = hash
      BY <1>f, <3>1
    <3>3. QED
      BY <3>1, <3>2
  <2>2. CASE hash \in DOMAIN dcache
    <3>1. dcache[hash] = seg
      BY <1>1, <2>1, <2>2 DEF SubMap
    <3>2. /\ dwin' = ewins[i + 1] /\ Output(seg) /\ dcache' = dcache
          /\ UNCHANGED <<unknown, error>>
      BY <1>4, <2>1, <2>2, <3>1 DEF DecodeRef
    <3>3. QED
      BY <1>1, <1>o, <3>2, OutputInv
  <2>3. CASE hash \notin DOMAIN dcache
    <3>1. /\ unknown' = unknown \cup {hash}
          /\ UNCHANGED <<dwin, recv, dcache, error, ecache, ewins, ops, sent>>
      BY <1>1, <1>4, <2>1, <2>3 DEF DecodeRef, encoderVars
    <3>2. QED
      BY <2>1, <3>1 DEF IInv, StreamIntegrity, EncodedFrom
  <2>4. QED
    BY <2>2, <2>3
<1>5. CASE DecodeBackRef(symbol)
  <2>0. symbol.op = "BACKREF"
    BY <1>5 DEF DecodeBackRef
  <2>1. /\ hash \in DOMAIN ecache /\ ecache[hash] = seg
        /\ Present(dwin, hash) /\ symbol = BackRef(dwin.present[hash])
        /\ ewins[i + 1] = dwin /\ symbol.slot = dwin.present[hash]
    <3>1. /\ hash \in DOMAIN ecache /\ ecache[hash] = seg
          /\ Present(dwin, hash) /\ symbol = BackRef(dwin.present[hash])
          /\ ewins[i + 1] = dwin
      BY <1>w, <2>0, SymbolCases, ZenonT(30)
    <3>2. symbol.slot = dwin.present[hash]
      BY <1>f, <3>1
    <3>3. QED
      BY <3>1, <3>2
  <2>2. /\ hash # 0 /\ dwin.window[symbol.slot] = hash
        /\ hash \in DOMAIN dwin.segments
    <3>1. WindowInv(dwin) /\ Present(dwin, hash)
      BY <1>1, <2>1
    <3>2. /\ hash # 0 /\ dwin.window[dwin.present[hash]] = hash
          /\ hash \in DOMAIN dwin.segments
      BY ONLY <3>1, PresentFacts
    <3>3. QED
      BY <2>1, <3>2
  <2>3. Holds(dwin, symbol.slot) /\ Dereference(dwin, symbol.slot) = seg
    BY <1>1, <2>1, <2>2 DEF Holds, Dereference, SubMap
  <2>4. Output(seg) /\ UNCHANGED <<dcache, dwin, unknown, error>>
    BY <1>5, <2>3 DEF DecodeBackRef
  <2>5. QED
    BY <1>1, <1>o, <2>1, <2>4, OutputInv
<1>6. QED
  BY <1>o, <1>2, <1>3, <1>4, <1>5 DEF Decode

\* The answer to an <ASK> is the segment the encoder declared, so entering it
\* keeps the decoder's cache a part of the encoder's.
LEMMA LearnInv ==
  ASSUME IInv, Learn
  PROVE  IInv'
<1>1. PICK asked \in unknown :
         IF asked \in DOMAIN ecache
         THEN LET seg == ecache[asked]
                  hash == HashOf[seg]
                  known == hash \in DOMAIN dcache
              IN /\ unknown' = unknown \ {hash}
                 /\ dcache' = IF known THEN dcache ELSE Insert(dcache, hash, seg)
                 /\ error' = (known /\ dcache[hash] # seg)
         ELSE error' = TRUE /\ UNCHANGED <<dcache, unknown>>
  BY DEF Learn
<1>2. /\ UNCHANGED <<dwin, recv, ecache, ewins, ops, sent>>
      /\ asked \in DOMAIN ecache /\ ecache[asked] \in Segment /\ asked \in Hash
      /\ HashOf[ecache[asked]] = asked
  BY MapFacts DEF Learn, encoderVars, IInv
<1>3. /\ unknown' = unknown \ {asked}
      /\ dcache' = IF asked \in DOMAIN dcache THEN dcache
                   ELSE Insert(dcache, asked, ecache[asked])
      /\ error' = (asked \in DOMAIN dcache /\ dcache[asked] # ecache[asked])
  BY <1>1, <1>2
<1>4. error' = FALSE
  BY <1>2, <1>3 DEF IInv, SubMap
<1>5. dcache' \in MapOf(Hash, Segment) /\ SubMap(dcache', ecache)
  <2>1. dcache' \in MapOf(Hash, Segment)
    BY <1>2, <1>3, InsertType DEF IInv
  <2>2. SubMap(dcache', ecache)
    BY <1>2, <1>3 DEF IInv, SubMap, Insert
  <2>3. QED
    BY <2>1, <2>2
<1>6. QED
  BY <1>2, <1>3, <1>4, <1>5 DEF IInv, StreamIntegrity, EncodedFrom

\* The invariant is inductive: encoding, decoding and learning keep windows,
\* caches and the symbols in flight consistent.
THEOREM Inductive == Spec => []IInv
<1>1. Init => IInv
  <2> SUFFICES ASSUME Init PROVE IInv
    OBVIOUS
  <2>1. EmptyWindow \in Window /\ WindowInv(EmptyWindow)
    BY EmptyWindowInv DEF WindowInv
  <2>2. \A K, V : EmptyMap \in MapOf(K, V)
    BY EmptyMapType
  <2>3. DOMAIN EmptyMap = {} /\ EmptyWindow.segments = EmptyMap
    BY DEF EmptyMap, EmptyWindow
  <2>4. SubMap(EmptyMap, EmptyMap)
    BY DEF SubMap
  <2>5. ewins \in Seq(Window) /\ Len(ewins) = 1 /\ ewins[1] = EmptyWindow
    BY <2>1 DEF Init
  <2>6. /\ sent \in Seq(Segment) /\ recv \in Seq(Segment) /\ ops \in Seq(Symbol)
        /\ Len(sent) = 0 /\ Len(recv) = 0 /\ Len(ops) = 0
    BY DEF Init
  <2>7. \A i \in 1..Len(ewins) : /\ WindowInv(ewins[i])
                                 /\ SubMap(ewins[i].segments, ecache)
    BY <2>1, <2>3, <2>4, <2>5 DEF Init
  <2>8. dwin = ewins[Len(recv) + 1] /\ StreamIntegrity
    BY <2>5, <2>6 DEF Init, StreamIntegrity
  <2>9. /\ ecache \in MapOf(Hash, Segment) /\ dcache \in MapOf(Hash, Segment)
        /\ \A h \in DOMAIN ecache : HashOf[ecache[h]] = h
        /\ SubMap(dcache, ecache) /\ unknown \subseteq DOMAIN ecache
        /\ error = FALSE
    BY <2>2, <2>3, <2>4 DEF Init
  <2>10. \A i \in 1..Len(sent) : EncodedFrom(i)
    BY <2>6
  <2>11. Len(ops) = Len(sent) /\ Len(ewins) = Len(sent) + 1
    BY <2>5, <2>6
  <2>12. QED
    BY <2>5, <2>6, <2>7, <2>8, <2>9, <2>10, <2>11 DEF IInv
<1>2. IInv /\ [Next]_vars => IInv'
  <2> SUFFICES ASSUME IInv, [Next]_vars PROVE IInv'
    OBVIOUS
  <2>1. CASE Encode
    BY <2>1, EncodeInv
  <2>2. CASE Decode
    BY <2>2, DecodeInv
  <2>3. CASE Learn
    BY <2>3, LearnInv
  <2>4. CASE DeclaredElsewhere
    <3>1. PICK seg \in Segment : /\ HashOf[seg] \notin DOMAIN ecache
                                 /\ ecache' = Insert(ecache, HashOf[seg], seg)
      BY <2>4 DEF DeclaredElsewhere
    <3>2. UNCHANGED <<ewins, ops, sent, dcache, dwin, unknown, error, recv>>
      BY <2>4 DEF DeclaredElsewhere, decoderVars
    <3>3. ecache' \in MapOf(Hash, Segment)
      BY <3>1, StreamAssumption, InsertType DEF IInv
    <3>4. /\ SubMap(ecache, ecache')
          /\ \A h \in DOMAIN ecache' : HashOf[ecache'[h]] = h
      BY <3>1 DEF IInv, SubMap, Insert
    <3>5. /\ SubMap(dcache, ecache') /\ unknown \subseteq DOMAIN ecache'
          /\ \A i \in 1..Len(ewins) : SubMap(ewins[i].segments, ecache')
      BY <3>4 DEF IInv, SubMap
    <3>6. \A i \in 1..Len(sent) : EncodedFrom(i)'
      BY <3>2, <3>4 DEF IInv, EncodedFrom, SubMap
    <3>7. QED
      BY <3>2, <3>3, <3>4, <3>5, <3>6 DEF IInv, StreamIntegrity
  <2>5. CASE CachedElsewhere
    <3>1. PICK hash \in DOMAIN ecache \ DOMAIN dcache :
            dcache' = Insert(dcache, hash, ecache[hash])
      BY <2>5 DEF CachedElsewhere
    <3>2. UNCHANGED <<ecache, ewins, ops, sent, dwin, unknown, error, recv>>
      BY <2>5 DEF CachedElsewhere, encoderVars
    <3>3. hash \in Hash /\ ecache[hash] \in Segment
      BY MapFacts DEF IInv
    <3>4. dcache' \in MapOf(Hash, Segment) /\ SubMap(dcache', ecache)
      <4>1. dcache' \in MapOf(Hash, Segment)
        BY <3>1, <3>3, InsertType DEF IInv
      <4>2. SubMap(dcache', ecache)
        BY <3>1, <3>2 DEF IInv, SubMap, Insert
      <4>3. QED
        BY <4>1, <4>2
    <3>5. QED
      BY <3>2, <3>4 DEF IInv, StreamIntegrity, EncodedFrom
  <2>6. CASE UNCHANGED vars
    BY <2>6 DEF vars, IInv, StreamIntegrity, EncodedFrom
  <2>7. QED
    BY <2>1, <2>2, <2>3, <2>4, <2>5, <2>6 DEF Next
<1>3. QED
  BY <1>1, <1>2, PTL DEF Spec

-----------------------------------------------------------------------------
\* XCodecDecoder outputs exactly the data XCodecEncoder was given, for every
\* window size, hash function and interleaving with other streams.
THEOREM Integrity == Spec => []StreamIntegrity
<1>1. IInv => StreamIntegrity
  BY DEF IInv
<1>2. QED
  BY <1>1, Inductive, PTL

\* XCodecDecoder::decode never fails on what XCodecEncoder produced, and no
\* <ASK> or <LEARN> between the two is in error.
THEOREM DecodeSucceeds == Spec => []NoDecodeError
<1>1. IInv => NoDecodeError
  BY DEF IInv, NoDecodeError
<1>2. QED
  BY <1>1, Inductive, PTL

\* No ASSERT of XCodecWindow fails in either end's window.
THEOREM WindowAssertsHold == Spec => []WindowAsserts
<1>1. IInv => WindowAsserts
  <2> SUFFICES ASSUME IInv PROVE WindowAsserts
    OBVIOUS
  <2>0. /\ Len(recv) \in Nat /\ Len(sent) \in Nat /\ Len(recv) <= Len(sent)
        /\ Len(ewins) = Len(sent) + 1
    BY Lengths
  <2>1. Len(recv) + 1 \in 1..Len(ewins) /\ Len(ewins) \in 1..Len(ewins)
    BY <2>0
  <2>2. WindowInv(ewin) /\ WindowInv(dwin)
    BY <2>1 DEF IInv, ewin
  <2>3. QED
    BY <2>2, InvAsserts DEF WindowAsserts
<1>2. QED
  BY <1>1, Inductive, PTL

\* A decoder that has caught up has the encoder's window.
THEOREM WindowsInStep == Spec => []WindowsAgree
<1>1. IInv => WindowsAgree
  BY DEF IInv, WindowsAgree, ewin
<1>2. QED
  BY <1>1, Inductive, PTL

\* Every member keeps its type.
THEOREM TypeCorrect == Spec => []TypeOK
<1>1. IInv => TypeOK
  <2> SUFFICES ASSUME IInv PROVE TypeOK
    OBVIOUS
  <2>0. /\ dwin = ewins[Len(recv) + 1] /\ ewins \in Seq(Window)
    BY Zenon DEF IInv
  <2>1. dwin \in Window
    BY <2>0, Lengths
  <2>2. unknown \subseteq Hash
    BY MapFacts DEF IInv
  <2>3. QED
    BY <2>1, <2>2 DEF IInv, TypeOK
<1>2. QED
  BY <1>1, Inductive, PTL
=============================================================================
