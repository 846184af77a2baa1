---------------------------- MODULE XCodecStream ----------------------------
(***************************************************************************)
(* One direction of one XCodec stream: XCodecEncoder at one end,           *)
(* XCodecDecoder at the other, the encoded symbols in order between them.  *)
(* Each end has its own window; the caches are shared with the other       *)
(* streams between the same two processes, which may fill them at any      *)
(* time.  Input is segment-aligned: sent[i] is one segment's worth of data *)
(* (XCodecCodec.tla has the byte-level algorithm).                         *)
(***************************************************************************)
EXTENDS XCodecWindow, Sequences

CONSTANTS HashOf,    \* XCodecHash::hash of each segment
          MaxSent    \* bound: segments given to the encoder

ASSUME StreamAssumption == /\ HashOf \in [Segment -> Hash]
                           /\ MaxSent \in Nat

VARIABLES
    ecache,    \* the encoder's cache, codec_->cache()
    dcache,    \* the decoder's cache for the peer's UUID, decoder_cache_
    ewins,     \* the encoder's window_ after each symbol; the last is current
    dwin,      \* the decoder's window_
    ops,       \* every symbol encoded so far; Len(recv) of them are decoded
    unknown,   \* decoder_unknown_hashes_
    error,     \* decode() returned false, or an <ASK> could not be answered
    sent,      \* history: the segments encoded
    recv       \* history: the segments decoded

vars == <<ecache, dcache, ewins, dwin, ops, unknown, error, sent, recv>>
encoderVars == <<ecache, ewins, ops, sent>>
decoderVars == <<dcache, dwin, unknown, error, recv>>

ewin == ewins[Len(ewins)]

\* The symbols of the encoded stream: <ESCAPE>d literal data, <EXTRACT>,
\* <REF> and <BACKREF>.
Escape(seg)  == [op |-> "ESCAPE", seg |-> seg]
Extract(seg) == [op |-> "EXTRACT", seg |-> seg]
Ref(hash)    == [op |-> "REF", hash |-> hash]
BackRef(c)   == [op |-> "BACKREF", slot |-> c]
Symbol == [op : {"ESCAPE", "EXTRACT"}, seg : Segment]
            \cup [op : {"REF"}, hash : Hash] \cup [op : {"BACKREF"}, slot : Slot]

Init ==
    /\ ecache = EmptyMap /\ dcache = EmptyMap
    /\ ewins = <<EmptyWindow>> /\ dwin = EmptyWindow
    /\ ops = <<>> /\ unknown = {} /\ error = FALSE
    /\ sent = <<>> /\ recv = <<>>
-----------------------------------------------------------------------------
Emit(seg, symbol, window) ==
    /\ sent' = Append(sent, seg)
    /\ ops' = Append(ops, symbol)
    /\ ewins' = Append(ewins, window)

\* XCodecEncoder::encode_declaration for a segment whose hash is free.
EncodeDeclaration(seg) ==
    LET hash == HashOf[seg] IN
    /\ hash \notin DOMAIN ecache
    /\ ecache' = Insert(ecache, hash, seg)
    /\ Emit(seg, Extract(seg), Declare(ewin, hash, seg))

\* Mutant: the reference is emitted without comparing the data.
ReferenceUnchecked(seg) ==
    LET hash == HashOf[seg] IN
    /\ hash \in DOMAIN ecache
    /\ IF Present(ewin, hash)
       THEN Emit(seg, BackRef(ewin.present[hash]), ewin)
       ELSE Emit(seg, Ref(hash), Declare(ewin, hash, seg))
    /\ UNCHANGED ecache

\* Mutant: <REF> does not enter the encoder's window.
ReferenceUndeclared(seg) ==
    LET hash == HashOf[seg] IN
    /\ hash \in DOMAIN ecache /\ ecache[hash] = seg
    /\ IF Present(ewin, hash)
       THEN Emit(seg, BackRef(ewin.present[hash]), ewin)
       ELSE Emit(seg, Ref(hash), ewin)
    /\ UNCHANGED ecache

\* XCodecEncoder::encode_reference: the cached segment equals the data.
EncodeReference(seg) ==
    LET hash == HashOf[seg] IN
    /\ hash \in DOMAIN ecache /\ ecache[hash] = seg
    /\ IF Present(ewin, hash)
       THEN Emit(seg, BackRef(ewin.present[hash]), ewin)
       ELSE Emit(seg, Ref(hash), Declare(ewin, hash, seg))
    /\ UNCHANGED ecache

\* XCodecEncoder::encode when encode_reference returns false: the hash
\* collides, and the data is escaped.
EncodeCollision(seg) ==
    LET hash == HashOf[seg] IN
    /\ hash \in DOMAIN ecache /\ ecache[hash] # seg
    /\ Emit(seg, Escape(seg), ewin)
    /\ UNCHANGED ecache

Encode ==
    /\ Len(sent) < MaxSent
    /\ \E seg \in Segment : \/ EncodeDeclaration(seg)
                            \/ EncodeReference(seg)
                            \/ EncodeCollision(seg)
    /\ UNCHANGED decoderVars
-----------------------------------------------------------------------------
Output(seg) == recv' = Append(recv, seg)

DecodeEscape(symbol) ==
    /\ symbol.op = "ESCAPE"
    /\ Output(symbol.seg)
    /\ UNCHANGED <<dcache, dwin, unknown, error>>

DecodeExtract(symbol) ==
    LET seg == symbol.seg
        hash == HashOf[seg]
    IN /\ symbol.op = "EXTRACT"
       /\ IF hash \in DOMAIN dcache /\ dcache[hash] # seg
          THEN error' = TRUE /\ UNCHANGED <<dcache, dwin, recv>>
          ELSE /\ dcache' = IF hash \in DOMAIN dcache THEN dcache
                            ELSE Insert(dcache, hash, seg)
               /\ dwin' = Declare(dwin, hash, seg)
               /\ Output(seg)
               /\ UNCHANGED error
       /\ UNCHANGED unknown

\* A <REF> to a hash that is not cached stays in the input until it is.
DecodeRef(symbol) ==
    /\ symbol.op = "REF"
    /\ \/ /\ symbol.hash \notin DOMAIN dcache
          /\ unknown' = unknown \cup {symbol.hash}
          /\ UNCHANGED <<dwin, recv>>
       \/ /\ symbol.hash \in DOMAIN dcache
          /\ dwin' = Declare(dwin, symbol.hash, dcache[symbol.hash])
          /\ Output(dcache[symbol.hash])
          /\ UNCHANGED unknown
    /\ UNCHANGED <<dcache, error>>

DecodeBackRef(symbol) ==
    /\ symbol.op = "BACKREF"
    /\ IF Holds(dwin, symbol.slot)
       THEN Output(Dereference(dwin, symbol.slot)) /\ UNCHANGED error
       ELSE error' = TRUE /\ UNCHANGED recv
    /\ UNCHANGED <<dcache, dwin, unknown>>

\* XCodecDecoder::decode, one symbol.  decoder_consume does not call it
\* while hashes are unknown, and an error ends the stream.
Decode ==
    /\ ~error /\ unknown = {}
    /\ Len(recv) < Len(ops)
    /\ LET symbol == ops[Len(recv) + 1]
       IN \/ DecodeEscape(symbol)
          \/ DecodeExtract(symbol)
          \/ DecodeRef(symbol)
          \/ DecodeBackRef(symbol)
    /\ UNCHANGED encoderVars

\* Mutant: a redundant <LEARN> returns before the hash is crossed off.
LearnOnlyNew ==
    /\ ~error
    /\ \E asked \in unknown \cap DOMAIN ecache :
         LET seg == ecache[asked]
             hash == HashOf[seg]
         IN /\ hash \notin DOMAIN dcache
            /\ unknown' = unknown \ {hash}
            /\ dcache' = Insert(dcache, hash, seg)
    /\ UNCHANGED <<dwin, recv, error>>
    /\ UNCHANGED encoderVars

\* The <ASK>/<LEARN> exchange for one unknown hash (XCodecPipePair.tla has it
\* message by message): the peer looks the hash up, the decoder hashes the
\* answer, crosses it off and enters it unless another stream already did.
Learn ==
    /\ ~error
    /\ \E asked \in unknown :
         IF asked \in DOMAIN ecache
         THEN LET seg == ecache[asked]
                  hash == HashOf[seg]
                  known == hash \in DOMAIN dcache
              IN /\ unknown' = unknown \ {hash}
                 /\ dcache' = IF known THEN dcache ELSE Insert(dcache, hash, seg)
                 /\ error' = (known /\ dcache[hash] # seg)
         ELSE error' = TRUE /\ UNCHANGED <<dcache, unknown>>
    /\ UNCHANGED <<dwin, recv>>
    /\ UNCHANGED encoderVars
-----------------------------------------------------------------------------
\* Another stream of the same codec declares a segment.
DeclaredElsewhere ==
    /\ \E seg \in Segment :
         /\ HashOf[seg] \notin DOMAIN ecache
         /\ ecache' = Insert(ecache, HashOf[seg], seg)
    /\ UNCHANGED <<ewins, ops, sent>>
    /\ UNCHANGED decoderVars

\* Another stream between the same processes delivers a declaration.
CachedElsewhere ==
    /\ \E hash \in DOMAIN ecache \ DOMAIN dcache :
         dcache' = Insert(dcache, hash, ecache[hash])
    /\ UNCHANGED <<dwin, unknown, error, recv>>
    /\ UNCHANGED encoderVars

Next == Encode \/ Decode \/ Learn \/ DeclaredElsewhere \/ CachedElsewhere

Spec == Init /\ [][Next]_vars

\* The decoder runs whenever frame data arrives, and every <ASK> is answered
\* by a connection that stays up; the encoder's input may stop at any time.
FairSpec == Spec /\ WF_vars(Decode) /\ WF_vars(Learn)
-----------------------------------------------------------------------------
\* The types of the streams, windows, caches and flags.
TypeOK ==
    /\ ecache \in MapOf(Hash, Segment) /\ dcache \in MapOf(Hash, Segment)
    /\ ewins \in Seq(Window) /\ Len(ewins) = Len(sent) + 1
    /\ dwin \in Window
    /\ ops \in Seq(Symbol) /\ Len(ops) = Len(sent)
    /\ unknown \subseteq Hash /\ error \in BOOLEAN
    /\ sent \in Seq(Segment) /\ recv \in Seq(Segment)

\* What the decoder outputs is what the encoder was given, in order: no
\* <REF> or <BACKREF> ever yields other data, whatever the other streams do
\* to the two caches and however far the decoder lags behind.
StreamIntegrity ==
    /\ Len(recv) <= Len(sent)
    /\ \A i \in 1..Len(recv) : recv[i] = sent[i]

\* Between two correct ends decode() never fails ("Collision in <EXTRACT>.",
\* "Index not present in <BACKREF> window"), nor does <ASK> or <LEARN>.
NoDecodeError == ~error

\* The ASSERTs of XCodecWindow hold in both windows.
WindowAsserts == AssertsHold(ewin) /\ AssertsHold(dwin)

\* Once the decoder has caught up, its window is the encoder's, slot by slot.
WindowsAgree == Len(recv) = Len(sent) => dwin = ewin

\* How symbol i came from segment i: what the cache and the encoder's window
\* were for it, and what the window became.
EncodedFrom(i) ==
    LET seg == sent[i]
        hash == HashOf[seg]
    IN \/ ops[i] = Escape(seg) /\ ewins[i + 1] = ewins[i]
       \/ /\ hash \in DOMAIN ecache /\ ecache[hash] = seg
          /\ \/ /\ ops[i] = Extract(seg) \/ ops[i] = Ref(hash)
                /\ ewins[i + 1] = Declare(ewins[i], hash, seg)
             \/ /\ Present(ewins[i], hash)
                /\ ops[i] = BackRef(ewins[i].present[hash])
                /\ ewins[i + 1] = ewins[i]

\* The inductive invariant: the decoder's window is the window the encoder
\* had when it had encoded as many symbols, each symbol in flight means under
\* that window what was sent, and the caches only hold what was declared.
IInv ==
    /\ ecache \in MapOf(Hash, Segment) /\ dcache \in MapOf(Hash, Segment)
    /\ \A h \in DOMAIN ecache : HashOf[ecache[h]] = h
    /\ SubMap(dcache, ecache)
    /\ sent \in Seq(Segment) /\ recv \in Seq(Segment)
    /\ ops \in Seq(Symbol) /\ Len(ops) = Len(sent)
    /\ ewins \in Seq(Window) /\ Len(ewins) = Len(sent) + 1
    /\ \A i \in 1..Len(ewins) : /\ WindowInv(ewins[i])
                                /\ SubMap(ewins[i].segments, ecache)
    /\ \A i \in 1..Len(sent) : EncodedFrom(i)
    /\ dwin = ewins[Len(recv) + 1]
    /\ StreamIntegrity
    /\ unknown \subseteq DOMAIN ecache
    /\ error = FALSE

\* Everything given to the encoder is decoded in the end: an unknown hash
\* delays the stream, it never wedges it.
EverythingDecoded == \A n \in 1..MaxSent : (Len(sent) >= n) ~> (Len(recv) >= n)
=============================================================================
