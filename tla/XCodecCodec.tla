---------------------------- MODULE XCodecCodec -----------------------------
(***************************************************************************)
(* XCodecEncoder and XCodecDecoder byte by byte: how the encoder slides    *)
(* its hash over the input to find segments to reference or declare, and   *)
(* that the decoder gives the input back however the encoded bytes are cut *)
(* up.  A Buffer is a sequence of BufferSegments, each at most             *)
(* SEGMENT_LENGTH long; outq and the encoded stream are plain sequences.   *)
(* The 8 bytes of a hash are one element of the encoded stream.            *)
(***************************************************************************)
EXTENDS XCodecHash, XCodecWindow

CONSTANTS Byte,       \* the bytes that occur in the input
          MAGIC,      \* XCODEC_MAGIC (0xf1 in the code)
          MaxInput,   \* bound: bytes given to the encoder
          MaxCalls    \* bound: calls of encode()

ASSUME CodecAssumption == /\ Byte \subseteq 0..255 /\ MAGIC \in Byte
                          /\ MaxInput \in Nat /\ MaxCalls \in Nat

\* XCODEC_OP_*
OP_ESCAPE == 0
OP_EXTRACT == 1
OP_REF == 2
OP_BACKREF == 3

VARIABLES
    enc,     \* the encoder, and the locals of encode()
    dec,     \* the decoder
    wire,    \* encoded, not yet given to the decoder
    calls,   \* the number of calls of encode() so far
    sent     \* history: everything given to the encoder

vars == <<enc, dec, wire, calls, sent>>

NoCandidate == [set |-> FALSE, offset |-> 0, symbol |-> 0]

\* XCodecEncoder::XCodecEncoder and XCodecDecoder::XCodecDecoder.  The cache
\* may have been filled by another stream.
Init ==
    /\ \E cache \in {EmptyMap} \cup {Insert(EmptyMap, HashOf(seg), seg) : seg \in Segment} :
         enc = [cache |-> cache, window |-> EmptyWindow, input |-> <<>>, seg |-> <<>>,
                outq |-> <<>>, o |-> 0, hash |-> NewHash, candidate |-> NoCandidate,
                output |-> <<>>, active |-> FALSE, asserts |-> TRUE]
    /\ dec = [cache |-> EmptyMap, window |-> EmptyWindow, input |-> <<>>,
              output |-> <<>>, unknown |-> {}, error |-> FALSE, done |-> FALSE]
    /\ wire = <<>> /\ calls = 0 /\ sent = <<>>
-----------------------------------------------------------------------------
Check(e, holds) == [e EXCEPT !.asserts = @ /\ holds]
Skip(s, n) == SubSeq(s, n + 1, Len(s))
First(s, n) == SubSeq(s, 1, n)

\* XCodecEncoder::encode_escape of the first n bytes of outq.
EncodeEscape(e, n) ==
    [e EXCEPT !.outq = Skip(@, n),
              !.output = @ \o FlattenSeq([i \in 1..n |->
                  IF e.outq[i] = MAGIC THEN <<MAGIC, OP_ESCAPE>> ELSE <<e.outq[i]>>])]

\* XCodecEncoder::encode_declaration of the candidate, with the ASSERT of
\* XCodecMemoryCache::enter that the hash is new.
EncodeDeclaration(e) ==
    LET f == EncodeEscape(e, e.candidate.offset)
        nseg == First(f.outq, SEGMENT_LENGTH)
        hash == e.candidate.symbol
    IN Check([f EXCEPT !.cache = Insert(@, hash, nseg),
                       !.output = @ \o <<MAGIC, OP_EXTRACT>> \o nseg,
                       !.window = Declare(@, hash, nseg),
                       !.outq = Skip(@, SEGMENT_LENGTH),
                       !.candidate = NoCandidate],
             hash \notin DOMAIN e.cache /\ Len(nseg) = SEGMENT_LENGTH)

\* XCodecEncoder::encode_reference (its mutant trusts the hash): whether the data at start is oseg, and
\* the encoder after the reference; o and the hash start over.
MatchesAlways(e, start, oseg) == TRUE
Matches(e, start, oseg) == First(Skip(e.outq, start), SEGMENT_LENGTH) = oseg
EncodeReference(e, start, hash, oseg) ==
    LET f == EncodeEscape(e, start)
        g == [f EXCEPT !.outq = Skip(@, SEGMENT_LENGTH), !.o = 0,
                       !.hash = Reset(@), !.candidate = NoCandidate]
    IN IF Present(e.window, hash)
       THEN [g EXCEPT !.output = @ \o <<MAGIC, OP_BACKREF, e.window.present[hash]>>]
       ELSE [g EXCEPT !.output = @ \o <<MAGIC, OP_REF, hash>>,
                      !.window = Declare(@, hash, oseg)]

\* Mutant: off by one.
DueLate(e) == /\ e.candidate.set
              /\ e.candidate.offset + SEGMENT_LENGTH < e.o - SEGMENT_LENGTH

\* The candidate does not overlap what the hash covers now.
Due(e) == /\ e.candidate.set
          /\ e.candidate.offset + SEGMENT_LENGTH <= e.o - SEGMENT_LENGTH

\* The part of the loop after the hash: declare the candidate once it cannot
\* overlap, then reference this segment or make it the candidate.  (The code
\* first tries the segment just declared; it is in the cache by then, so this
\* is the same lookup.)
Consider(e) ==
    LET hash == Mix(e.hash)
        f == IF Due(e)
             THEN [EncodeDeclaration(e)
                     EXCEPT !.o = @ - (e.candidate.offset + SEGMENT_LENGTH)]
             ELSE e
        start == f.o - SEGMENT_LENGTH
    IN IF hash \in DOMAIN f.cache
       THEN IF Matches(f, start, f.cache[hash])
            THEN EncodeReference(f, start, hash, f.cache[hash])
            ELSE f
       ELSE IF f.candidate.set
       THEN Check(f, f.candidate.offset + SEGMENT_LENGTH > start)
       ELSE [f EXCEPT !.candidate = [set |-> TRUE, offset |-> start, symbol |-> hash]]

\* The end of encode(): declare the candidate, escape what is left.
Finish(e) ==
    LET f == IF e.candidate.set
             THEN EncodeDeclaration(Check(e, e.outq # <<>>)) ELSE e
    IN EncodeEscape(f, Len(f.outq))
-----------------------------------------------------------------------------
\* The ways to hold n bytes in BufferSegments.
Buffers(n) == {b \in BoundedSeq(BoundedSeq(Byte, SEGMENT_LENGTH) \ {<<>>}, n) :
                 Len(FlattenSeq(b)) = n}

Finished(e) == /\ enc' = [e EXCEPT !.output = <<>>, !.active = FALSE, !.o = 0,
                                   !.hash = NewHash]
               /\ wire' = wire \o e.output

\* XCodecEncoder::encode is called.  Input shorter than a segment is escaped.
Encode ==
    /\ ~enc.active /\ calls < MaxCalls
    /\ \E n \in 1..(MaxInput - Len(sent)) : \E buf \in Buffers(n) :
         /\ sent' = sent \o FlattenSeq(buf)
         /\ IF n < SEGMENT_LENGTH
            THEN Finished(EncodeEscape([enc EXCEPT !.outq = FlattenSeq(buf)], n))
            ELSE /\ enc' = [enc EXCEPT !.input = buf, !.active = TRUE]
                 /\ UNCHANGED wire
    /\ calls' = calls + 1
    /\ UNCHANGED dec

\* The head of the loop over BufferSegments, once the last one is used up.
NextSegment ==
    LET rest == FlattenSeq(enc.input) IN
    /\ enc.active /\ enc.seg = <<>>
    /\ IF enc.input = <<>> THEN Finished(Finish(enc))
       ELSE IF enc.o + Len(rest) < SEGMENT_LENGTH
       THEN Finished(Finish([enc EXCEPT !.input = <<>>, !.outq = @ \o rest]))
       ELSE /\ enc' = [enc EXCEPT !.input = Tail(@), !.seg = Head(enc.input),
                                  !.outq = @ \o Head(enc.input)]
            /\ UNCHANGED wire
    /\ UNCHANGED <<dec, calls, sent>>

\* One pass of the loop over the bytes of a BufferSegment.
NextByte ==
    LET resid == Len(enc.seg)
        need == SEGMENT_LENGTH - enc.o
        added(n) == [enc EXCEPT !.hash = FoldLeft(Add, @, First(enc.seg, n)),
                                !.o = @ + n, !.seg = Skip(@, n)]
        rolled == [enc EXCEPT !.hash = Roll(@, Head(enc.seg)),
                              !.o = @ + 1, !.seg = Tail(@)]
    IN /\ enc.active /\ enc.seg # <<>>
       /\ enc' = IF enc.o + resid < SEGMENT_LENGTH THEN added(resid)
                 ELSE IF enc.o < SEGMENT_LENGTH THEN Consider(added(need))
                 ELSE Consider(rolled)
       /\ UNCHANGED <<dec, wire, calls, sent>>
-----------------------------------------------------------------------------
DecodeExtract(d) ==
    LET seg == SubSeq(d.input, 3, SEGMENT_LENGTH + 2)
        hash == HashOf(seg)
    IN IF hash \in DOMAIN d.cache /\ d.cache[hash] # seg
       THEN [d EXCEPT !.error = TRUE, !.done = TRUE]
       ELSE [d EXCEPT !.input = Skip(@, SEGMENT_LENGTH + 2), !.output = @ \o seg,
                      !.cache = IF hash \in DOMAIN @ THEN @ ELSE Insert(@, hash, seg),
                      !.window = Declare(@, hash, seg)]

DecodeRef(d) ==
    LET hash == d.input[3] IN
    IF hash \notin DOMAIN d.cache
    THEN [d EXCEPT !.unknown = @ \cup {hash}, !.done = TRUE]
    ELSE [d EXCEPT !.input = Skip(@, 3), !.output = @ \o d.cache[hash],
                   !.window = Declare(@, hash, d.cache[hash])]

\* The index is moved out with its opcode before the window is consulted.
DecodeBackRef(d) ==
    IF Holds(d.window, d.input[3])
    THEN [d EXCEPT !.input = Skip(@, 3),
                   !.output = @ \o Dereference(d.window, d.input[3])]
    ELSE [d EXCEPT !.error = TRUE, !.done = TRUE]

\* How much has to follow each opcode; otherwise decode() waits for more.
Arguments(op) == CASE op = OP_ESCAPE -> 0
                   [] op = OP_EXTRACT -> SEGMENT_LENGTH
                   [] op \in {OP_REF, OP_BACKREF} -> 1

\* XCodecDecoder::decode: one pass of its loop, and the loop.
DecodeOne(d) ==
    LET in == d.input
        off == IF MAGIC \in {in[i] : i \in DOMAIN in}
               THEN CHOOSE i \in DOMAIN in : /\ in[i] = MAGIC
                                             /\ \A j \in 1..i - 1 : in[j] # MAGIC
               ELSE Len(in) + 1
        lit == [d EXCEPT !.output = @ \o First(in, off - 1), !.input = Skip(@, off - 1)]
        op == lit.input[2]
    IN IF Len(lit.input) < 2 \/ Len(lit.input) < 2 + Arguments(op)
       THEN [lit EXCEPT !.done = TRUE]
       ELSE CASE op = OP_ESCAPE -> [lit EXCEPT !.output = Append(@, MAGIC),
                                               !.input = Skip(@, 2)]
              [] op = OP_EXTRACT -> DecodeExtract(lit)
              [] op = OP_REF -> DecodeRef(lit)
              [] op = OP_BACKREF -> DecodeBackRef(lit)

RECURSIVE Decode(_)
Decode(d) == IF d.done \/ d.input = <<>> THEN [d EXCEPT !.done = FALSE]
             ELSE Decode(DecodeOne(d))

\* decoder_consume appends what arrived and decodes unless a hash is awaited.
Arrive ==
    /\ ~dec.error
    /\ \E n \in 1..Len(wire) :
         LET d == [dec EXCEPT !.input = @ \o First(wire, n)]
         IN /\ dec' = IF dec.unknown = {} THEN Decode(d) ELSE d
            /\ wire' = Skip(wire, n)
    /\ UNCHANGED <<enc, calls, sent>>

\* The answer to an <ASK> arrives.
Learn ==
    /\ ~dec.error
    /\ \E hash \in dec.unknown :
         dec' = Decode([dec EXCEPT !.unknown = @ \ {hash},
                                   !.cache = Insert(@, hash, enc.cache[hash])])
    /\ UNCHANGED <<enc, wire, calls, sent>>

Next == Encode \/ NextSegment \/ NextByte \/ Arrive \/ Learn

Spec == Init /\ [][Next]_vars
-----------------------------------------------------------------------------
\* The encoder's and the decoder's windows, and where the locals point.
CodecTypeOK ==
    /\ enc.window \in Window /\ dec.window \in Window
    /\ enc.outq \in Seq(Byte) /\ enc.o \in 0..MaxInput
    /\ dec.output \in Seq(Byte) /\ calls \in 0..MaxCalls

\* What the decoder has output is a prefix of what the encoder was given.
DecodedIsPrefix == dec.output = First(sent, Len(dec.output)) /\ ~dec.error

\* When the encoder is idle, everything has arrived and nothing is unknown,
\* the decoder has output everything: nothing is lost, and no complete symbol
\* waits in its input.
DecodedIsComplete ==
    ~enc.active /\ wire = <<>> /\ dec.unknown = {} => dec.output = sent

\* encode() hashes the bytes it thinks it hashes: o counts the bytes of outq
\* hashed so far, and the rolling hash is the hash of the last SEGMENT_LENGTH
\* of them, so that the segment declared for a hash has that hash.
HashIsOfOutq ==
    enc.active /\ enc.o >= SEGMENT_LENGTH =>
        /\ enc.o = Len(enc.outq) - Len(enc.seg)
        /\ Mix(enc.hash) = HashOf(SubSeq(enc.outq, enc.o - SEGMENT_LENGTH + 1, enc.o))

\* The ASSERTs of encode(), encode_declaration() and XCodecMemoryCache::enter:
\* the candidate's hash is still new when it is declared, its segment is
\* complete and it never overlaps one that was declared or referenced.
EncoderAsserts == enc.asserts

\* The encoder files a segment under its rolling hash, the decoder under the
\* hash of the segment it received: these are the same, or a later <REF> names
\* a hash the decoder does not know.
CacheIsHashed == \A hash \in DOMAIN enc.cache : HashOf(enc.cache[hash]) = hash

\* The state of encoder and decoder has its types, the assertions of the encoder
\* hold, its hash is that of the bytes it has come to, and its cache has every
\* segment under its hash.
CodecInv == CodecTypeOK /\ EncoderAsserts /\ HashIsOfOutq /\ CacheIsHashed

\* decode() inverts encode(), at every moment and in the end.
DecodeInvertsEncode == DecodedIsPrefix /\ DecodedIsComplete
=============================================================================
