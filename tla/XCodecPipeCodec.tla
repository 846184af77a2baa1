-------------------------- MODULE XCodecPipeCodec ---------------------------
(***************************************************************************)
(* The encoder and the decoder of an XCodecPipePair: the symbols that      *)
(* encoder_ makes of the segments it is given and the frames they are sent *)
(* in, and what decoder_ makes of them.  The protocol around them is in    *)
(* XCodecPipe.                                                             *)
(***************************************************************************)
EXTENDS XCodecWindow, Sequences

CONSTANTS HashOf,        \* XCodecHash::hash of each segment
          MAX_FRAME,     \* XCODEC_PIPE_MAX_FRAME, in units (see Units)
          MaxFaults      \* bound: connections torn down early, and restarts

ASSUME PipeAssumption ==
    HashOf \in [Segment -> Hash] /\ MAX_FRAME \in Nat \ {0} /\ MaxFaults \in Nat

\* A codec's UUID: the processes draw a new one when they start.
Uuid == 0..MaxFaults
NoUuid == MaxFaults + 1

\* The operations of the protocol but <FRAME>, and the end of the connection.
Message ==
    [op : {"EOS", "EOS_ACK", "FIN"}] \cup [op : {"HELLO"}, uuid : Uuid]
      \cup [op : {"ASK"}, hash : Hash] \cup [op : {"LEARN"}, seg : Segment]

\* The encoded stream consists of units (see Units).
Unit == [op : {"MAGIC"}] \cup [op : {"ESCAPE", "EXTRACT"}, seg : Segment]
          \cup [op : {"REF"}, hash : Hash] \cup [op : {"BACKREF"}, slot : Slot]

-----------------------------------------------------------------------------
(***************************************************************************)
(* The encoded stream.  A symbol other than escaped data is two units, the *)
(* XCODEC_MAGIC byte and the rest, so that a frame can end inside one.     *)
(***************************************************************************)
Units(symbol) == IF symbol.op = "ESCAPE" THEN <<symbol>>
                 ELSE <<[op |-> "MAGIC"], symbol>>

\* XCodecEncoder::encode of one segment; s has the cache, the window and the
\* units produced so far.
EncodeSegment(s, seg) ==
    LET hash == HashOf[seg] IN
    IF hash \notin DOMAIN s.cache
    THEN [cache |-> Insert(s.cache, hash, seg),
          window |-> Declare(s.window, hash, seg),
          units |-> s.units \o Units([op |-> "EXTRACT", seg |-> seg])]
    ELSE IF s.cache[hash] # seg
    THEN [s EXCEPT !.units = @ \o Units([op |-> "ESCAPE", seg |-> seg])]
    ELSE IF Present(s.window, hash)
    THEN [s EXCEPT !.units =
              @ \o Units([op |-> "BACKREF", slot |-> s.window.present[hash]])]
    ELSE [s EXCEPT !.units = @ \o Units([op |-> "REF", hash |-> hash]),
                   !.window = Declare(@, hash, seg)]

\* encode_frame: the encoded data in frames of at most MAX_FRAME.
EncodeFrame(units) ==
    LET count == (Len(units) + MAX_FRAME - 1) \div MAX_FRAME
        last(i) == IF i * MAX_FRAME < Len(units) THEN i * MAX_FRAME ELSE Len(units)
    IN [i \in 1..count |->
          [op |-> "FRAME", units |-> SubSeq(units, (i - 1) * MAX_FRAME + 1, last(i))]]

\* XCodecEncoder::encode of the segments of buf, one after the other.
Encode(s, buf) ==
    LET encoded[i \in 0..Len(buf)] ==
          IF i = 0 THEN s ELSE EncodeSegment(encoded[i - 1], buf[i])
    IN  encoded[Len(buf)]

\* XCodecDecoder::decode of one unit.  rest is the input not yet consumed;
\* once stopped, everything further is left there.
DecodeUnit(d, u) ==
    LET output(seg, hash) == [d EXCEPT !.rest = <<>>, !.output = Append(@, seg),
                                       !.window = Declare(@, hash, seg)]
    IN
    IF d.stop THEN [d EXCEPT !.rest = Append(@, u)]
    ELSE IF u.op = "MAGIC" THEN [d EXCEPT !.rest = <<u>>]
    ELSE IF u.op = "ESCAPE" THEN [d EXCEPT !.output = Append(@, u.seg)]
    ELSE IF u.op = "EXTRACT"
    THEN LET hash == HashOf[u.seg] IN
         IF hash \notin DOMAIN d.cache
         THEN [output(u.seg, hash) EXCEPT !.cache = Insert(@, hash, u.seg)]
         ELSE IF d.cache[hash] = u.seg THEN output(u.seg, hash)
         ELSE [d EXCEPT !.error = TRUE, !.stop = TRUE]
    ELSE IF u.op = "REF"
    THEN IF u.hash \in DOMAIN d.cache THEN output(d.cache[u.hash], u.hash)
         ELSE [d EXCEPT !.unknown = @ \cup {u.hash}, !.stop = TRUE, !.rest = Append(@, u)]
    ELSE IF Holds(d.window, u.slot)
    THEN [d EXCEPT !.rest = <<>>, !.output = Append(@, Dereference(d.window, u.slot))]
    ELSE [d EXCEPT !.error = TRUE, !.stop = TRUE]

\* XCodecDecoder::decode of units, with the window and the cache it has.
Decode(window, known, units) ==
    LET decoded[i \in 0..Len(units)] ==
          IF i = 0 THEN [rest |-> <<>>, output |-> <<>>, window |-> window, cache |-> known,
                         unknown |-> {}, stop |-> FALSE, error |-> FALSE]
          ELSE DecodeUnit(decoded[i - 1], units[i])
    IN  decoded[Len(units)]
=============================================================================
