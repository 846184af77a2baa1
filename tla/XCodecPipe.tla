----------------------------- MODULE XCodecPipe -----------------------------
(***************************************************************************)
(* What an XCodecPipePair does with each operation of the protocol.  The   *)
(* two ends of a connection, and what is on its way between them, are in   *)
(* XCodecPipePair.                                                         *)
(***************************************************************************)
EXTENDS XCodecPipeCodec, FiniteSets

\* XCodecPipePair::XCodecPipePair.  decoder is the UUID of decoder_cache_, and
\* encoder that of the codec of encoder_; open is whether the pair exists.  bad
\* collects the ASSERTs and the decoder_error calls that were reached.
NewPair == [decoder |-> NoUuid, decoder_window |-> EmptyWindow,
            decoder_unknown_hashes |-> {}, decoder_frame_buffer |-> <<>>,
            decoder_received_eos |-> FALSE, decoder_received_eos_ack |-> FALSE,
            decoder_sent_eos |-> FALSE, decoder_error |-> FALSE,
            encoder |-> NoUuid, encoder_window |-> EmptyWindow,
            encoder_sent_eos |-> FALSE, encoder_sent_eos_ack |-> FALSE,
            encoder_produced_eos |-> FALSE, open |-> TRUE, bad |-> {}]
-----------------------------------------------------------------------------
(***************************************************************************)
(* decoder_consume works on a record s: the pair, the caches of its        *)
(* process, the messages for encoder_produce and the data for              *)
(* decoder_produce; returned is set by the early returns after an error.   *)
(***************************************************************************)
Fail(s, what) == [s EXCEPT !.pair.bad = @ \cup {what}]
Check(s, holds) == IF holds THEN s ELSE Fail(s, "ASSERT")

\* decoder_error and return.  PipeProducer::produce_error ignores an error
\* after EOS.
DecoderError(s) ==
    [Fail(s, "ERROR") EXCEPT !.pair.decoder_error = ~s.pair.decoder_sent_eos,
                             !.returned = TRUE]

\* encoder_produce, with the ASSERT of PipeProducer::produce.
EncoderProduce(s, ms) ==
    [Check(s, ms = <<>> \/ ~s.pair.encoder_produced_eos) EXCEPT !.output = @ \o ms]

Hello(s, m) ==
    IF s.pair.decoder # NoUuid THEN DecoderError(s)
    ELSE [s EXCEPT !.pair.decoder = m.uuid]

Ask(s, m) ==
    IF s.pair.encoder = NoUuid \/ m.hash \notin DOMAIN s.cache THEN DecoderError(s)
    ELSE EncoderProduce(s, <<[op |-> "LEARN", seg |-> s.cache[m.hash]]>>)

\* Mutant: a redundant <LEARN> leaves the hash unknown.
LearnRedundant(s, m) ==
    LET hash == HashOf[m.seg]
        u == s.pair.decoder
    IN IF u = NoUuid THEN DecoderError(s)
       ELSE IF hash \in DOMAIN s.caches[u] THEN s
       ELSE [s EXCEPT !.pair.decoder_unknown_hashes = @ \ {hash},
                      !.caches[u] = Insert(@, hash, m.seg)]

Learn(s, m) ==
    LET hash == HashOf[m.seg]
        u == s.pair.decoder
        t == [s EXCEPT !.pair.decoder_unknown_hashes = @ \ {hash}]
    IN IF u = NoUuid THEN DecoderError(s)
       ELSE IF hash \notin DOMAIN s.caches[u]
       THEN [t EXCEPT !.caches[u] = Insert(@, hash, m.seg)]
       ELSE IF s.caches[u][hash] = m.seg THEN t ELSE DecoderError(t)

Eos(s) ==
    IF s.pair.decoder_received_eos THEN DecoderError(s)
    ELSE [s EXCEPT !.pair.decoder_received_eos = TRUE]

EosAck(s) ==
    IF ~s.pair.encoder_sent_eos \/ s.pair.decoder_received_eos_ack
    THEN DecoderError(s)
    ELSE [s EXCEPT !.pair.decoder_received_eos_ack = TRUE]

Frame(s, m) ==
    IF s.pair.decoder = NoUuid THEN DecoderError(s)
    ELSE [s EXCEPT !.pair.decoder_frame_buffer = @ \o m.units]

\* Mutant: <EOS_ACK> does not wait for the frame data.
ProgressEager(s) ==
    IF s.pair.decoder_received_eos /\ ~s.pair.encoder_sent_eos_ack
    THEN [EncoderProduce(s, <<[op |-> "EOS_ACK"]>>)
            EXCEPT !.pair.encoder_sent_eos_ack = TRUE]
    ELSE s

\* The order a std::set is iterated in.
Ascending(hashes) ==
    LET n == Cardinality(hashes) IN
    CHOOSE f \in [1..n -> hashes] : \A i, j \in 1..n : i < j => f[i] < f[j]

\* The rest of the loop body, after the switch: acknowledge <EOS> once there
\* is no frame data, otherwise decode it and <ASK> for what is unknown.
Progress(s) ==
    LET pp == s.pair
        u == pp.decoder
        d == Decode(pp.decoder_window, s.caches[u], pp.decoder_frame_buffer)
        decoded == [s EXCEPT !.pair.decoder_window = d.window,
                             !.pair.decoder_frame_buffer = d.rest,
                             !.pair.decoder_unknown_hashes = d.unknown,
                             !.caches[u] = d.cache]
        asks == [i \in 1..Cardinality(d.unknown) |->
                   [op |-> "ASK", hash |-> Ascending(d.unknown)[i]]]
    IN IF pp.decoder_frame_buffer = <<>>
       THEN IF pp.decoder_received_eos /\ ~pp.encoder_sent_eos_ack
            THEN [EncoderProduce(s, <<[op |-> "EOS_ACK"]>>)
                    EXCEPT !.pair.encoder_sent_eos_ack = TRUE]
            ELSE s
       ELSE IF pp.decoder_unknown_hashes # {} THEN s
       ELSE IF d.error THEN DecoderError(decoded)
       ELSE EncoderProduce(
              Check([decoded EXCEPT !.data = @ \o d.output],
                    IF d.output # <<>> THEN ~pp.decoder_sent_eos
                    ELSE d.rest # <<>> \/ d.unknown # {}),
              asks)

\* The switch of decoder_consume.
Dispatch(s, m) ==
    IF m.op = "HELLO" THEN Hello(s, m)
    ELSE IF m.op = "ASK" THEN Ask(s, m)
    ELSE IF m.op = "LEARN" THEN Learn(s, m)
    ELSE IF m.op = "EOS" THEN Eos(s)
    ELSE IF m.op = "EOS_ACK" THEN EosAck(s)
    ELSE Frame(s, m)

\* One iteration of the loop of decoder_consume.
Operation(s, m) ==
    IF s.returned THEN s
    ELSE LET t == Dispatch(s, m) IN IF t.returned THEN t ELSE Progress(t)

\* The loop, over the messages ms.
Operations(s, ms) ==
    LET done[i \in 0..Len(ms)] == IF i = 0 THEN s ELSE Operation(done[i - 1], ms[i])
    IN  done[Len(ms)]

\* Mutant: EOS is passed on although hashes are unknown.
FinishEager(s) ==
    LET eos == s.pair.decoder_received_eos /\ ~s.pair.decoder_sent_eos
        t == [s EXCEPT !.pair.decoder_sent_eos = @ \/ eos]
    IN IF s.pair.encoder_sent_eos_ack /\ s.pair.decoder_received_eos_ack
       THEN [t EXCEPT !.pair.encoder_produced_eos = TRUE,
                      !.output = Append(@, [op |-> "FIN"])]
       ELSE t

\* Mutant: the encoder's channel is shut down without waiting for <EOS_ACK>.
FinishUnacked(s) ==
    LET eos == /\ s.pair.decoder_received_eos /\ ~s.pair.decoder_sent_eos
               /\ s.pair.decoder_unknown_hashes = {}
        t == [s EXCEPT !.pair.decoder_sent_eos = @ \/ eos]
    IN IF s.pair.encoder_sent_eos_ack /\ ~s.pair.encoder_produced_eos
       THEN [t EXCEPT !.pair.encoder_produced_eos = TRUE,
                      !.output = Append(@, [op |-> "FIN"])]
       ELSE t

\* The end of decoder_consume, once decoder_buffer_ is empty: pass EOS on,
\* and shut the encoder's channel down when both sides have acknowledged.
Finish(s) ==
    LET pp == s.pair
        pending == pp.decoder_received_eos /\ ~pp.decoder_sent_eos
        idle == pp.decoder_frame_buffer = <<>>
        complete == pp.decoder_unknown_hashes = {}
        t == [Check(s, pending => (complete <=> idle))
                EXCEPT !.pair.decoder_sent_eos = @ \/ (pending /\ complete)]
    IN IF pp.encoder_sent_eos_ack /\ pp.decoder_received_eos_ack
       THEN [Check(t, idle /\ ~pp.encoder_produced_eos)
               EXCEPT !.pair.encoder_produced_eos = TRUE,
                      !.output = Append(@, [op |-> "FIN"])]
       ELSE t

\* XCodecPipePair::~XCodecPipePair.
Destroyed(pp) ==
    [pp EXCEPT !.open = FALSE, !.decoder = NoUuid, !.decoder_frame_buffer = <<>>,
               !.decoder_unknown_hashes = {}, !.decoder_window = EmptyWindow,
               !.encoder_window = EmptyWindow]
=============================================================================
