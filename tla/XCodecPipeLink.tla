--------------------------- MODULE XCodecPipeLink ---------------------------
(***************************************************************************)
(* What a connection between two XCodecPipePairs carries when all is well: *)
(* the invariant of a connection, in terms of its two ends.                *)
(***************************************************************************)
EXTENDS XCodecPipeTrace

\* Message i is the only one of its kind.
Once(C, i) == \A j \in 1..Len(C) : C[j].op = C[i].op => j = i

\* <HELLO> comes once and first.
HelloOK(P, Q, C) ==
    /\ P.open => P.decoder \in {NoUuid, Q.encoder}
    /\ \A i \in 1..Len(C) : C[i].op = "HELLO" =>
         C[i].uuid = Q.encoder /\ Q.encoder # NoUuid /\ P.decoder = NoUuid /\ Once(C, i)
    /\ \A i \in 1..Len(C) : C[i].op \in {"FRAME", "LEARN", "EOS"} =>
         P.decoder # NoUuid \/ \E j \in 1..Len(C) : j < i /\ C[j].op = "HELLO"
    /\ P.open /\ Q.encoder # NoUuid =>
         P.decoder # NoUuid \/ \E j \in 1..Len(C) : C[j].op = "HELLO"

\* <EOS> comes once and no frame comes after it.
EosOK(P, Q, C) ==
    /\ \A i \in 1..Len(C) : C[i].op = "EOS" =>
         /\ Q.encoder_sent_eos /\ ~P.decoder_received_eos /\ Once(C, i)
         /\ \A j \in 1..Len(C) : j > i => C[j].op # "FRAME"
    /\ P.decoder_received_eos =>
         /\ Q.encoder_sent_eos /\ None(C, "FRAME")
         /\ P.open => P.decoder # NoUuid
    /\ P.encoder_sent_eos => P.encoder # NoUuid

\* <EOS_ACK> comes once, after everything was delivered and asked for.
AckOK(P, Q, C, S, V) ==
    /\ \A i \in 1..Len(C) : C[i].op = "EOS_ACK" =>
         Q.encoder_sent_eos_ack /\ ~P.decoder_received_eos_ack /\ Once(C, i)
    /\ P.decoder_received_eos_ack => Q.encoder_sent_eos_ack
    /\ P.encoder_sent_eos_ack =>
         P.decoder_received_eos /\ P.decoder_frame_buffer = <<>> /\ V = S
    /\ Q.encoder_sent_eos_ack => None(C, "ASK")
    /\ P.encoder_produced_eos => P.encoder_sent_eos_ack /\ P.decoder_received_eos_ack

\* FIN is the last message.
FinOK(P, Q, C) ==
    /\ ~P.open => C = <<>>
    /\ \A i \in 1..Len(C) : C[i].op = "FIN" =>
         i = Len(C) /\ (Q.encoder_produced_eos \/ ~Q.open)
    /\ P.open /\ P.decoder_sent_eos =>
         \/ C = <<>> /\ (Q.encoder_produced_eos \/ ~Q.open)
         \/ P.decoder_received_eos /\ P.decoder_frame_buffer = <<>>

\* An <ASK> is for the one hash the other end does not know and this end's
\* codec does, and so is the <LEARN> that answers it; R is what is on its way
\* to Q, own the cache of P's codec.
AskOK(P, Q, C, R, own, G) ==
    /\ \A i \in 1..Len(C) : C[i].op = "ASK" =>
         /\ P.encoder # NoUuid /\ C[i].hash \in DOMAIN own /\ Once(C, i)
         /\ Q.open => C[i].hash \in Q.decoder_unknown_hashes /\ None(R, "LEARN")
    /\ \A i \in 1..Len(C) : C[i].op = "LEARN" =>
         HashOf[C[i].seg] \in P.decoder_unknown_hashes /\ Once(C, i) /\ Known(G, C[i].seg)

\* The hash an end waits for is on its way.
Asked(P, C, R) ==
    \A h \in P.decoder_unknown_hashes :
        \/ \E i \in 1..Len(R) : R[i].op = "ASK" /\ R[i].hash = h
        \/ \E i \in 1..Len(C) : C[i].op = "LEARN" /\ HashOf[C[i].seg] = h

\* One end of a connection; live is whether the connection has not been torn down.
Half(P, Q, C, R, own, G, S, V, live) ==
    /\ P \in PairRecord /\ C \in Seq(AnyMessage) /\ V \in Seq(Segment)
    /\ own \in MapOf(Hash, Segment)
    /\ live => P.open
    /\ Waiting(P) /\ HelloOK(P, Q, C) /\ EosOK(P, Q, C) /\ AckOK(P, Q, C, S, V)
    /\ FinOK(P, Q, C) /\ AskOK(P, Q, C, R, own, G)
    /\ live => Asked(P, C, R)
    /\ P.open => Delivers(P, Q, C, G, S, V)

\* Both ends; W is what P's client wrote and X what Q's client was given.
Link(P, Q, C, R, own, G, S, V, W, X, live) ==
    Half(P, Q, C, R, own, G, S, V, live) /\ Half(Q, P, R, C, G, own, W, X, live)
-----------------------------------------------------------------------------
(***************************************************************************)
(* What a connection relies on the codec to do.                            *)
(***************************************************************************)

\* When no more frames are to come, what is left can be decoded, and when
\* nothing is left everything has been delivered.
DecodesAll ==
    \A P \in PairRecord, C \in Seq(AnyMessage) : \A Q, G, S, V :
      Delivers(P, Q, C, G, S, V) /\ None(C, "FRAME") =>
        /\ P.decoder_frame_buffer = <<>> => V = S
        /\ Len(P.decoder_frame_buffer) = 1 => P.decoder_frame_buffer[1].op # "MAGIC"

\* Encoding continues the trace of what is on its way.
EncodesBuffer ==
    \A own \in MapOf(Hash, Segment), W \in Seq(Segment), U \in Seq(Unit), buf \in Seq(Segment) :
      \A P, w0, o0 :
        WriterOK(P, own) /\ Traced(own, U, w0, o0, P.encoder_window, W, FALSE)
        => Encoded(Encode(EncodeStart(own, P.encoder_window), buf), own, U, w0, o0, W \o buf)

\* The cache and the window of the encoder stay sound.
EncodesSoundly ==
    \A own \in MapOf(Hash, Segment), buf \in Seq(Segment) : \A P, P2, s :
      /\ WriterOK(P, own) /\ s = Encode(EncodeStart(own, P.encoder_window), buf)
      /\ P2.encoder_window = s.window
      => s \in EncoderState /\ SubMap(own, s.cache) /\ WriterOK(P2, s.cache)

\* encode_frame cuts the units into frames and loses none.
FramesCarry == \A units \in Seq(Unit) : FramesOf(EncodeFrame(units), units)

\* Frames sent after C carry on with the units that C brings.
FramesContinue ==
    \A C \in Seq(AnyMessage), units \in Seq(Unit) : \A B, U, pos :
      Flat(B, C, U, pos) => \E to : Flat(B, C \o EncodeFrame(units), U \o units, to)

\* Empty windows and maps, and maps that something is inserted into, are sound.
MapsSound ==
    /\ WindowInv(EmptyWindow) /\ EmptyMap \in MapOf(Hash, Segment)
    /\ \A m \in MapOf(Hash, Segment) :
         /\ DOMAIN m \subseteq Hash /\ \A h \in DOMAIN m : m[h] \in Segment
         /\ \A h \in Hash, seg \in Segment : Insert(m, h, seg) \in MapOf(Hash, Segment)

\* What is on its way can be decoded with more in the caches.
TracesLast == \A G, G2, U, T : SubMap(G, G2) /\ IsTrace(G, U, T) => IsTrace(G2, U, T)
-----------------------------------------------------------------------------
(***************************************************************************)
(* What the operations of an end should do.                                *)
(***************************************************************************)

\* The steps that change encoder_sent_eos_ack_ and the EOS of the encoder's pipe.
Answers(P, P2, done, ack, fin) ==
    /\ P2 \in PairRecord
    /\ P2.encoder = P.encoder /\ P2.encoder_window = P.encoder_window
    /\ P2.encoder_sent_eos = P.encoder_sent_eos /\ P2.open = P.open
    /\ P2.encoder_sent_eos_ack = ack /\ P2.encoder_produced_eos = fin
    /\ P2.decoder = P.decoder /\ P2.decoder_window = P.decoder_window
    /\ P2.decoder_unknown_hashes = P.decoder_unknown_hashes
    /\ P2.decoder_frame_buffer = P.decoder_frame_buffer
    /\ P2.decoder_received_eos = P.decoder_received_eos
    /\ P2.decoder_received_eos_ack = P.decoder_received_eos_ack
    /\ P2.decoder_sent_eos = done

\* What is on its way to Q once o has been sent.
To(Q, R, o) == IF Q.open THEN R \o o ELSE R

\* What decoder_consume does not change, but for EOS being passed on.
EncoderKept(P, P2) ==
    /\ P2.encoder = P.encoder /\ P2.encoder_window = P.encoder_window
    /\ P2.encoder_sent_eos = P.encoder_sent_eos
    /\ P.decoder_sent_eos => P2.decoder_sent_eos

\* The record that the loop of decoder_consume works on.
Consuming ==
    [pair : PairRecord, cache : MapOf(Hash, Segment), caches : [Uuid -> MapOf(Hash, Segment)],
     output : Seq(AnyMessage), data : Seq(Segment), returned : {FALSE}]

\* Where decoder_consume leaves both ends.
Consumed(r, Q, C, R, own, G, S, V, W, X, live, K, old) ==
    /\ r \in Consuming /\ r.pair.open /\ EncoderKept(old, r.pair) /\ Settled(r.pair)
    /\ \A u \in Uuid : SubMap(r.caches[u], K[u])
    /\ Link(r.pair, Q, C, To(Q, R, r.output), own, G, S, V \o r.data, W, X, live)

\* The record decoder_consume starts with.
ConsumeStart(P, own, known) ==
    [pair |-> P, cache |-> own, caches |-> known, output |-> <<>>, data |-> <<>>,
     returned |-> P.decoder_error]

\* The members that encoder_consume changes.
Encodes(P, P2, encoder, window, eos) ==
    /\ P2 \in PairRecord
    /\ P2.decoder = P.decoder /\ P2.decoder_window = P.decoder_window
    /\ P2.decoder_unknown_hashes = P.decoder_unknown_hashes
    /\ P2.decoder_frame_buffer = P.decoder_frame_buffer
    /\ P2.decoder_received_eos = P.decoder_received_eos
    /\ P2.decoder_received_eos_ack = P.decoder_received_eos_ack
    /\ P2.decoder_sent_eos = P.decoder_sent_eos
    /\ P2.encoder_sent_eos_ack = P.encoder_sent_eos_ack
    /\ P2.encoder_produced_eos = P.encoder_produced_eos /\ P2.open = P.open
    /\ P2.encoder = encoder /\ P2.encoder_window = window /\ P2.encoder_sent_eos = eos

\* What encoder_consume sends: <HELLO> first, once, and then frames or <EOS>.
HelloFor(P, u) == IF P.encoder # NoUuid THEN <<>> ELSE <<[op |-> "HELLO", uuid |-> u]>>

\* The frames, or <EOS> when the buffer is empty.
BodyFor(s, buf) == IF buf = <<>> THEN <<[op |-> "EOS"]>> ELSE EncodeFrame(s.units)

\* What encoder_consume finds and makes of the pipe pair: P becomes P2 when buf is encoded
\* with the segments mine, and s is the encoder's result.
Writes(P, P2, mine, u, buf, s) ==
    /\ P.open /\ ~P.encoder_sent_eos
    /\ P.encoder # NoUuid => u = P.encoder
    /\ WriterOK(P, mine)
    /\ s = Encode(EncodeStart(mine, P.encoder_window), buf)
    /\ Encodes(P, P2, u, s.window, buf = <<>>)
-----------------------------------------------------------------------------
(***************************************************************************)
(* One message at a time.                                                  *)
(***************************************************************************)

\* What a connection relies on the codec to do.
LinkRules ==
    /\ DecodesAll /\ EncodesBuffer /\ EncodesSoundly /\ FramesCarry /\ FramesContinue
    /\ TracesLast

\* D is C without its first message.
Shifted(C, D) == Len(C) = Len(D) + 1 /\ \A i \in 1..Len(D) : D[i] = C[i + 1]

\* An end that has passed EOS on has nothing left to decode.
NotDone(P) == P.decoder_sent_eos => P.decoder_received_eos /\ P.decoder_frame_buffer = <<>>

\* The members that the receiving half of a pair does not change.
SameEncoder(P, P2) ==
    /\ P2.encoder = P.encoder /\ P2.encoder_window = P.encoder_window
    /\ P2.encoder_sent_eos = P.encoder_sent_eos
    /\ P2.encoder_sent_eos_ack = P.encoder_sent_eos_ack
    /\ P2.encoder_produced_eos = P.encoder_produced_eos /\ P2.open = P.open

\* A step of the receiving half, with the new values of its members.
Receives(P, P2, decoder, window, unknown, buffer, eos, ack, done) ==
    /\ P2 \in PairRecord /\ SameEncoder(P, P2)
    /\ P2.decoder = decoder /\ P2.decoder_window = window
    /\ P2.decoder_unknown_hashes = unknown /\ P2.decoder_frame_buffer = buffer
    /\ P2.decoder_received_eos = eos /\ P2.decoder_received_eos_ack = ack
    /\ P2.decoder_sent_eos = done

\* D is C and then message m.
Extended(C, D, m) ==
    /\ Len(D) = Len(C) + 1 /\ D[Len(C) + 1] = m
    /\ \A i \in 1..Len(C) : D[i] = C[i]

\* What is sent to P reaches it unless its pair is gone.
Sent(P, C, D, m) == IF P.open THEN Extended(C, D, m) ELSE D = C

\* Frames are appended to what is on its way.
Framed(C, D) ==
    /\ Len(C) <= Len(D) /\ \A i \in 1..Len(C) : D[i] = C[i]
    /\ \A i \in 1..Len(D) : i > Len(C) => D[i].op = "FRAME"

\* P has taken the <ASK> for h and not answered it yet; D is what remains to be received.
Answering(P, Q, D, R, own, G, S, V, W, X, live, h) ==
    /\ P.open /\ P.encoder # NoUuid /\ ~P.encoder_produced_eos /\ NotDone(P)
    /\ h \in DOMAIN own /\ None(D, "ASK")
    /\ Half(P, Q, D, R, own, G, S, V, live) /\ Half(Q, P, R, D, G, own, W, X, FALSE)
    /\ live => Q.open
    /\ Q.open => h \in Q.decoder_unknown_hashes /\ None(R, "LEARN")
=============================================================================
