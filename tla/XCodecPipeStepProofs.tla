------------------------ MODULE XCodecPipeStepProofs ------------------------
(***************************************************************************)
(* decoder_consume, encoder_consume and the destruction of an end keep the *)
(* invariant of a connection, provided that the codec does what it should. *)
(***************************************************************************)
EXTENDS XCodecPipe, XCodecPipeLinkProofs

\* The <ASK>s for what is not known: there is one for one hash.
Asks(unknown) ==
    [i \in 1..Cardinality(unknown) |-> [op |-> "ASK", hash |-> Ascending(unknown)[i]]]

\* What the decoder makes of the frame data of P.
DecodesFrames ==
    \A P, Q, C, G, S, V, d : \A known \in MapOf(Hash, Segment) :
      /\ Decodable(P, Q, C, G, S, V) /\ SubMap(known, G) /\ P.decoder_frame_buffer # <<>>
      /\ d = Decode(P.decoder_window, known, P.decoder_frame_buffer)
      => DecodedFrames(d, P, Q, C, G, S, V)

\* Encoding nothing changes nothing.
EncodesNothing == \A s : Encode(s, <<>>) = s

\* There is one <ASK> for one hash and none for none.
AsksOnce == Asks({}) = <<>> /\ \A h : Asks({h}) = <<[op |-> "ASK", hash |-> h]>>

\* What decoder_consume and encoder_consume rely on.
CodecRules ==
    /\ LinkRules /\ MapsSound /\ DecodesFrames /\ EncodesNothing /\ AsksOnce /\ Induction

-----------------------------------------------------------------------------
(***************************************************************************)
(* decoder_consume.                                                        *)
(***************************************************************************)

\* The members of the record that decoder_consume works on.
LEMMA ConsumingFacts ==
  ASSUME NEW s \in Consuming
  PROVE  /\ s.pair \in PairRecord /\ s.cache \in MapOf(Hash, Segment)
         /\ s.caches \in [Uuid -> MapOf(Hash, Segment)] /\ s.output \in Seq(AnyMessage)
         /\ s.data \in Seq(Segment) /\ s.returned = FALSE
  BY Zenon DEF Consuming

\* An iteration that changes the pair only.
LEMMA PairChanged ==
  ASSUME NEW s \in Consuming, NEW P2 \in PairRecord
  PROVE  /\ [s EXCEPT !.pair = P2] \in Consuming
         /\ [s EXCEPT !.pair = P2].pair = P2
         /\ [s EXCEPT !.pair = P2].cache = s.cache
         /\ [s EXCEPT !.pair = P2].caches = s.caches
         /\ [s EXCEPT !.pair = P2].output = s.output
         /\ [s EXCEPT !.pair = P2].data = s.data
  BY Zenon DEF Consuming

\* What is on its way after one more message is that message more.
LEMMA ToNext ==
  ASSUME NEW Q, NEW R \in Seq(AnyMessage), NEW o \in Seq(AnyMessage), NEW m \in AnyMessage
  PROVE  /\ To(Q, R, o) \in Seq(AnyMessage) /\ To(Q, R, o \o <<m>>) \in Seq(AnyMessage)
         /\ o \o <<m>> \in Seq(AnyMessage) /\ o \o <<>> = o
         /\ Sent(Q, To(Q, R, o), To(Q, R, o \o <<m>>), m)
<1> DEFINE A == R \o o
           B == R \o (o \o <<m>>)
<1>1. o \o <<m>> \in Seq(AnyMessage) /\ A \in Seq(AnyMessage) /\ o \o <<>> = o
      /\ Len(o \o <<m>>) = Len(o) + 1 /\ Len(A) = Len(R) + Len(o)
  OBVIOUS
<1>2. B \in Seq(AnyMessage) /\ Len(B) = Len(R) + Len(o) + 1
  BY <1>1
<1>3. ASSUME NEW i \in 1..Len(A) PROVE B[i] = A[i]
  OBVIOUS
<1>4. B[Len(A) + 1] = m
  OBVIOUS
<1>5. Extended(A, B, m)
  <2> HIDE DEF A, B
  <2> QED
    BY <1>1, <1>2, <1>3, <1>4, Zenon DEF Extended
<1> QED
  BY <1>1, <1>2, <1>5, Zenon DEF To, Sent

\* The state of the loop: no error so far, and the two ends are as they would be
\* were what has been produced already sent.  K has the caches of the other
\* process by UUID, old is the pair when the loop started.
Between(s, Q, C, R, own, G, S, V, W, X, live, K, old) ==
    /\ s \in Consuming /\ R \in Seq(AnyMessage) /\ V \in Seq(Segment)
    /\ s.pair.open /\ ~s.pair.encoder_produced_eos /\ NotDone(s.pair)
    /\ EncoderKept(old, s.pair)
    /\ old.encoder # NoUuid => s.cache = own
    /\ \A h \in DOMAIN own : HashOf[own[h]] = h
    /\ Q.encoder # NoUuid => G = K[Q.encoder]
    /\ \A u \in Uuid : SubMap(s.caches[u], K[u])
    /\ Link(s.pair, Q, C, To(Q, R, s.output), own, G, S, V \o s.data, W, X, live)

\* The other members of the record stay, or are as they should be.
LEMMA StillBetween ==
  ASSUME NEW s, NEW t, NEW Q, NEW C, NEW D, NEW R, NEW own, NEW G, NEW S, NEW V, NEW W,
         NEW X, NEW live, NEW K, NEW old,
         Between(s, Q, C, R, own, G, S, V, W, X, live, K, old),
         t \in Consuming, SameEncoder(s.pair, t.pair), t.cache = s.cache,
         t.pair.decoder_sent_eos = s.pair.decoder_sent_eos,
         \A u \in Uuid : SubMap(t.caches[u], K[u]), NotDone(t.pair),
         Link(t.pair, Q, D, To(Q, R, t.output), own, G, S, V \o t.data, W, X, live)
  PROVE  Between(t, Q, D, R, own, G, S, V, W, X, live, K, old)
  BY Zenon DEF Between, SameEncoder, EncoderKept

\* No <HELLO> is an error.
LEMMA HelloStep ==
  ASSUME NEW s, NEW Q, NEW C, NEW R, NEW own, NEW G, NEW S, NEW V, NEW W, NEW X,
         NEW live, NEW K, NEW old, NEW D \in Seq(AnyMessage),
         Between(s, Q, C, R, own, G, S, V, W, X, live, K, old), Shifted(C, D), C[1].op = "HELLO"
  PROVE  Between(Hello(s, C[1]), Q, D, R, own, G, S, V, W, X, live, K, old)
<1> DEFINE P == s.pair
           P2 == [P EXCEPT !.decoder = C[1].uuid]
           t == [s EXCEPT !.pair = P2]
<1>1. s \in Consuming /\ P \in PairRecord /\ P.open
  BY ConsumingFacts, Zenon DEF Between
<1>2. Link(P, Q, C, To(Q, R, s.output), own, G, S, V \o s.data, W, X, live)
  BY Zenon DEF Between
<1>3. C \in Seq(AnyMessage) /\ 1 \in 1..Len(C) /\ C[1] \in AnyMessage
  BY <1>1, <1>2, Taken, Zenon DEF Link
<1>4. C[1].uuid \in Uuid
  BY <1>3, MessageFacts, Zenon
<1>5. Receives(P, P2, C[1].uuid, P.decoder_window, P.decoder_unknown_hashes,
               P.decoder_frame_buffer, P.decoder_received_eos,
               P.decoder_received_eos_ack, P.decoder_sent_eos)
  BY <1>1, <1>4, Zenon DEF Receives, SameEncoder, PairRecord
<1>6. /\ P.decoder = NoUuid
      /\ Link(P2, Q, D, To(Q, R, s.output), own, G, S, V \o s.data, W, X, live)
      /\ NotDone(P2)
  <2> HIDE DEF P, P2
  <2> QED
    BY <1>1, <1>2, <1>5, TakeHello, Zenon
<1>7. Hello(s, C[1]) = t
  BY <1>6, Zenon DEF Hello
<1>8. P2 \in PairRecord /\ SameEncoder(P, P2) /\ P2.decoder_sent_eos = P.decoder_sent_eos
  BY <1>5, Zenon DEF Receives
<1>9. Between(t, Q, D, R, own, G, S, V, W, X, live, K, old)
  <2> HIDE DEF P2
  <2>1. /\ t \in Consuming /\ t.pair = P2 /\ t.cache = s.cache /\ t.caches = s.caches
        /\ t.output = s.output /\ t.data = s.data
    BY <1>1, <1>8, PairChanged, Zenon
  <2>2. \A u \in Uuid : SubMap(s.caches[u], K[u])
    BY Zenon DEF Between
  <2> HIDE DEF t
  <2> QED
    BY <1>6, <1>8, <2>1, <2>2, StillBetween, Zenon
<1> QED
  BY <1>7, <1>9, Zenon

\* No <EOS> is an error.
LEMMA EosStep ==
  ASSUME NEW s, NEW Q, NEW C, NEW R, NEW own, NEW G, NEW S, NEW V, NEW W, NEW X,
         NEW live, NEW K, NEW old, NEW D \in Seq(AnyMessage),
         Between(s, Q, C, R, own, G, S, V, W, X, live, K, old), Shifted(C, D), C[1].op = "EOS"
  PROVE  Between(Eos(s), Q, D, R, own, G, S, V, W, X, live, K, old)
<1> DEFINE P == s.pair
           P2 == [P EXCEPT !.decoder_received_eos = TRUE]
           t == [s EXCEPT !.pair = P2]
<1>1. s \in Consuming /\ P \in PairRecord /\ P.open
  BY ConsumingFacts, Zenon DEF Between
<1>2. Link(P, Q, C, To(Q, R, s.output), own, G, S, V \o s.data, W, X, live)
  BY Zenon DEF Between
<1>3. C \in Seq(AnyMessage) /\ 1 \in 1..Len(C) /\ C[1] \in AnyMessage
  BY <1>1, <1>2, Taken, Zenon DEF Link
<1>5. Receives(P, P2, P.decoder, P.decoder_window, P.decoder_unknown_hashes,
               P.decoder_frame_buffer, TRUE,
               P.decoder_received_eos_ack, P.decoder_sent_eos)
  BY <1>1, Zenon DEF Receives, SameEncoder, PairRecord
<1>6. /\ ~P.decoder_received_eos
      /\ Link(P2, Q, D, To(Q, R, s.output), own, G, S, V \o s.data, W, X, live)
      /\ NotDone(P2)
  <2> HIDE DEF P, P2
  <2> QED
    BY <1>1, <1>2, <1>5, TakeEos, Zenon
<1>7. Eos(s) = t
  BY <1>6, Zenon DEF Eos
<1>8. P2 \in PairRecord /\ SameEncoder(P, P2) /\ P2.decoder_sent_eos = P.decoder_sent_eos
  BY <1>5, Zenon DEF Receives
<1>9. Between(t, Q, D, R, own, G, S, V, W, X, live, K, old)
  <2> HIDE DEF P2
  <2>1. /\ t \in Consuming /\ t.pair = P2 /\ t.cache = s.cache /\ t.caches = s.caches
        /\ t.output = s.output /\ t.data = s.data
    BY <1>1, <1>8, PairChanged, Zenon
  <2>2. \A u \in Uuid : SubMap(s.caches[u], K[u])
    BY Zenon DEF Between
  <2> HIDE DEF t
  <2> QED
    BY <1>6, <1>8, <2>1, <2>2, StillBetween, Zenon
<1> QED
  BY <1>7, <1>9, Zenon

\* No <EOS_ACK> is an error.
LEMMA EosAckStep ==
  ASSUME NEW s, NEW Q, NEW C, NEW R, NEW own, NEW G, NEW S, NEW V, NEW W, NEW X,
         NEW live, NEW K, NEW old, NEW D \in Seq(AnyMessage),
         Between(s, Q, C, R, own, G, S, V, W, X, live, K, old), Shifted(C, D), C[1].op = "EOS_ACK"
  PROVE  Between(EosAck(s), Q, D, R, own, G, S, V, W, X, live, K, old)
<1> DEFINE P == s.pair
           P2 == [P EXCEPT !.decoder_received_eos_ack = TRUE]
           t == [s EXCEPT !.pair = P2]
<1>1. s \in Consuming /\ P \in PairRecord /\ P.open
  BY ConsumingFacts, Zenon DEF Between
<1>2. Link(P, Q, C, To(Q, R, s.output), own, G, S, V \o s.data, W, X, live)
  BY Zenon DEF Between
<1>3. C \in Seq(AnyMessage) /\ 1 \in 1..Len(C) /\ C[1] \in AnyMessage
  BY <1>1, <1>2, Taken, Zenon DEF Link
<1>5. Receives(P, P2, P.decoder, P.decoder_window, P.decoder_unknown_hashes,
               P.decoder_frame_buffer, P.decoder_received_eos,
               TRUE, P.decoder_sent_eos)
  BY <1>1, Zenon DEF Receives, SameEncoder, PairRecord
<1>6. /\ P.encoder_sent_eos /\ ~P.decoder_received_eos_ack
      /\ Link(P2, Q, D, To(Q, R, s.output), own, G, S, V \o s.data, W, X, live)
      /\ NotDone(P2)
  <2> HIDE DEF P, P2
  <2> QED
    BY <1>1, <1>2, <1>5, TakeEosAck, Zenon
<1>7. EosAck(s) = t
  BY <1>6, Zenon DEF EosAck
<1>8. P2 \in PairRecord /\ SameEncoder(P, P2) /\ P2.decoder_sent_eos = P.decoder_sent_eos
  BY <1>5, Zenon DEF Receives
<1>9. Between(t, Q, D, R, own, G, S, V, W, X, live, K, old)
  <2> HIDE DEF P2
  <2>1. /\ t \in Consuming /\ t.pair = P2 /\ t.cache = s.cache /\ t.caches = s.caches
        /\ t.output = s.output /\ t.data = s.data
    BY <1>1, <1>8, PairChanged, Zenon
  <2>2. \A u \in Uuid : SubMap(s.caches[u], K[u])
    BY Zenon DEF Between
  <2> HIDE DEF t
  <2> QED
    BY <1>6, <1>8, <2>1, <2>2, StillBetween, Zenon
<1> QED
  BY <1>7, <1>9, Zenon

\* No <FRAME> is an error.
LEMMA FrameStep ==
  ASSUME NEW s, NEW Q, NEW C, NEW R, NEW own, NEW G, NEW S, NEW V, NEW W, NEW X,
         NEW live, NEW K, NEW old, NEW D \in Seq(AnyMessage),
         Between(s, Q, C, R, own, G, S, V, W, X, live, K, old), Shifted(C, D), C[1].op = "FRAME"
  PROVE  Between(Frame(s, C[1]), Q, D, R, own, G, S, V, W, X, live, K, old)
<1> DEFINE P == s.pair
           P2 == [P EXCEPT !.decoder_frame_buffer = @ \o C[1].units]
           t == [s EXCEPT !.pair = P2]
<1>1. s \in Consuming /\ P \in PairRecord /\ P.open
  BY ConsumingFacts, Zenon DEF Between
<1>2. Link(P, Q, C, To(Q, R, s.output), own, G, S, V \o s.data, W, X, live)
  BY Zenon DEF Between
<1>3. C \in Seq(AnyMessage) /\ 1 \in 1..Len(C) /\ C[1] \in AnyMessage
  BY <1>1, <1>2, Taken, Zenon DEF Link
<1>4. P.decoder_frame_buffer \o C[1].units \in Seq(Unit)
  <2>1. P.decoder_frame_buffer \in Seq(Unit) /\ C[1].units \in Seq(Unit)
    BY <1>1, <1>3, MessageFacts, PairFacts, Zenon
  <2> QED
    BY <2>1
<1>5. Receives(P, P2, P.decoder, P.decoder_window, P.decoder_unknown_hashes,
               P.decoder_frame_buffer \o C[1].units, P.decoder_received_eos,
               P.decoder_received_eos_ack, P.decoder_sent_eos)
  BY <1>1, <1>4, Zenon DEF Receives, SameEncoder, PairRecord
<1>6. /\ P.decoder # NoUuid
      /\ Link(P2, Q, D, To(Q, R, s.output), own, G, S, V \o s.data, W, X, live)
      /\ NotDone(P2)
  <2> HIDE DEF P, P2
  <2> QED
    BY <1>1, <1>2, <1>5, TakeFrame, Zenon
<1>7. Frame(s, C[1]) = t
  BY <1>6, Zenon DEF Frame
<1>8. P2 \in PairRecord /\ SameEncoder(P, P2) /\ P2.decoder_sent_eos = P.decoder_sent_eos
  BY <1>5, Zenon DEF Receives
<1>9. Between(t, Q, D, R, own, G, S, V, W, X, live, K, old)
  <2> HIDE DEF P2
  <2>1. /\ t \in Consuming /\ t.pair = P2 /\ t.cache = s.cache /\ t.caches = s.caches
        /\ t.output = s.output /\ t.data = s.data
    BY <1>1, <1>8, PairChanged, Zenon
  <2>2. \A u \in Uuid : SubMap(s.caches[u], K[u])
    BY Zenon DEF Between
  <2> HIDE DEF t
  <2> QED
    BY <1>6, <1>8, <2>1, <2>2, StillBetween, Zenon
<1> QED
  BY <1>7, <1>9, Zenon

\* No <LEARN> is an error, and the hash it teaches is the one of the other codec.
LEMMA LearnStep ==
  ASSUME CodecRules, NEW s, NEW Q, NEW C, NEW R, NEW own, NEW G, NEW S, NEW V, NEW W, NEW X,
         NEW live, NEW K, NEW old, NEW D \in Seq(AnyMessage),
         Between(s, Q, C, R, own, G, S, V, W, X, live, K, old), Shifted(C, D), C[1].op = "LEARN"
  PROVE  Between(Learn(s, C[1]), Q, D, R, own, G, S, V, W, X, live, K, old)
<1> DEFINE P == s.pair
           hash == HashOf[C[1].seg]
           u == P.decoder
           unknown == P.decoder_unknown_hashes \ {hash}
           P2 == [P EXCEPT !.decoder_unknown_hashes = unknown]
           t == [s EXCEPT !.pair = P2]
<1>1. s \in Consuming /\ P \in PairRecord /\ P.open
  BY ConsumingFacts, Zenon DEF Between
<1>2. Link(P, Q, C, To(Q, R, s.output), own, G, S, V \o s.data, W, X, live)
  BY Zenon DEF Between
<1>3. C \in Seq(AnyMessage) /\ 1 \in 1..Len(C) /\ C[1] \in AnyMessage
  BY <1>1, <1>2, Taken, Zenon DEF Link
<1>4. C[1].seg \in Segment
  BY <1>3, MessageFacts, Zenon
<1>5. Receives(P, P2, P.decoder, P.decoder_window, unknown,
               P.decoder_frame_buffer, P.decoder_received_eos,
               P.decoder_received_eos_ack, P.decoder_sent_eos)
  BY <1>1, Zenon DEF Receives, SameEncoder, PairRecord
<1>6. /\ P.decoder # NoUuid /\ P.decoder = Q.encoder /\ Known(G, C[1].seg)
      /\ Link(P2, Q, D, To(Q, R, s.output), own, G, S, V \o s.data, W, X, live)
      /\ NotDone(P2)
  <2>1. unknown = P.decoder_unknown_hashes \ {HashOf[C[1].seg]}
    OBVIOUS
  <2> HIDE DEF P, P2, unknown
  <2>2. NotDone(P2) /\ Link(P2, Q, D, To(Q, R, s.output), own, G, S, V \o s.data, W, X, live)
    BY <1>1, <1>2, <1>5, <2>1, TakeLearn, Zenon
  <2>3. P.decoder # NoUuid /\ P.decoder = Q.encoder
    BY <1>1, <1>2, <1>3, AfterHello DEF Link, Half
  <2>4. Known(G, C[1].seg)
    BY <1>2, <1>3, Zenon DEF Link, Half, AskOK
  <2> QED
    BY <2>2, <2>3, <2>4, Zenon
<1>7. P2 \in PairRecord /\ SameEncoder(P, P2) /\ P2.decoder_sent_eos = P.decoder_sent_eos
  BY <1>5, Zenon DEF Receives
<1>8. u \in Uuid /\ u # NoUuid /\ G = K[u] /\ hash \in Hash
  BY <1>1, <1>4, <1>6, PairFacts, PipeAssumption, Zenon DEF Between
<1>9. /\ t \in Consuming /\ t.pair = P2 /\ t.cache = s.cache /\ t.caches = s.caches
      /\ t.output = s.output /\ t.data = s.data
  <2> HIDE DEF P2
  <2> QED
    BY <1>1, <1>7, PairChanged, Zenon
<1>10. \A v \in Uuid : SubMap(s.caches[v], K[v])
  BY Zenon DEF Between
<1>11. t = [s EXCEPT !.pair.decoder_unknown_hashes = @ \ {hash}]
  OBVIOUS
<1>12. CASE hash \in DOMAIN s.caches[u]
  <2>1. s.caches[u][hash] = C[1].seg
    BY <1>6, <1>8, <1>10, <1>12, Zenon DEF SubMap, Known
  <2>2. Learn(s, C[1]) = t
    <3> HIDE DEF t, P2
    <3> QED
      BY <1>6, <1>11, <1>12, <2>1, Zenon DEF Learn
  <2>3. Between(t, Q, D, R, own, G, S, V, W, X, live, K, old)
    <3> HIDE DEF t, P2
    <3> QED
      BY <1>6, <1>7, <1>9, <1>10, StillBetween, Zenon
  <2> QED
    BY <2>2, <2>3, Zenon
<1>13. CASE hash \notin DOMAIN s.caches[u]
  <2> DEFINE c2 == Insert(s.caches[u], hash, C[1].seg)
             t2 == [t EXCEPT !.caches[u] = c2]
  <2>1. Learn(s, C[1]) = t2
    <3>1. t.caches[u] = s.caches[u]
      BY <1>9, Zenon
    <3>2. Learn(s, C[1]) = [t EXCEPT !.caches[u] = Insert(@, hash, C[1].seg)]
      <4> HIDE DEF t, P2
      <4> QED
        BY <1>6, <1>11, <1>13, Zenon DEF Learn
    <3> HIDE DEF t, P2
    <3> QED
      BY <3>1, <3>2, Zenon
  <2>2. s.caches[u] \in MapOf(Hash, Segment) /\ s.caches \in [Uuid -> MapOf(Hash, Segment)]
    BY <1>1, <1>8, ConsumingFacts, Zenon
  <2>3. c2 \in MapOf(Hash, Segment) /\ SubMap(c2, K[u])
    <3>1. SubMap(s.caches[u], K[u]) /\ Known(K[u], C[1].seg)
      BY <1>6, <1>8, <1>10, Zenon
    <3>2. c2 \in MapOf(Hash, Segment)
      BY <1>4, <1>8, <2>2, Zenon DEF CodecRules, MapsSound
    <3>3. SubMap(c2, K[u])
      BY <3>1, Zenon DEF SubMap, Known, Insert
    <3> QED
      BY <3>2, <3>3, Zenon
  <2>4. /\ t2 \in Consuming /\ t2.pair = P2 /\ t2.cache = s.cache
        /\ t2.caches = [s.caches EXCEPT ![u] = c2] /\ t2.output = s.output /\ t2.data = s.data
    <3> HIDE DEF t, P2, c2, u
    <3>1. [s.caches EXCEPT ![u] = c2] \in [Uuid -> MapOf(Hash, Segment)]
      BY <1>8, <2>2, <2>3, Zenon
    <3> QED
      BY <1>9, <3>1, Zenon DEF Consuming
  <2>5. \A v \in Uuid : SubMap(t2.caches[v], K[v])
    <3> HIDE DEF t2, c2, u
    <3> QED
      BY <1>8, <1>10, <2>2, <2>3, <2>4, Zenon
  <2>6. Between(t2, Q, D, R, own, G, S, V, W, X, live, K, old)
    <3> HIDE DEF t2, P2
    <3> QED
      BY <1>6, <1>7, <2>4, <2>5, StillBetween, Zenon
  <2> QED
    BY <2>1, <2>6, Zenon
<1> QED
  BY <1>12, <1>13, Zenon

\* Every <ASK> is answered.
LEMMA AskStep ==
  ASSUME CodecRules, NEW s, NEW Q, NEW C, NEW R, NEW own, NEW G, NEW S, NEW V, NEW W, NEW X,
         NEW live, NEW K, NEW old, NEW D \in Seq(AnyMessage),
         Between(s, Q, C, R, own, G, S, V, W, X, live, K, old), Shifted(C, D), C[1].op = "ASK"
  PROVE  Between(Ask(s, C[1]), Q, D, R, own, G, S, V, W, X, live, K, old)
<1> DEFINE P == s.pair
           m == [op |-> "LEARN", seg |-> own[C[1].hash]]
           t == [s EXCEPT !.output = @ \o <<m>>]
<1>1. s \in Consuming /\ P \in PairRecord /\ P.open /\ R \in Seq(AnyMessage)
      /\ s.output \in Seq(AnyMessage) /\ \A h \in DOMAIN own : HashOf[own[h]] = h
  BY ConsumingFacts, Zenon DEF Between
<1>2. Link(P, Q, C, To(Q, R, s.output), own, G, S, V \o s.data, W, X, live)
  BY Zenon DEF Between
<1>3. C \in Seq(AnyMessage) /\ 1 \in 1..Len(C) /\ C[1] \in AnyMessage
  BY <1>1, <1>2, Taken, Zenon DEF Link
<1>4. P.encoder # NoUuid /\ C[1].hash \in DOMAIN own /\ own \in MapOf(Hash, Segment)
  BY <1>2, <1>3, Zenon DEF Link, Half, AskOK
<1>5. m \in AnyMessage /\ m.op = "LEARN" /\ m.seg = own[C[1].hash]
  BY <1>4, Zenon DEF AnyMessage, Message, CodecRules, MapsSound
<1>6. /\ To(Q, R, s.output \o <<m>>) \in Seq(AnyMessage) /\ s.output \o <<m>> \in Seq(AnyMessage)
      /\ Sent(Q, To(Q, R, s.output), To(Q, R, s.output \o <<m>>), m)
  <2> HIDE DEF m
  <2> QED
    BY <1>1, <1>5, ToNext, Zenon
<1>7. /\ ~P.encoder_produced_eos
      /\ Link(P, Q, D, To(Q, R, s.output \o <<m>>), own, G, S, V \o s.data, W, X, live)
      /\ NotDone(P)
  <2> HIDE DEF P, m
  <2>1. Answering(P, Q, D, To(Q, R, s.output), own, G, S, V \o s.data, W, X, live, C[1].hash)
    BY <1>1, <1>2, TakeAsk, Zenon
  <2>2. Link(P, Q, D, To(Q, R, s.output \o <<m>>), own, G, S, V \o s.data, W, X, live)
    BY <1>1, <1>5, <1>6, <2>1, SendLearn, Zenon
  <2> QED
    BY <2>1, <2>2, Zenon DEF Answering
<1>8. Ask(s, C[1]) = t
  <2>1. s.cache = own
    BY <1>4, Zenon DEF Between, EncoderKept
  <2> QED
    BY <1>4, <1>7, <2>1, Zenon DEF Ask, EncoderProduce, Check
<1>9. /\ t \in Consuming /\ t.pair = s.pair /\ t.cache = s.cache /\ t.caches = s.caches
      /\ t.output = s.output \o <<m>> /\ t.data = s.data
  <2> HIDE DEF m
  <2> QED
    BY <1>1, <1>6, Zenon DEF Consuming
<1>10. /\ SameEncoder(s.pair, t.pair) /\ t.pair.decoder_sent_eos = s.pair.decoder_sent_eos
       /\ \A u \in Uuid : SubMap(t.caches[u], K[u])
  BY <1>9, Zenon DEF SameEncoder, Between
<1>11. Between(t, Q, D, R, own, G, S, V, W, X, live, K, old)
  <2> HIDE DEF t, m
  <2> QED
    BY <1>7, <1>9, <1>10, StillBetween, Zenon
<1> QED
  BY <1>8, <1>11, Zenon

\* One message: the switch of decoder_consume.
LEMMA DispatchStep ==
  ASSUME CodecRules, NEW s, NEW Q, NEW C, NEW R, NEW own, NEW G, NEW S, NEW V, NEW W, NEW X,
         NEW live, NEW K, NEW old, NEW D \in Seq(AnyMessage),
         Between(s, Q, C, R, own, G, S, V, W, X, live, K, old), Shifted(C, D), C[1].op # "FIN"
  PROVE  Between(Dispatch(s, C[1]), Q, D, R, own, G, S, V, W, X, live, K, old)
<1>1. s \in Consuming /\ s.pair.open
  BY Zenon DEF Between
<1>2. Link(s.pair, Q, C, To(Q, R, s.output), own, G, S, V \o s.data, W, X, live)
  BY Zenon DEF Between
<1>3. C[1] \in AnyMessage
  BY <1>1, <1>2, Taken, Zenon DEF Link
<1>4. C[1].op \in {"HELLO", "ASK", "LEARN", "EOS", "EOS_ACK", "FRAME"}
  BY <1>3, MessageFacts, Zenon
<1>5. CASE C[1].op = "HELLO"
  BY <1>5, HelloStep, Zenon DEF Dispatch
<1>6. CASE C[1].op = "ASK"
  BY <1>6, AskStep, Zenon DEF Dispatch
<1>7. CASE C[1].op = "LEARN"
  BY <1>7, LearnStep, Zenon DEF Dispatch
<1>8. CASE C[1].op = "EOS"
  BY <1>8, EosStep, Zenon DEF Dispatch
<1>9. CASE C[1].op = "EOS_ACK"
  BY <1>9, EosAckStep, Zenon DEF Dispatch
<1>10. CASE C[1].op = "FRAME"
  BY <1>10, FrameStep, Zenon DEF Dispatch
<1> QED
  BY <1>4, <1>5, <1>6, <1>7, <1>8, <1>9, <1>10, Zenon

\* Concatenation is associative, and <<>> its unit.
LEMMA Concat3 ==
  ASSUME NEW E, NEW A \in Seq(E), NEW B \in Seq(E), NEW C \in Seq(E)
  PROVE  /\ A \o (B \o C) = (A \o B) \o C /\ B \o C \in Seq(E) /\ A \o B \in Seq(E)
         /\ A \o <<>> = A
<1> DEFINE L == A \o (B \o C)
           M == (A \o B) \o C
<1>1. /\ B \o C \in Seq(E) /\ Len(B \o C) = Len(B) + Len(C) /\ A \o <<>> = A
      /\ A \o B \in Seq(E) /\ Len(A \o B) = Len(A) + Len(B)
  OBVIOUS
<1>2. L \in Seq(E) /\ M \in Seq(E) /\ Len(L) = Len(M) /\ Len(L) = Len(A) + Len(B) + Len(C)
  BY <1>1
<1>3. ASSUME NEW i \in 1..Len(L) PROVE L[i] = M[i]
  OBVIOUS
<1>4. L = M
  BY <1>1, <1>2, <1>3
<1> QED
  BY <1>1, <1>4, Zenon

\* Decoding the frame data and asking for what is not known.
LEMMA ProgressDecode ==
  ASSUME CodecRules, NEW s, NEW Q, NEW C, NEW R, NEW own, NEW G, NEW S, NEW V, NEW W, NEW X,
         NEW live, NEW K, NEW old,
         Between(s, Q, C, R, own, G, S, V, W, X, live, K, old),
         s.pair.decoder_frame_buffer # <<>>, s.pair.decoder_unknown_hashes = {}
  PROVE  /\ Between(Progress(s), Q, C, R, own, G, S, V, W, X, live, K, old)
         /\ Settled(Progress(s).pair)
<1> DEFINE P == s.pair
           u == P.decoder
           d == Decode(P.decoder_window, s.caches[u], P.decoder_frame_buffer)
           asks == Asks(d.unknown)
           P2 == [P EXCEPT !.decoder_window = d.window, !.decoder_frame_buffer = d.rest,
                           !.decoder_unknown_hashes = d.unknown]
           r == [s EXCEPT !.pair = P2, !.caches = [s.caches EXCEPT ![u] = d.cache],
                          !.data = s.data \o d.output, !.output = s.output \o asks]
<1>1. /\ s \in Consuming /\ P \in PairRecord /\ P.open /\ R \in Seq(AnyMessage)
      /\ V \in Seq(Segment) /\ NotDone(P) /\ ~P.encoder_produced_eos
      /\ s.output \in Seq(AnyMessage) /\ s.data \in Seq(Segment)
      /\ s.caches \in [Uuid -> MapOf(Hash, Segment)]
      /\ \A v \in Uuid : SubMap(s.caches[v], K[v])
  BY ConsumingFacts, Zenon DEF Between
<1>2. Link(P, Q, C, To(Q, R, s.output), own, G, S, V \o s.data, W, X, live)
  BY Zenon DEF Between
<1>3. u \in Uuid /\ G = K[u] /\ s.caches[u] \in MapOf(Hash, Segment) /\ SubMap(s.caches[u], G)
  <2>1. Waiting(P) /\ HelloOK(P, Q, C)
    BY <1>2, Zenon DEF Link, Half
  <2>2. u # NoUuid /\ u = Q.encoder
    BY <1>1, <2>1, Zenon DEF Waiting, HelloOK
  <2>3. u \in Uuid /\ G = K[u]
    BY <1>1, <2>2, PairFacts, Zenon DEF Between
  <2> QED
    BY <1>1, <2>3, Zenon
<1>20. P.decoder_frame_buffer # <<>> /\ P.decoder_unknown_hashes = {}
  OBVIOUS
<1>21. DecodedFrames(d, P, Q, C, G, S, V \o s.data)
  <2>1. d = Decode(P.decoder_window, s.caches[u], P.decoder_frame_buffer)
    OBVIOUS
  <2> DEFINE known == s.caches[u]
             W2 == V \o s.data
             R2 == To(Q, R, s.output)
  <2>2. known \in MapOf(Hash, Segment) /\ SubMap(known, G) /\ d = Decode(P.decoder_window, known, P.decoder_frame_buffer)
        /\ Link(P, Q, C, R2, own, G, S, W2, W, X, live)
    BY <1>2, <1>3, <2>1, Zenon
  <2> HIDE DEF d, P, u, known, W2, R2
  <2>3. Decodable(P, Q, C, G, S, W2)
    BY <1>1, <2>2, Zenon DEF Link, Half, Decodable
  <2>4. DecodedFrames(d, P, Q, C, G, S, W2)
    BY <1>20, <2>2, <2>3, Zenon DEF CodecRules, DecodesFrames
  <2> QED
    BY <2>4, Zenon DEF W2
<1> HIDE DEF d
<1>4. /\ d \in DecoderState /\ SubMap(d.cache, G)
      /\ d.output = <<>> => d.rest # <<>>
      /\ d.unknown = {} \/ \E h \in DOMAIN G : d.unknown = {h}
  BY <1>21, Zenon DEF DecodedFrames
<1>5. /\ d.rest \in Seq(Unit) /\ d.output \in Seq(Segment) /\ d.window \in Window
      /\ d.cache \in MapOf(Hash, Segment) /\ d.unknown \in SUBSET Hash /\ d.error = FALSE
  BY <1>4, Zenon DEF DecoderState
<1>6. \/ asks = <<>> /\ d.unknown = {}
      \/ \E h \in DOMAIN G : d.unknown = {h} /\ asks = <<[op |-> "ASK", hash |-> h]>>
  BY <1>4, Zenon DEF CodecRules, AsksOnce
<1>7. asks \in Seq(AnyMessage)
  <2> HIDE DEF asks
  <2>1. CASE asks = <<>>
    BY <2>1
  <2>2. ASSUME NEW h \in DOMAIN G, d.unknown = {h}, asks = <<[op |-> "ASK", hash |-> h]>>
        PROVE  asks \in Seq(AnyMessage)
    <3>1. [op |-> "ASK", hash |-> h] \in AnyMessage
      BY <1>5, <2>2, Zenon DEF AnyMessage, Message
    <3> QED
      BY <2>2, <3>1
  <2> QED
    BY <1>6, <2>1, <2>2, Zenon
<1>8. Receives(P, P2, P.decoder, d.window, d.unknown, d.rest, P.decoder_received_eos,
               P.decoder_received_eos_ack, P.decoder_sent_eos)
  BY <1>1, <1>5, Zenon DEF Receives, SameEncoder, PairRecord
<1>9. Progress(s) = r
  <2>1. ~P.decoder_sent_eos
    BY <1>1, Zenon DEF NotDone
  <2> DEFINE t == [s EXCEPT !.pair.decoder_window = d.window,
                            !.pair.decoder_frame_buffer = d.rest,
                            !.pair.decoder_unknown_hashes = d.unknown,
                            !.caches[u] = d.cache]
             t2 == [t EXCEPT !.data = @ \o d.output]
  <2>2. Progress(s) = EncoderProduce(Check(t2, IF d.output # <<>> THEN ~P.decoder_sent_eos
                                               ELSE d.rest # <<>> \/ d.unknown # {}), asks)
    BY <1>5, Zenon DEF Progress, d, Asks
  <2>3. t = [s EXCEPT !.pair = P2, !.caches = [s.caches EXCEPT ![u] = d.cache]]
    BY <1>1, Zenon DEF Consuming, PairRecord
  <2>4. t2 = [s EXCEPT !.pair = P2, !.caches = [s.caches EXCEPT ![u] = d.cache],
                       !.data = s.data \o d.output]
    <3> HIDE DEF P2, t
    <3> QED
      BY <1>1, <2>3, Zenon DEF Consuming
  <2>5. ~P2.encoder_produced_eos
    BY <1>1, Zenon DEF PairRecord
  <2>6. t2.pair = P2 /\ t2.output = s.output
    <3> HIDE DEF P2, t, t2
    <3> QED
      BY <1>1, <2>4, Zenon DEF Consuming
  <2>7. Progress(s) = EncoderProduce(t2, asks)
    <3> HIDE DEF t2, asks
    <3> QED
      BY <1>4, <2>1, <2>2, Zenon DEF Check
  <2>8. Progress(s) = [t2 EXCEPT !.output = s.output \o asks]
    <3> HIDE DEF t2, asks, P2
    <3> QED
      BY <2>5, <2>6, <2>7, Zenon DEF EncoderProduce, Check
  <2> HIDE DEF t2, asks, P2, t
  <2> QED
    BY <1>1, <2>4, <2>8, Zenon DEF Consuming
<1> HIDE DEF asks
<1>10. /\ s.output \o asks \in Seq(AnyMessage) /\ s.data \o d.output \in Seq(Segment)
       /\ V \o (s.data \o d.output) = (V \o s.data) \o d.output
       /\ s.output \o <<>> = s.output
  <2>1. s.output \o asks \in Seq(AnyMessage) /\ s.output \o <<>> = s.output
    BY <1>1, <1>7, Concat3, Zenon
  <2>2. /\ s.data \o d.output \in Seq(Segment)
        /\ V \o (s.data \o d.output) = (V \o s.data) \o d.output
    <3> DEFINE b == s.data
               c == d.output
    <3>1. V \in Seq(Segment) /\ b \in Seq(Segment) /\ c \in Seq(Segment)
      BY <1>1, <1>5, Zenon
    <3> HIDE DEF b, c
    <3>2. b \o c \in Seq(Segment)
      BY <3>1
    <3>3. V \o (b \o c) = (V \o b) \o c
      BY <3>1, Concat3
    <3> QED
      BY <3>2, <3>3, Zenon DEF b, c
  <2> QED
    BY <2>1, <2>2, Zenon
<1>11. P2 \in PairRecord /\ SameEncoder(P, P2) /\ P2.decoder_sent_eos = P.decoder_sent_eos
  BY <1>8, Zenon DEF Receives
<1>12. /\ r \in Consuming /\ r.pair = P2 /\ r.cache = s.cache
       /\ r.caches = [s.caches EXCEPT ![u] = d.cache]
       /\ r.output = s.output \o asks /\ r.data = s.data \o d.output
  <2>1. [s.caches EXCEPT ![u] = d.cache] \in [Uuid -> MapOf(Hash, Segment)]
    BY <1>1, <1>3, <1>5, Zenon
  <2> HIDE DEF P2
  <2> QED
    BY <1>1, <1>10, <1>11, <2>1, Zenon DEF Consuming
<1>13. \A v \in Uuid : SubMap(r.caches[v], K[v])
  <2> HIDE DEF r
  <2> QED
    BY <1>1, <1>3, <1>4, <1>12, Zenon
<1>14. Waiting(P2) /\ Settled(P2) /\ Delivers(P2, Q, C, G, S, (V \o s.data) \o d.output)
  <2>1. P2.decoder = P.decoder /\ P2.decoder_frame_buffer = d.rest
        /\ P2.decoder_window = d.window /\ P2.decoder_unknown_hashes = d.unknown
    BY <1>8, Zenon DEF Receives
  <2> DEFINE W2 == V \o s.data
  <2>2. DecodedFrames(d, P, Q, C, G, S, W2)
    BY <1>21, Zenon
  <2> HIDE DEF P2, P, W2
  <2>3. Waiting(P2) /\ Settled(P2) /\ Delivers(P2, Q, C, G, S, W2 \o d.output)
    BY <2>1, <2>2, Zenon DEF DecodedFrames
  <2> QED
    BY <2>3, Zenon DEF W2
<1>15. NotDone(P2)
  <2>1. P2.decoder_sent_eos = P.decoder_sent_eos
    BY <1>8, Zenon DEF Receives
  <2> HIDE DEF P2
  <2> QED
    BY <1>1, <2>1, Zenon DEF NotDone
<1>16. /\ To(Q, R, s.output \o asks) \in Seq(AnyMessage)
       /\ \/ d.unknown = {} /\ To(Q, R, s.output \o asks) = To(Q, R, s.output)
          \/ \E h \in DOMAIN G : \E m :
               /\ d.unknown = {h} /\ m.op = "ASK" /\ m.hash = h
               /\ Sent(Q, To(Q, R, s.output), To(Q, R, s.output \o asks), m)
  <2>1. To(Q, R, s.output \o asks) \in Seq(AnyMessage)
    BY <1>1, <1>10, Concat3, Zenon DEF To
  <2>2. CASE asks = <<>> /\ d.unknown = {}
    BY <1>10, <2>1, <2>2, Zenon
  <2>3. ASSUME NEW h \in DOMAIN G, d.unknown = {h}, asks = <<[op |-> "ASK", hash |-> h]>>
        PROVE  \E m : /\ d.unknown = {h} /\ m.op = "ASK" /\ m.hash = h
                      /\ Sent(Q, To(Q, R, s.output), To(Q, R, s.output \o asks), m)
    <3> DEFINE m == [op |-> "ASK", hash |-> h]
    <3>1. m \in AnyMessage /\ m.op = "ASK" /\ m.hash = h
      BY <1>5, <2>3, Zenon DEF AnyMessage, Message
    <3>2. asks = <<m>>
      BY <2>3, Zenon
    <3> HIDE DEF m
    <3>3. Sent(Q, To(Q, R, s.output), To(Q, R, s.output \o asks), m)
      BY <1>1, <3>1, <3>2, ToNext, Zenon
    <3> QED
      BY <2>3, <3>1, <3>3, Zenon
  <2> QED
    BY <1>6, <2>1, <2>2, <2>3, Zenon
<1>17. Link(P2, Q, C, To(Q, R, s.output \o asks), own, G, S, (V \o s.data) \o d.output, W, X, live)
  <2> DEFINE W2 == V \o s.data
             A == To(Q, R, s.output)
             B == To(Q, R, s.output \o asks)
             window == d.window
             rest == d.rest
             unknown == d.unknown
             output == d.output
  <2>1. /\ B \in Seq(AnyMessage) /\ output \in Seq(Segment)
        /\ Link(P, Q, C, A, own, G, S, W2, W, X, live)
        /\ Receives(P, P2, P.decoder, window, unknown, rest, P.decoder_received_eos,
                    P.decoder_received_eos_ack, P.decoder_sent_eos)
        /\ Waiting(P2) /\ Delivers(P2, Q, C, G, S, W2 \o output)
    BY <1>2, <1>5, <1>8, <1>14, <1>16, Zenon
  <2>2. \/ unknown = {} /\ B = A
        \/ \E h \in DOMAIN G : \E m : unknown = {h} /\ m.op = "ASK" /\ m.hash = h /\ Sent(Q, A, B, m)
    BY <1>16, Zenon
  <2> HIDE DEF P2, P, W2, A, B, window, rest, unknown, output
  <2>3. Link(P2, Q, C, B, own, G, S, W2 \o output, W, X, live)
    BY <1>1, <1>20, <2>1, <2>2, DecodedLink, Zenon
  <2> QED
    BY <2>3, Zenon DEF W2, B, output
<1>18. Between(r, Q, C, R, own, G, S, V, W, X, live, K, old)
  <2> HIDE DEF r, P2
  <2> QED
    BY <1>10, <1>11, <1>12, <1>13, <1>15, <1>17, StillBetween, Zenon
<1>19. Settled(r.pair)
  <2> HIDE DEF r, P2
  <2> QED
    BY <1>12, <1>14, Zenon
<1> QED
  <2> HIDE DEF r
  <2> QED
    BY <1>9, <1>18, <1>19, Zenon

\* The rest of the loop body reports no error, fails no ASSERT and leaves no
\* frame data that could be decoded.
LEMMA ProgressStep ==
  ASSUME CodecRules, NEW s, NEW Q, NEW C, NEW R, NEW own, NEW G, NEW S, NEW V, NEW W, NEW X,
         NEW live, NEW K, NEW old,
         Between(s, Q, C, R, own, G, S, V, W, X, live, K, old)
  PROVE  /\ Between(Progress(s), Q, C, R, own, G, S, V, W, X, live, K, old)
         /\ Settled(Progress(s).pair)
<1> DEFINE P == s.pair
           m == [op |-> "EOS_ACK"]
           P2 == [P EXCEPT !.encoder_sent_eos_ack = TRUE]
           r == [s EXCEPT !.pair = P2, !.output = s.output \o <<m>>]
<1>1. /\ s \in Consuming /\ P \in PairRecord /\ P.open /\ R \in Seq(AnyMessage)
      /\ NotDone(P) /\ ~P.encoder_produced_eos /\ s.output \in Seq(AnyMessage)
      /\ P.decoder_received_eos \in BOOLEAN /\ P.encoder_sent_eos_ack \in BOOLEAN
      /\ EncoderKept(old, P)
  BY ConsumingFacts, PairFacts, Zenon DEF Between
<1>2. Link(P, Q, C, To(Q, R, s.output), own, G, S, V \o s.data, W, X, live)
  BY Zenon DEF Between
<1>3. CASE /\ P.decoder_frame_buffer = <<>>
           /\ P.decoder_received_eos /\ ~P.encoder_sent_eos_ack
  <2>1. Progress(s) = r
    <3>1. Progress(s) = [EncoderProduce(s, <<m>>) EXCEPT !.pair.encoder_sent_eos_ack = TRUE]
      BY <1>3, Zenon DEF Progress
    <3>2. EncoderProduce(s, <<m>>) = [s EXCEPT !.output = s.output \o <<m>>]
      BY <1>1, Zenon DEF EncoderProduce, Check
    <3>3. [s EXCEPT !.output = s.output \o <<m>>].pair = P
      BY <1>1, Zenon DEF Consuming
    <3> HIDE DEF m
    <3> QED
      BY <1>1, <3>1, <3>2, <3>3, Zenon DEF Consuming
  <2>2. m \in AnyMessage /\ m.op = "EOS_ACK"
    BY Zenon DEF AnyMessage, Message
  <2> HIDE DEF m
  <2>3. /\ To(Q, R, s.output \o <<m>>) \in Seq(AnyMessage) /\ s.output \o <<m>> \in Seq(AnyMessage)
        /\ Sent(Q, To(Q, R, s.output), To(Q, R, s.output \o <<m>>), m)
    BY <1>1, <2>2, ToNext, Zenon
  <2>4. Answers(P, P2, P.decoder_sent_eos, TRUE, P.encoder_produced_eos)
    BY <1>1, Zenon DEF Answers, PairRecord
  <2>5. Link(P2, Q, C, To(Q, R, s.output \o <<m>>), own, G, S, V \o s.data, W, X, live)
    <3> DEFINE A == To(Q, R, s.output)
               B == To(Q, R, s.output \o <<m>>)
               V2 == V \o s.data
    <3>1. /\ B \in Seq(AnyMessage) /\ Sent(Q, A, B, m)
          /\ Link(P, Q, C, A, own, G, S, V2, W, X, live)
      BY <1>2, <2>3, Zenon
    <3> HIDE DEF P, P2, A, B, V2
    <3>2. Link(P2, Q, C, B, own, G, S, V2, W, X, live)
      BY <1>1, <1>3, <2>2, <2>4, <3>1, SendEosAck, Zenon DEF CodecRules
    <3> QED
      BY <3>2, Zenon DEF B, V2
  <2>6. /\ P2 \in PairRecord /\ P2.open /\ ~P2.encoder_produced_eos /\ NotDone(P2)
        /\ EncoderKept(old, P2) /\ P2.decoder_frame_buffer = <<>>
    BY <1>1, <1>3, <2>4, Zenon DEF Answers, NotDone, EncoderKept
  <2>7. /\ r \in Consuming /\ r.pair = P2 /\ r.cache = s.cache /\ r.caches = s.caches
        /\ r.output = s.output \o <<m>> /\ r.data = s.data
    <3> HIDE DEF P2
    <3> QED
      BY <1>1, <2>3, <2>6, Zenon DEF Consuming
  <2>8. Between(r, Q, C, R, own, G, S, V, W, X, live, K, old)
    <3> HIDE DEF r, P2
    <3> QED
      BY <2>5, <2>6, <2>7, Zenon DEF Between
  <2>9. Settled(r.pair)
    <3> HIDE DEF r, P2
    <3> QED
      BY <2>6, <2>7, Zenon DEF Settled
  <2> HIDE DEF r
  <2> QED
    BY <2>1, <2>8, <2>9, Zenon
<1>4. CASE /\ P.decoder_frame_buffer = <<>>
           /\ ~(P.decoder_received_eos /\ ~P.encoder_sent_eos_ack)
  <2>1. Progress(s) = s
    BY <1>4, Zenon DEF Progress
  <2> QED
    BY <1>4, <2>1, Zenon DEF Settled
<1>5. CASE P.decoder_frame_buffer # <<>> /\ P.decoder_unknown_hashes # {}
  <2>1. Progress(s) = s
    BY <1>5, Zenon DEF Progress
  <2> QED
    BY <1>5, <2>1, Zenon DEF Settled
<1>6. CASE P.decoder_frame_buffer # <<>> /\ P.decoder_unknown_hashes = {}
  BY <1>6, ProgressDecode, Zenon
<1> QED
  BY <1>1, <1>3, <1>4, <1>5, <1>6, Zenon

\* One iteration of the loop.
LEMMA OperationStep ==
  ASSUME CodecRules, NEW s, NEW Q, NEW C, NEW R, NEW own, NEW G, NEW S, NEW V, NEW W, NEW X,
         NEW live, NEW K, NEW old, NEW D \in Seq(AnyMessage),
         Between(s, Q, C, R, own, G, S, V, W, X, live, K, old), Shifted(C, D), C[1].op # "FIN"
  PROVE  /\ Between(Operation(s, C[1]), Q, D, R, own, G, S, V, W, X, live, K, old)
         /\ Settled(Operation(s, C[1]).pair)
<1> DEFINE t == Dispatch(s, C[1])
<1>1. Between(t, Q, D, R, own, G, S, V, W, X, live, K, old)
  BY DispatchStep, Zenon
<1>2. s.returned = FALSE /\ t.returned = FALSE
  <2> HIDE DEF t
  <2> QED
    BY <1>1, ConsumingFacts, Zenon DEF Between
<1>3. Operation(s, C[1]) = Progress(t)
  <2> HIDE DEF t
  <2>1. Operation(s, C[1]) = IF t.returned THEN t ELSE Progress(t)
    BY <1>2, Zenon DEF Operation, t
  <2> QED
    BY <1>2, <2>1, Zenon
<1> HIDE DEF t
<1> QED
  BY <1>1, <1>3, ProgressStep, Zenon

\* The end of decoder_consume fails no ASSERT.
LEMMA FinishStep ==
  ASSUME CodecRules, NEW s, NEW Q, NEW C, NEW R, NEW own, NEW G, NEW S, NEW V, NEW W, NEW X,
         NEW live, NEW K, NEW old,
         Between(s, Q, C, R, own, G, S, V, W, X, live, K, old), Settled(s.pair)
  PROVE  Consumed(Finish(s), Q, C, R, own, G, S, V, W, X, live, K, old)
<1> DEFINE P == s.pair
           pending == P.decoder_received_eos /\ ~P.decoder_sent_eos
           complete == P.decoder_unknown_hashes = {}
           P1 == [P EXCEPT !.decoder_sent_eos = @ \/ (pending /\ complete)]
           t == [s EXCEPT !.pair = P1]
<1>1. /\ s \in Consuming /\ P \in PairRecord /\ P.open /\ R \in Seq(AnyMessage)
      /\ ~P.encoder_produced_eos /\ s.output \in Seq(AnyMessage) /\ EncoderKept(old, P)
      /\ P.decoder_received_eos \in BOOLEAN /\ P.decoder_sent_eos \in BOOLEAN
      /\ P.encoder_sent_eos_ack \in BOOLEAN /\ P.decoder_received_eos_ack \in BOOLEAN
  BY ConsumingFacts, PairFacts, Zenon DEF Between
<1> DEFINE A == To(Q, R, s.output)
           V2 == V \o s.data
<1>2. Link(P, Q, C, A, own, G, S, V2, W, X, live) /\ Settled(P)
  BY Zenon DEF Between
<1>3. pending /\ complete => P.decoder_frame_buffer = <<>>
  <2>1. ASSUME pending, complete PROVE P.decoder_frame_buffer = <<>>
    <3>1. /\ C \in Seq(AnyMessage) /\ EosOK(P, Q, C) /\ Delivers(P, Q, C, G, S, V2)
      BY <1>1, <1>2, Zenon DEF Link, Half
    <3> HIDE DEF P, V2
    <3> QED
      BY <1>1, <1>2, <2>1, <3>1, Zenon DEF EosOK, Settled, CodecRules, LinkRules, DecodesAll
  <2> QED
    BY <2>1, Zenon
<1>4. P.decoder_frame_buffer = <<>> => complete
  <2>1. Waiting(P)
    BY <1>2, Zenon DEF Link, Half
  <2> QED
    BY <2>1 DEF Waiting
<1>5. /\ Answers(P, P1, P1.decoder_sent_eos, P.encoder_sent_eos_ack, P.encoder_produced_eos)
      /\ P1.decoder_sent_eos = (P.decoder_sent_eos \/ (pending /\ complete))
  BY <1>1, Zenon DEF Answers, PairRecord
<1>6. Link(P1, Q, C, A, own, G, S, V2, W, X, live)
  <2>1. CASE pending /\ complete
    <3>1. Answers(P, P1, TRUE, P.encoder_sent_eos_ack, P.encoder_produced_eos)
      BY <1>5, <2>1, Zenon
    <3>2. P.decoder_received_eos /\ P.decoder_unknown_hashes = {}
      BY <2>1, Zenon
    <3> HIDE DEF P, P1, A, V2
    <3> QED
      BY <1>1, <1>2, <3>1, <3>2, PassEos, Zenon DEF CodecRules
  <2>2. CASE ~(pending /\ complete)
    <3>1. P1 = P
      BY <1>1, <2>2, Zenon DEF PairRecord
    <3> QED
      BY <1>2, <3>1, Zenon
  <2> QED
    BY <2>1, <2>2, Zenon
<1>7. /\ P1 \in PairRecord /\ P1.open /\ ~P1.encoder_produced_eos /\ EncoderKept(old, P1)
      /\ Settled(P1) /\ P1.encoder_sent_eos_ack = P.encoder_sent_eos_ack
      /\ P1.decoder_received_eos_ack = P.decoder_received_eos_ack
  BY <1>1, <1>2, <1>5, Zenon DEF Answers, Settled, EncoderKept
<1>8. /\ t \in Consuming /\ t.pair = P1 /\ t.cache = s.cache /\ t.caches = s.caches
      /\ t.output = s.output /\ t.data = s.data
  <2> HIDE DEF P1
  <2> QED
    BY <1>1, <1>7, PairChanged, Zenon
<1>9. \A u \in Uuid : SubMap(s.caches[u], K[u])
  BY Zenon DEF Between
<1>10. [Check(s, pending => (complete <=> P.decoder_frame_buffer = <<>>))
          EXCEPT !.pair.decoder_sent_eos = @ \/ (pending /\ complete)] = t
  <2>1. Check(s, pending => (complete <=> P.decoder_frame_buffer = <<>>)) = s
    BY <1>3, <1>4, Zenon DEF Check
  <2>2. t = [s EXCEPT !.pair.decoder_sent_eos = @ \/ (pending /\ complete)]
    OBVIOUS
  <2> HIDE DEF t, pending, complete
  <2> QED
    BY <2>1, <2>2, Zenon
<1>11. CASE ~(P.encoder_sent_eos_ack /\ P.decoder_received_eos_ack)
  <2>1. Finish(s) = t
    BY <1>10, <1>11, Zenon DEF Finish
  <2> HIDE DEF t, P1
  <2> QED
    BY <1>6, <1>7, <1>8, <1>9, <2>1, Zenon DEF Consumed
<1>12. CASE P.encoder_sent_eos_ack /\ P.decoder_received_eos_ack
  <2> DEFINE m == [op |-> "FIN"]
             P2 == [P1 EXCEPT !.encoder_produced_eos = TRUE]
             B == To(Q, R, s.output \o <<m>>)
             r == [t EXCEPT !.pair = P2, !.output = s.output \o <<m>>]
  <2>1. m \in AnyMessage /\ m.op = "FIN"
    BY Zenon DEF AnyMessage, Message
  <2>2. B \in Seq(AnyMessage) /\ s.output \o <<m>> \in Seq(AnyMessage) /\ Sent(Q, A, B, m)
    <3> HIDE DEF m
    <3> QED
      BY <1>1, <2>1, ToNext, Zenon
  <2>3. /\ Answers(P1, P2, P1.decoder_sent_eos, P1.encoder_sent_eos_ack, TRUE)
    <3> HIDE DEF P1
    <3> QED
      BY <1>7, Zenon DEF Answers, PairRecord
  <2>4. P1.decoder_frame_buffer = <<>> /\ Link(P2, Q, C, B, own, G, S, V2, W, X, live)
    <3> HIDE DEF P1, P2, A, B, V2, m
    <3> QED
      BY <1>6, <1>7, <1>12, <2>1, <2>2, <2>3, ShutDown, Zenon
  <2>5. /\ P2 \in PairRecord /\ P2.open /\ EncoderKept(old, P2) /\ Settled(P2)
    <3> HIDE DEF P1, P2
    <3> QED
      BY <1>7, <2>3, Zenon DEF Answers, Settled, EncoderKept
  <2>6. Finish(s) = r
    <3> DEFINE idle == P.decoder_frame_buffer = <<>>
    <3>1. Finish(s) = [Check(t, idle /\ ~P.encoder_produced_eos)
                         EXCEPT !.pair.encoder_produced_eos = TRUE,
                                !.output = Append(@, [op |-> "FIN"])]
      <4> HIDE DEF t
      <4> QED
        BY <1>10, <1>12, Zenon DEF Finish
    <3>2. idle
      BY <1>5, <2>4, Zenon DEF Answers
    <3>3. Check(t, idle /\ ~P.encoder_produced_eos) = t
      <4> HIDE DEF t
      <4> QED
        BY <1>1, <3>2, Zenon DEF Check
    <3>4. Append(s.output, [op |-> "FIN"]) = s.output \o <<m>>
      BY <1>1
    <3> HIDE DEF t, P1, m, idle
    <3> QED
      BY <1>8, <3>1, <3>3, <3>4, Zenon DEF Consuming, m
  <2>7. /\ r \in Consuming /\ r.pair = P2 /\ r.caches = s.caches
        /\ r.output = s.output \o <<m>> /\ r.data = s.data
    <3> HIDE DEF t, P1, P2, m
    <3> QED
      BY <1>8, <2>2, <2>5, Zenon DEF Consuming
  <2> HIDE DEF r, P2, P1, t
  <2> QED
    BY <1>9, <2>4, <2>5, <2>6, <2>7, Zenon DEF Consumed
<1> QED
  BY <1>11, <1>12, Zenon

\* A pair that shut its channel down has been sent all it will be sent, but FIN.
LEMMA ShutDownIsLast ==
  ASSUME NEW P, NEW Q, NEW C, NEW R, NEW own, NEW G, NEW S, NEW V, NEW live,
         Half(P, Q, C, R, own, G, S, V, live), P.open, C # <<>>, C[1].op # "FIN"
  PROVE  ~P.encoder_produced_eos /\ NotDone(P)
<1>1. /\ P \in PairRecord /\ C \in Seq(AnyMessage) /\ Waiting(P) /\ HelloOK(P, Q, C)
      /\ EosOK(P, Q, C) /\ AckOK(P, Q, C, S, V) /\ FinOK(P, Q, C)
      /\ AskOK(P, Q, C, R, own, G)
  BY Zenon DEF Half
<1>2. 1 \in 1..Len(C) /\ C[1] \in AnyMessage
  BY <1>1
<1>3. C[1].op \in {"HELLO", "ASK", "LEARN", "EOS", "EOS_ACK", "FRAME"}
  BY <1>2, MessageFacts, Zenon
<1>4. NotDone(P)
  BY <1>1, Zenon DEF FinOK, NotDone
<1>5. ASSUME P.encoder_produced_eos PROVE FALSE
  <2>1. /\ P.decoder_received_eos /\ P.decoder_frame_buffer = <<>>
        /\ P.decoder_received_eos_ack /\ Q.encoder_sent_eos_ack /\ None(C, "ASK")
    BY <1>1, <1>5, Zenon DEF AckOK
  <2>2. None(C, "FRAME") /\ P.decoder # NoUuid /\ C[1].op # "EOS"
    BY <1>1, <1>2, <2>1, Zenon DEF EosOK
  <2>3. C[1].op # "HELLO"
    BY <1>1, <1>2, <2>2, Zenon DEF HelloOK
  <2>4. C[1].op # "EOS_ACK"
    BY <1>1, <1>2, <2>1, Zenon DEF AckOK
  <2>5. C[1].op # "LEARN"
    BY <1>1, <1>2, <2>1 DEF AskOK, Waiting
  <2> QED
    BY <1>2, <1>3, <2>1, <2>2, <2>3, <2>4, <2>5, Zenon DEF None
<1> QED
  BY <1>4, <1>5, Zenon

\* done[i] is the record after i messages.
ConsumedBy(done, s, ms) ==
    /\ done[0] = s
    /\ \A i \in 1..Len(ms) : done[i] = Operation(done[i - 1], ms[i])
    /\ Operations(s, ms) = done[Len(ms)]

\* decoder_consume is as many operations as there are messages.
LEMMA OperationsUnfold ==
  ASSUME Induction, NEW s, NEW ms, Len(ms) \in Nat
  PROVE  \E c : ConsumedBy(c, s, ms)
<1> DEFINE n == Len(ms)
           D(m, k) == k = [i \in 0..m |-> IF i = 0 THEN s ELSE Operation(k[i - 1], ms[i])]
           T == {m \in Nat : \E k : D(m, k)}
<1>1. 0 \in T
  <2>1. D(0, [i \in 0..0 |-> s])
    OBVIOUS
  <2> QED
    BY <2>1, Zenon
<1>2. ASSUME NEW m \in Nat, m \in T PROVE m + 1 \in T
  <2>1. PICK k : D(m, k)
    BY <1>2, Zenon
  <2> DEFINE k2 == [i \in 0..(m + 1) |-> IF i <= m THEN k[i] ELSE Operation(k[m], ms[m + 1])]
  <2>2. ASSUME NEW i \in 0..(m + 1)
        PROVE  k2[i] = IF i = 0 THEN s ELSE Operation(k2[i - 1], ms[i])
    <3>1. CASE i <= m
      <4>1. i \in 0..m /\ k2[i] = k[i] /\ (i # 0 => i - 1 \in 0..(m + 1) /\ k2[i - 1] = k[i - 1])
        BY <3>1
      <4>2. k[i] = IF i = 0 THEN s ELSE Operation(k[i - 1], ms[i])
        BY <2>1, <4>1, Zenon
      <4> HIDE DEF k2
      <4> QED
        BY <4>1, <4>2, Zenon
    <3>2. CASE i = m + 1
      BY <3>2
    <3> QED
      BY <3>1, <3>2
  <2>3. k2 = [i \in 0..(m + 1) |-> k2[i]]
    OBVIOUS
  <2>4. D(m + 1, k2)
    <3> HIDE DEF k2
    <3> QED
      BY <2>2, <2>3, Zenon
  <2>5. m + 1 \in Nat /\ \E k3 : D(m + 1, k3)
    <3> HIDE DEF k2
    <3> QED
      BY <2>4
  <2> QED
    BY <2>5, Zenon
<1>3. n \in T
  <2> HIDE DEF T
  <2> QED
    BY <1>1, <1>2, Zenon DEF Induction
<1> DEFINE c == CHOOSE k : D(n, k)
<1>4. D(n, c)
  BY <1>3, Zenon
<1>5. c[0] = s /\ \A i \in 1..n : c[i] = Operation(c[i - 1], ms[i])
  <2> HIDE DEF c
  <2> QED
    BY <1>4
<1>6. Operations(s, ms) = c[n]
  BY Zenon DEF Operations
<1> QED
  BY <1>5, <1>6, Zenon DEF ConsumedBy

\* The loop over the first n messages.
LEMMA Batch ==
  ASSUME CodecRules, NEW s, NEW Q, NEW C \in Seq(AnyMessage), NEW R, NEW own, NEW G, NEW S, NEW V,
         NEW W, NEW X, NEW live, NEW K, NEW old, NEW n \in 1..Len(C),
         Between(s, Q, C, R, own, G, S, V, W, X, live, K, old),
         \A i \in 1..n : C[i].op # "FIN"
  PROVE  LET r == Operations(s, SubSeq(C, 1, n)) IN
         /\ Between(r, Q, SubSeq(C, n + 1, Len(C)), R, own, G, S, V, W, X, live, K, old)
         /\ Settled(r.pair)
<1> DEFINE ms == SubSeq(C, 1, n)
           after(i) == SubSeq(C, i + 1, Len(C))
<1>1. Len(C) \in Nat /\ n \in Nat /\ Len(ms) = n /\ \A i \in 1..n : ms[i] = C[i]
  OBVIOUS
<1>2. PICK c : ConsumedBy(c, s, ms)
  <2> HIDE DEF ms
  <2> QED
    BY <1>1, OperationsUnfold, Zenon DEF CodecRules
<1> HIDE DEF ms
<1>3. c[0] = s /\ (\A i \in 1..n : c[i] = Operation(c[i - 1], C[i])) /\ Operations(s, ms) = c[n]
  BY <1>1, <1>2, Zenon DEF ConsumedBy
<1>4. after(0) = C
  OBVIOUS
<1>5. ASSUME NEW i \in 0..(n - 1)
      PROVE  /\ after(i) \in Seq(AnyMessage) /\ after(i + 1) \in Seq(AnyMessage)
             /\ Shifted(after(i), after(i + 1)) /\ after(i)[1] = C[i + 1]
  <2>1. /\ after(i) \in Seq(AnyMessage) /\ Len(after(i)) = Len(C) - i
        /\ \A k \in 1..(Len(C) - i) : after(i)[k] = C[i + k]
    BY <1>1
  <2>2. /\ after(i + 1) \in Seq(AnyMessage) /\ Len(after(i + 1)) = Len(C) - (i + 1)
        /\ \A k \in 1..(Len(C) - (i + 1)) : after(i + 1)[k] = C[(i + 1) + k]
    BY <1>1
  <2> HIDE DEF after
  <2>3. \A k \in 1..Len(after(i + 1)) : after(i + 1)[k] = after(i)[k + 1]
    BY <1>1, <2>1, <2>2
  <2>4. after(i)[1] = C[i + 1]
    BY <1>1, <2>1
  <2>5. Len(after(i)) = Len(after(i + 1)) + 1
    <3> DEFINE a == Len(after(i))
               b == Len(after(i + 1))
               l == Len(C)
    <3>1. a = l - i /\ b = l - (i + 1)
      BY <2>1, <2>2, Zenon
    <3>2. l \in Nat /\ i \in Nat
      BY <1>1
    <3> HIDE DEF a, b, l
    <3>3. a = b + 1
      BY <3>1, <3>2
    <3> QED
      BY <3>3, Zenon DEF a, b
  <2>6. Shifted(after(i), after(i + 1))
    BY <2>3, <2>5, Zenon DEF Shifted
  <2> QED
    BY <2>1, <2>2, <2>4, <2>6, Zenon
<1> HIDE DEF after
<1> DEFINE Good(i) == /\ Between(c[i], Q, after(i), R, own, G, S, V, W, X, live, K, old)
                      /\ i > 0 => Settled(c[i].pair)
           T == {i \in Nat : i <= n => Good(i)}
<1>6. 0 \in T
  BY <1>3, <1>4
<1>7. ASSUME NEW i \in Nat, i \in T PROVE i + 1 \in T
  <2> SUFFICES ASSUME i + 1 <= n PROVE Good(i + 1)
    OBVIOUS
  <2>1. i \in 0..(n - 1) /\ i + 1 \in 1..n /\ (i + 1) - 1 = i
    BY <1>1
  <2>2. Between(c[i], Q, after(i), R, own, G, S, V, W, X, live, K, old)
    BY <1>7, <2>1
  <2>3. c[i + 1] = Operation(c[i], after(i)[1]) /\ after(i)[1].op # "FIN"
    BY <1>3, <1>5, <2>1, Zenon
  <2> DEFINE A == after(i)
             B == after(i + 1)
             si == c[i]
  <2>4. A \in Seq(AnyMessage) /\ B \in Seq(AnyMessage) /\ Shifted(A, B)
    BY <1>5, <2>1, Zenon
  <2>5. Between(si, Q, A, R, own, G, S, V, W, X, live, K, old) /\ A[1].op # "FIN"
    BY <2>2, <2>3, Zenon
  <2>6. c[i + 1] = Operation(si, A[1])
    BY <2>3, Zenon
  <2> HIDE DEF A, B, si
  <2>7. /\ Between(Operation(si, A[1]), Q, B, R, own, G, S, V, W, X, live, K, old)
        /\ Settled(Operation(si, A[1]).pair)
    BY <2>4, <2>5, OperationStep, Zenon
  <2> QED
    BY <2>6, <2>7, Zenon DEF B
<1>8. n \in T
  <2> HIDE DEF T
  <2> QED
    BY <1>1, <1>6, <1>7, Zenon DEF CodecRules, Induction
<1>9. Between(c[n], Q, after(n), R, own, G, S, V, W, X, live, K, old) /\ Settled(c[n].pair)
  BY <1>1, <1>8
<1> QED
  BY <1>3, <1>9, Zenon DEF ms, after

\* decoder_consume as a whole reports no error and fails no ASSERT.
LEMMA ConsumeStep ==
  ASSUME CodecRules, NEW P, NEW Q, NEW C, NEW R, NEW own, NEW G, NEW S, NEW V, NEW W, NEW X,
         NEW live, NEW K, NEW mine \in MapOf(Hash, Segment),
         NEW known \in [Uuid -> MapOf(Hash, Segment)], NEW n \in 1..Len(C), NEW partial,
         Link(P, Q, C, R, own, G, S, V, W, X, live), P.open,
         P.encoder # NoUuid => mine = own, \A h \in DOMAIN own : HashOf[own[h]] = h,
         Q.encoder # NoUuid => G = K[Q.encoder],
         \A u \in Uuid : SubMap(known[u], K[u]),
         \A i \in 1..n : C[i].op # "FIN"
  PROVE  LET s == Operations(ConsumeStart(P, mine, known), SubSeq(C, 1, n))
             r == IF partial \/ s.returned THEN s ELSE Finish(s)
         IN  Consumed(r, Q, SubSeq(C, n + 1, Len(C)), R, own, G, S, V, W, X, live, K, P)
<1> DEFINE s0 == ConsumeStart(P, mine, known)
           s == Operations(s0, SubSeq(C, 1, n))
           D == SubSeq(C, n + 1, Len(C))
<1>1. /\ P \in PairRecord /\ C \in Seq(AnyMessage) /\ R \in Seq(AnyMessage)
      /\ V \in Seq(Segment)
  BY Zenon DEF Link, Half
<1>2. ~P.encoder_produced_eos /\ NotDone(P) /\ P.decoder_error = FALSE
  <2>1. 1 \in 1..n /\ C # <<>>
    BY <1>1
  <2>2. C[1].op # "FIN"
    BY <2>1, Zenon
  <2>3. Half(P, Q, C, R, own, G, S, V, live)
    BY Zenon DEF Link
  <2> QED
    BY <1>1, <2>1, <2>2, <2>3, ShutDownIsLast, PairFacts, Zenon
<1>3. /\ s0 \in Consuming /\ s0.pair = P /\ s0.cache = mine /\ s0.caches = known
      /\ s0.output = <<>> /\ s0.data = <<>>
  <2>1. <<>> \in Seq(AnyMessage) /\ <<>> \in Seq(Segment)
    OBVIOUS
  <2>2. s0 = [pair |-> P, cache |-> mine, caches |-> known, output |-> <<>>, data |-> <<>>,
              returned |-> FALSE]
    BY <1>2, Zenon DEF ConsumeStart
  <2> HIDE DEF s0
  <2> QED
    BY <1>1, <2>1, <2>2, Zenon DEF Consuming
<1>4. To(Q, R, <<>>) = R /\ V \o <<>> = V
  BY <1>1 DEF To
<1>5. Between(s0, Q, C, R, own, G, S, V, W, X, live, K, P)
  <2> HIDE DEF s0
  <2> QED
    BY <1>1, <1>2, <1>3, <1>4, Zenon DEF Between, EncoderKept
<1>6. Between(s, Q, D, R, own, G, S, V, W, X, live, K, P) /\ Settled(s.pair)
  <2> HIDE DEF s0
  <2> QED
    BY <1>1, <1>5, Batch, Zenon
<1>7. Consumed(s, Q, D, R, own, G, S, V, W, X, live, K, P)
  <2> HIDE DEF s, D
  <2> QED
    BY <1>6, Zenon DEF Between, Consumed
<1>8. Consumed(Finish(s), Q, D, R, own, G, S, V, W, X, live, K, P)
  <2> HIDE DEF s, D
  <2> QED
    BY <1>6, FinishStep, Zenon
<1> HIDE DEF s, D, s0
<1> QED
  BY <1>7, <1>8, Zenon DEF s, D, s0
-----------------------------------------------------------------------------
(***************************************************************************)
(* encoder_consume, and the end of a connection.                           *)
(***************************************************************************)

\* encoder_consume as a whole; mine is the cache of the codec of the process.
LEMMA EncoderStep ==
  ASSUME CodecRules, NEW P, NEW Q, NEW C, NEW R, NEW own, NEW G, NEW S, NEW V, NEW W, NEW X,
         NEW live, NEW mine \in MapOf(Hash, Segment), NEW u \in Uuid,
         NEW buf \in Seq(Segment), NEW s, NEW P2,
         Link(P, Q, C, R, own, G, S, V, W, X, live), W \in Seq(Segment), SubMap(own, mine),
         Writes(P, P2, mine, u, buf, s)
  PROVE  /\ Link(P2, Q, C, To(Q, R, HelloFor(P, u) \o BodyFor(s, buf)), s.cache, G, S, V,
                 W \o buf, X, live)
         /\ s \in EncoderState /\ WriterOK(P2, s.cache) /\ SubMap(mine, s.cache)
<1> USE DEF Writes
<1> DEFINE hello == HelloFor(P, u)
           body == BodyFor(s, buf)
           R1 == To(Q, R, hello)
           R2 == To(Q, R, hello \o body)
           P1 == [P EXCEPT !.encoder = u]
<1>1. /\ P \in PairRecord /\ R \in Seq(AnyMessage) /\ Q.open \in BOOLEAN /\ u # NoUuid
      /\ P.open \in BOOLEAN /\ P.encoder_sent_eos = FALSE
  <2>1. P \in PairRecord /\ R \in Seq(AnyMessage) /\ Q \in PairRecord
    BY Zenon DEF Link, Half
  <2>2. u # NoUuid
    BY PipeAssumption DEF Uuid, NoUuid
  <2> QED
    BY <2>1, <2>2, PairFacts, Zenon
<1>2. Link(P, Q, C, R, mine, G, S, V, W, X, live)
  BY LinkGrows, Zenon DEF CodecRules
<1>3. s \in EncoderState /\ SubMap(mine, s.cache) /\ WriterOK(P2, s.cache)
  <2>1. P2.encoder_window = s.window
    BY Zenon DEF Encodes
  <2> QED
    BY <2>1, Zenon DEF CodecRules, LinkRules, EncodesSoundly
<1>4. /\ Encodes(P, P1, u, P.encoder_window, FALSE) /\ P1.encoder = u
      /\ P1.encoder_window = P.encoder_window
  <2>1. P1 \in PairRecord
    BY <1>1, Zenon DEF PairRecord
  <2>2. /\ P1.decoder = P.decoder /\ P1.decoder_window = P.decoder_window
        /\ P1.decoder_unknown_hashes = P.decoder_unknown_hashes
        /\ P1.decoder_frame_buffer = P.decoder_frame_buffer
        /\ P1.decoder_received_eos = P.decoder_received_eos
        /\ P1.decoder_received_eos_ack = P.decoder_received_eos_ack
        /\ P1.decoder_sent_eos = P.decoder_sent_eos
        /\ P1.encoder_sent_eos_ack = P.encoder_sent_eos_ack
        /\ P1.encoder_produced_eos = P.encoder_produced_eos /\ P1.open = P.open
        /\ P1.encoder = u /\ P1.encoder_window = P.encoder_window
        /\ P1.encoder_sent_eos = P.encoder_sent_eos
    BY <1>1, Zenon DEF PairRecord
  <2> HIDE DEF P1
  <2> QED
    BY <1>1, <2>1, <2>2, Zenon DEF Encodes
<1>5. hello \in Seq(AnyMessage) /\ Link(P1, Q, C, R1, mine, G, S, V, W, X, live)
  <2>1. CASE P.encoder # NoUuid
    <3>1. hello = <<>> /\ R1 = R
      BY <1>1, <2>1 DEF HelloFor, To
    <3>2. P1 = P
      BY <1>1, <2>1, Zenon DEF PairRecord
    <3>3. <<>> \in Seq(AnyMessage)
      OBVIOUS
    <3> HIDE DEF hello, R1, P1
    <3> QED
      BY <1>2, <3>1, <3>2, <3>3, Zenon
  <2>2. CASE P.encoder = NoUuid
    <3> DEFINE m == [op |-> "HELLO", uuid |-> u]
    <3>1. m \in AnyMessage /\ m.op = "HELLO" /\ m.uuid = u
      BY Zenon DEF AnyMessage, Message
    <3>2. hello = <<m>>
      BY <2>2, Zenon DEF HelloFor
    <3> HIDE DEF m, hello, P1
    <3>3. R1 \in Seq(AnyMessage) /\ Sent(Q, R, R1, m)
      BY <1>1, <3>1, <3>2, SendOne, Zenon
    <3> HIDE DEF R1
    <3>4. Link(P1, Q, C, R1, mine, G, S, V, W, X, live)
      BY <1>1, <1>2, <1>4, <2>2, <3>1, <3>3, SendHello, Zenon
    <3>5. <<m>> \in Seq(AnyMessage)
      BY <3>1
    <3> QED
      BY <3>2, <3>4, <3>5, Zenon
  <2> QED
    BY <2>1, <2>2, Zenon
<1>6. /\ P1.open /\ ~P1.encoder_sent_eos /\ P1.encoder # NoUuid /\ WriterOK(P1, mine)
      /\ Encodes(P1, P2, P1.encoder, s.window, buf = <<>>)
      /\ R1 \in Seq(AnyMessage)
  <2>1. R1 \in Seq(AnyMessage)
    <3> HIDE DEF R1, hello, P1
    <3> QED
      BY <1>5, Zenon DEF Link, Half
  <2> HIDE DEF P1, R1
  <2> QED
    BY <1>1, <1>4, <2>1, Zenon DEF Encodes, WriterOK
<1> HIDE DEF P1
<1>7. body \in Seq(AnyMessage) /\ R2 = To(Q, R1, body)
  <2>1. body \in Seq(AnyMessage)
    <3>1. CASE buf = <<>>
      <4>1. [op |-> "EOS"] \in AnyMessage
        BY Zenon DEF AnyMessage, Message
      <4> QED
        BY <3>1, <4>1 DEF BodyFor
    <3>2. CASE buf # <<>>
      <4>1. s.units \in Seq(Unit)
        BY <1>3, Zenon DEF EncoderState
      <4>2. FramesOf(EncodeFrame(s.units), s.units)
        BY <4>1, Zenon DEF CodecRules, LinkRules, FramesCarry
      <4> QED
        BY <3>2, <4>2, Zenon DEF FramesOf, BodyFor
    <3> QED
      BY <3>1, <3>2, Zenon
  <2> HIDE DEF body, hello
  <2>2. R \o (hello \o body) = (R \o hello) \o body
    BY <1>1, <1>5, <2>1
  <2> QED
    BY <1>1, <2>1, <2>2, Zenon DEF To
<1> HIDE DEF R1, R2, hello
<1>8. Link(P2, Q, C, R2, s.cache, G, S, V, W \o buf, X, live)
  <2>1. CASE buf = <<>>
    <3> DEFINE m == [op |-> "EOS"]
    <3>1. m \in AnyMessage /\ m.op = "EOS"
      BY Zenon DEF AnyMessage, Message
    <3>2. body = <<m>>
      BY <2>1, Zenon DEF BodyFor
    <3>3. s = EncodeStart(mine, P.encoder_window)
      BY <2>1, Zenon DEF CodecRules, EncodesNothing
    <3>4. s.cache = mine /\ s.window = P1.encoder_window
      BY <1>4, <3>3 DEF EncodeStart
    <3>5. Encodes(P1, P2, P1.encoder, P1.encoder_window, TRUE)
      BY <1>6, <2>1, <3>4, Zenon
    <3> HIDE DEF m, body
    <3>6. R2 \in Seq(AnyMessage) /\ Sent(Q, R1, R2, m)
      BY <1>1, <1>6, <1>7, <3>1, <3>2, SendOne, Zenon
    <3>7. Link(P2, Q, C, R2, mine, G, S, V, W, X, live)
      BY <1>5, <1>6, <3>1, <3>5, <3>6, SendEos, Zenon
    <3>8. W \o buf = W
      BY <2>1
    <3> QED
      BY <3>4, <3>7, <3>8, Zenon
  <2>2. CASE buf # <<>>
    <3>1. body = EncodeFrame(s.units)
      BY <2>2, Zenon DEF BodyFor
    <3>2. Encodes(P1, P2, P1.encoder, s.window, FALSE)
      BY <1>6, <2>2, Zenon
    <3>3. s = Encode(EncodeStart(mine, P1.encoder_window), buf)
      BY <1>4, Zenon
    <3>4. R2 = To(Q, R1, EncodeFrame(s.units))
      BY <1>7, <3>1, Zenon
    <3> QED
      BY <1>5, <1>6, <3>2, <3>3, <3>4, SendFrames, Zenon DEF CodecRules
  <2> QED
    BY <2>1, <2>2, Zenon
<1> QED
  BY <1>3, <1>8, Zenon DEF R2, hello

\* When an end is destroyed what is on its way to it is lost, and what it sent
\* is followed by FIN unless it was already.
LEMMA TearDown ==
  ASSUME CodecRules, NEW P, NEW Q, NEW C, NEW R, NEW own, NEW G, NEW S, NEW V, NEW W, NEW X,
         NEW live, Link(P, Q, C, R, own, G, S, V, W, X, live), P.open
  PROVE  LET R2 == IF P.encoder_produced_eos THEN R ELSE To(Q, R, <<[op |-> "FIN"]>>)
         IN  Link(Destroyed(P), Q, <<>>, R2, own, G, S, V, W, X, FALSE)
<1> DEFINE R2 == IF P.encoder_produced_eos THEN R ELSE To(Q, R, <<[op |-> "FIN"]>>)
           P2 == Destroyed(P)
           none == <<>>
<1>1. /\ Half(P, Q, C, R, own, G, S, V, live) /\ Half(Q, P, R, C, G, own, W, X, live)
      /\ R \in Seq(AnyMessage) /\ Q \in PairRecord /\ P \in PairRecord
  BY Zenon DEF Link, Half
<1>2. /\ P2.open = FALSE /\ P2.decoder = NoUuid /\ P2.decoder_frame_buffer = <<>>
      /\ P2.decoder_unknown_hashes = {} /\ P2.encoder = P.encoder
      /\ P2.encoder_sent_eos = P.encoder_sent_eos
      /\ P2.encoder_sent_eos_ack = P.encoder_sent_eos_ack
      /\ P2.encoder_produced_eos = P.encoder_produced_eos
      /\ P2.decoder_received_eos = P.decoder_received_eos
      /\ P2.decoder_received_eos_ack = P.decoder_received_eos_ack
      /\ P2 \in PairRecord
  <2>1. EmptyWindow \in Window
    BY Zenon DEF WindowInv, CodecRules, MapsSound
  <2>2. <<>> \in Seq(Unit) /\ {} \in SUBSET Hash
    OBVIOUS
  <2>3. P2 \in PairRecord
    BY <1>1, <2>1, <2>2, Zenon DEF Destroyed, PairRecord
  <2> QED
    BY <1>1, <2>3, Zenon DEF Destroyed, PairRecord
<1>3. none \in Seq(AnyMessage) /\ Len(none) = 0 /\ none = <<>>
  OBVIOUS
<1> HIDE DEF P2, none
<1>4. Half(P2, Q, none, R2, own, G, S, V, FALSE)
  <2> HIDE DEF R2
  <2>1. HelloOK(P2, Q, none) /\ FinOK(P2, Q, none) /\ AskOK(P2, Q, none, R2, own, G)
    BY <1>2, <1>3 DEF HelloOK, FinOK, AskOK
  <2>2. EosOK(P2, Q, none)
    BY <1>1, <1>2, <1>3 DEF Half, EosOK, None
  <2>3. AckOK(P2, Q, none, S, V)
    BY <1>1, <1>2, <1>3 DEF Half, AckOK, None
  <2>4. Waiting(P2)
    BY <1>2, Zenon DEF Waiting
  <2> QED
    BY <1>1, <1>2, <1>3, <2>1, <2>2, <2>3, <2>4, Zenon DEF Half
<1>5. Half(Q, P2, R, none, G, own, W, X, FALSE)
  <2>1. HelloOK(Q, P2, R) /\ EosOK(Q, P2, R)
    BY <1>1, <1>2, Zenon DEF Half, HelloOK, EosOK
  <2>2. AckOK(Q, P2, R, W, X)
    BY <1>1, <1>2, Zenon DEF Half, AckOK
  <2>3. FinOK(Q, P2, R)
    BY <1>1, <1>2, Zenon DEF Half, FinOK
  <2>4. AskOK(Q, P2, R, none, G, own)
    BY <1>1, <1>2, Zenon DEF Half, AskOK
  <2>5. Q.open => Delivers(Q, P2, R, own, W, X)
    <3>1. ASSUME NEW U, NEW pos, NEW T, Carries(Q, P, R, own, W, X, U, pos, T)
          PROVE  Carries(Q, P2, R, own, W, X, U, pos, T)
      BY <1>2, <3>1, Zenon DEF Carries
    <3> QED
      BY <1>1, <3>1, Zenon DEF Half, Delivers
  <2> QED
    BY <1>1, <2>1, <2>2, <2>3, <2>4, <2>5, Zenon DEF Half
<1>6. Half(Q, P2, R2, none, G, own, W, X, FALSE)
  <2>1. CASE P.encoder_produced_eos \/ ~Q.open
    <3>1. R2 = R
      BY <2>1, Zenon DEF To
    <3> QED
      BY <1>5, <3>1, Zenon
  <2>2. CASE ~P.encoder_produced_eos /\ Q.open
    <3> DEFINE m == [op |-> "FIN"]
    <3>1. m \in AnyMessage /\ m.op = "FIN"
      BY Zenon DEF AnyMessage, Message
    <3>2. Q.open \in BOOLEAN /\ Q.decoder_frame_buffer \in Seq(Unit)
      BY <1>1, PairFacts, Zenon
    <3>3. R2 = To(Q, R, <<m>>)
      BY <2>2, Zenon
    <3> HIDE DEF m, R2
    <3>4. R2 \in Seq(AnyMessage) /\ Sent(Q, R, R2, m)
      BY <1>1, <3>1, <3>2, <3>3, SendOne, Zenon
    <3>5. Extended(R, R2, m)
      BY <2>2, <3>4, Zenon DEF Sent
    <3>6. HelloOK(Q, P2, R2)
      <4>1. HelloOK(Q, P2, R)
        BY <1>5, Zenon DEF Half
      <4> QED
        BY <1>1, <3>1, <3>4, <3>5, <4>1, ExtendHello, Zenon
    <3>7. EosOK(Q, P2, R2)
      <4>1. EosOK(Q, P2, R)
        BY <1>5, Zenon DEF Half
      <4> QED
        BY <1>1, <3>1, <3>4, <3>5, <4>1, ExtendEos, Zenon
    <3>8. AckOK(Q, P2, R2, W, X)
      <4>1. AckOK(Q, P2, R, W, X)
        BY <1>5, Zenon DEF Half
      <4> QED
        BY <1>1, <3>1, <3>4, <3>5, <4>1, ExtendAck, Zenon
    <3>9. AskOK(Q, P2, R2, none, G, own)
      <4>1. AskOK(Q, P2, R, none, G, own)
        BY <1>5, Zenon DEF Half
      <4> QED
        BY <1>1, <3>1, <3>4, <3>5, <4>1, ExtendAsk, Zenon
    <3>10. FinOK(Q, P2, R2)
      <4>1. FinOK(Q, P, R)
        BY <1>1, Zenon DEF Half
      <4>2. \A i \in 1..Len(R) : R[i].op # "FIN"
        BY <2>2, <4>1, Zenon DEF FinOK
      <4>3. /\ Len(R2) = Len(R) + 1
            /\ \A i \in 1..Len(R2) : i = Len(R2) \/ (i \in 1..Len(R) /\ R2[i] = R[i])
        BY <1>1, <3>4, <3>5 DEF Extended
      <4> QED
        BY <1>2, <2>2, <4>1, <4>2, <4>3, Zenon DEF FinOK
    <3>11. Delivers(Q, P2, R2, own, W, X)
      <4>1. Delivers(Q, P2, R, own, W, X)
        BY <1>5, <2>2, Zenon DEF Half
      <4> QED
        BY <1>1, <3>1, <3>2, <3>4, <3>5, <4>1, ExtendDelivers, Zenon
    <3> QED
      BY <1>5, <3>4, <3>6, <3>7, <3>8, <3>9, <3>10, <3>11, Zenon DEF Half
  <2> QED
    BY <2>1, <2>2, Zenon
<1> QED
  BY <1>3, <1>4, <1>6, Zenon DEF Link, P2

\* The first state: nothing has been sent and nothing is waited for.
LEMMA NewHalf ==
  ASSUME CodecRules
  PROVE  Half(NewPair, NewPair, <<>>, <<>>, EmptyMap, EmptyMap, <<>>, <<>>, TRUE)
<1> DEFINE P == NewPair
           C == <<>>
<1>1. P \in PairRecord
  <2>1. NoUuid \in Uuid \cup {NoUuid} /\ EmptyWindow \in Window
    BY Zenon DEF CodecRules, MapsSound, WindowInv
  <2> QED
    BY <2>1 DEF NewPair, PairRecord
<1>2. /\ P.open /\ P.decoder = NoUuid /\ P.encoder = NoUuid /\ P.decoder_unknown_hashes = {}
      /\ P.decoder_frame_buffer = <<>> /\ P.decoder_window = EmptyWindow
      /\ P.encoder_window = EmptyWindow /\ ~P.decoder_received_eos /\ ~P.encoder_sent_eos
      /\ ~P.encoder_sent_eos_ack /\ ~P.decoder_received_eos_ack /\ ~P.encoder_produced_eos
      /\ ~P.decoder_sent_eos
  BY Zenon DEF NewPair
<1>3. C \in Seq(AnyMessage) /\ C \in Seq(Segment) /\ Len(C) = 0
  OBVIOUS
<1>4. EmptyMap \in MapOf(Hash, Segment)
  BY Zenon DEF CodecRules, MapsSound
<1>5. Delivers(P, P, C, EmptyMap, C, C)
  <2> DEFINE t == [win |-> EmptyWindow, out |-> C, inside |-> FALSE]
             T == [i \in 0..0 |-> t]
             pos == [i \in 0..0 |-> 0]
  <2>1. Flat(C, C, C, pos)
    BY <1>3 DEF Flat
  <2>2. TraceState(EmptyMap, t)
    <3>1. WindowInv(EmptyWindow)
      BY Zenon DEF CodecRules, MapsSound
    <3>2. SubMap(EmptyWindow.segments, EmptyMap)
      BY Zenon DEF EmptyWindow, SubMap, EmptyMap
    <3> QED
      BY <3>1, <3>2 DEF TraceState
  <2>3. T[0] = t /\ Len(C) = 0
    OBVIOUS
  <2>4. IsTrace(EmptyMap, C, T)
    <3> HIDE DEF t
    <3> QED
      BY <2>2, <2>3 DEF IsTrace
  <2>5. t.win = EmptyWindow /\ t.out = C /\ ~t.inside
    OBVIOUS
  <2> HIDE DEF T, t, pos
  <2>6. Carries(P, P, C, EmptyMap, C, C, C, pos, T)
    BY <1>2, <2>1, <2>3, <2>4, <2>5, Zenon DEF Carries
  <2> QED
    BY <2>6, Zenon DEF Delivers
<1> HIDE DEF P
<1>6. Waiting(P) /\ HelloOK(P, P, C) /\ EosOK(P, P, C) /\ AckOK(P, P, C, C, C)
  BY <1>2, <1>3 DEF Waiting, HelloOK, EosOK, AckOK, None
<1>7. FinOK(P, P, C) /\ AskOK(P, P, C, C, EmptyMap, EmptyMap) /\ Asked(P, C, C)
  BY <1>2, <1>3 DEF FinOK, AskOK, Asked
<1>8. Half(P, P, C, C, EmptyMap, EmptyMap, C, C, TRUE)
  BY <1>1, <1>2, <1>3, <1>4, <1>5, <1>6, <1>7, Zenon DEF Half
<1> QED
  BY <1>8, Zenon DEF P
=============================================================================
