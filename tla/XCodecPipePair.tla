--------------------------- MODULE XCodecPipePair ---------------------------
(***************************************************************************)
(* XCodecPipePair: the protocol two proxies speak over each connection     *)
(* between them.  Every connection has an encoder and a decoder at each    *)
(* end; all the encoders of a process share its codec's cache, all its     *)
(* decoders of streams with the same UUID share the cache for that UUID.   *)
(*                                                                         *)
(* A message is one operation of the protocol; encoder_pipe_, the Splice   *)
(* that writes it and the TCP connection are one FIFO per direction, whose *)
(* end is the message FIN (encoder_produce_eos, or a connection that is    *)
(* torn down).  The bytes of an operation that has not arrived completely  *)
(* stay in decoder_buffer_; here they stay in the FIFO.                    *)
(***************************************************************************)
EXTENDS XCodecPipe

CONSTANTS Peer,          \* the two processes
          Conn,          \* the connections between them
          Inputs,        \* the buffers a client may write: sequences of segments
          MaxSend        \* bound: a client that wrote this much only closes

ASSUME PipePairAssumption ==
    /\ \E p, q \in Peer : p # q /\ Peer = {p, q}
    /\ Inputs \subseteq Seq(Segment) \ {<<>>} /\ MaxSend \in [Peer -> Nat]

VARIABLES
    uuid,     \* uuid[p]: the UUID p's codec drew when p last started
    cache,    \* cache[p][u]: the cache of p's codec while its UUID is u; what it
              \* was when p stopped is history
    caches,   \* caches[p][u]: XCodecCache::cache_map of p
    pair,     \* pair[e]: the XCodecPipePair at end e of a connection
    chan,     \* chan[e]: the messages on their way to e
    sent,     \* history: the segments the client of e has written
    recv,     \* history: the segments delivered to the client of e
    aborts,   \* history: the connections torn down early
    faults    \* the number of connections torn down by themselves, and of restarts

vars == <<uuid, cache, caches, pair, chan, sent, recv, aborts, faults>>

End == Peer \X Conn
Other(e) == CHOOSE f \in End : f[1] # e[1] /\ f[2] = e[2]

Init ==
    /\ uuid = [p \in Peer |-> 0]
    /\ cache = [p \in Peer |-> [u \in Uuid |-> EmptyMap]]
    /\ caches = [p \in Peer |-> [u \in Uuid |-> EmptyMap]]
    /\ pair = [e \in End |-> NewPair]
    /\ chan = [e \in End |-> <<>>]
    /\ sent = [e \in End |-> <<>>]
    /\ recv = [e \in End |-> <<>>]
    /\ aborts = {} /\ faults = 0
-----------------------------------------------------------------------------
\* Messages for an end whose pair is gone are lost.
Send(to, ms) == IF pair[to].open THEN chan[to] \o ms ELSE chan[to]

\* XCodecPipePair::decoder_consume of the first n messages on their way to e,
\* and of a first part of the next one when partial.  An operation of one
\* byte has no part; after an error PipeProducer::input discards the input.
DecoderConsume(e, n, partial) ==
    LET p == e[1]
        s == Operations([pair |-> pair[e], cache |-> cache[p][uuid[p]],
                         caches |-> caches[p], output |-> <<>>, data |-> <<>>,
                         returned |-> pair[e].decoder_error],
                        SubSeq(chan[e], 1, n))
        r == IF partial \/ s.returned THEN s ELSE Finish(s)
    IN /\ pair[e].open
       /\ \A i \in 1..n : chan[e][i].op # "FIN"
       /\ partial => /\ n < Len(chan[e])
                     /\ chan[e][n + 1].op \notin {"EOS", "EOS_ACK", "FIN"}
       /\ pair' = [pair EXCEPT ![e] = r.pair]
       /\ caches' = [caches EXCEPT ![p] = r.caches]
       /\ chan' = [chan EXCEPT ![e] = SubSeq(@, n + 1, Len(@)),
                               ![Other(e)] = Send(Other(e), r.output)]
       /\ recv' = [recv EXCEPT ![e] = @ \o r.data]
       /\ UNCHANGED <<cache, uuid, sent, aborts, faults>>

Consume(e) ==
    \E n \in 1..Len(chan[e]), partial \in BOOLEAN : DecoderConsume(e, n, partial)

\* XCodecPipePair::decoder_consume of an empty buffer: the connection's EOS.
ConsumeFin(e) ==
    /\ pair[e].open /\ chan[e] # <<>> /\ Head(chan[e]).op = "FIN"
    /\ pair' = [pair EXCEPT ![e].decoder_sent_eos = TRUE]
    /\ chan' = [chan EXCEPT ![e] = <<>>]
    /\ UNCHANGED <<cache, uuid, caches, sent, recv, aborts, faults>>

\* XCodecPipePair::encoder_consume of a buffer, or of EOS when it is empty.
EncoderConsume(e, buf) ==
    LET p == e[1]
        pp == pair[e]
        u == uuid[p]
        hello == IF pp.encoder # NoUuid THEN <<>> ELSE <<[op |-> "HELLO", uuid |-> u]>>
        s == Encode([cache |-> cache[p][u], units |-> <<>>, window |-> pp.encoder_window],
                    buf)
        body == IF buf = <<>> THEN <<[op |-> "EOS"]>> ELSE EncodeFrame(s.units)
    IN /\ pp.open /\ ~pp.encoder_sent_eos
       /\ pair' = [pair EXCEPT ![e].encoder = IF @ # NoUuid THEN @ ELSE u,
                               ![e].encoder_window = s.window,
                               ![e].encoder_sent_eos = (buf = <<>>),
                               ![e].bad = IF pp.encoder_produced_eos
                                          THEN @ \cup {"ASSERT"} ELSE @]
       /\ cache' = [cache EXCEPT ![p][u] = s.cache]
       /\ chan' = [chan EXCEPT ![Other(e)] = Send(Other(e), hello \o body)]
       /\ sent' = [sent EXCEPT ![e] = @ \o buf]
       /\ UNCHANGED <<uuid, caches, recv, aborts, faults>>

Write(e) == /\ Len(sent[e]) < MaxSend[e[1]]
            /\ \E buf \in Inputs : EncoderConsume(e, buf)
WriteEos(e) == EncoderConsume(e, <<>>)

\* What the connections that are closed with their ends then carry.
Closed(f, ends) == IF f \in ends THEN <<>>
                   ELSE IF Other(f) \in ends /\ ~pair[Other(f)].encoder_produced_eos
                        THEN Send(f, <<[op |-> "FIN"]>>) ELSE chan[f]

\* The connection at e is torn down before it is done.
Abort(e) ==
    /\ pair[e].open
    /\ \/ e[2] \in aborts /\ UNCHANGED faults
       \/ e[2] \notin aborts /\ faults < MaxFaults /\ faults' = faults + 1
    /\ pair' = [pair EXCEPT ![e] = Destroyed(@)]
    /\ chan' = [f \in End |-> Closed(f, {e})]
    /\ aborts' = aborts \cup {e[2]}
    /\ UNCHANGED <<cache, uuid, caches, sent, recv>>

\* Mutant: the UUID survives the restart that the cache does not.
RestartSameUuid(p) ==
    LET used == {e \in End : /\ e[1] = p /\ pair[e].open
                             /\ \/ pair[e].encoder # NoUuid
                                \/ pair[Other(e)].encoder # NoUuid}
    IN /\ faults < MaxFaults /\ faults' = faults + 1
       /\ UNCHANGED uuid
       /\ cache' = [cache EXCEPT ![p][uuid[p]] = EmptyMap]
       /\ caches' = [caches EXCEPT ![p] = [u \in Uuid |-> EmptyMap]]
       /\ pair' = [e \in End |-> IF e \in used THEN Destroyed(pair[e]) ELSE pair[e]]
       /\ chan' = [f \in End |-> Closed(f, used)]
       /\ aborts' = aborts \cup {e[2] : e \in used}
       /\ UNCHANGED <<sent, recv>>

\* Process p dies and starts again with no cache and a new UUID.  The
\* connections that had carried anything are gone; the others are opened
\* after the restart.
Restart(p) ==
    LET used == {e \in End : /\ e[1] = p /\ pair[e].open
                             /\ \/ pair[e].encoder # NoUuid
                                \/ pair[Other(e)].encoder # NoUuid}
    IN /\ faults < MaxFaults /\ faults' = faults + 1
       /\ uuid' = [uuid EXCEPT ![p] = @ + 1]
       /\ caches' = [caches EXCEPT ![p] = [u \in Uuid |-> EmptyMap]]
       /\ pair' = [e \in End |-> IF e \in used THEN Destroyed(pair[e]) ELSE pair[e]]
       /\ chan' = [f \in End |-> Closed(f, used)]
       /\ aborts' = aborts \cup {e[2] : e \in used}
       /\ UNCHANGED <<cache, sent, recv>>

Next == \/ \E e \in End : \/ Consume(e) \/ ConsumeFin(e)
                          \/ Write(e) \/ WriteEos(e) \/ Abort(e)
        \/ \E p \in Peer : Restart(p)

Spec == Init /\ [][Next]_vars

\* What a connection carries arrives: the event loop reads it and runs the
\* callbacks.  Clients need not write, nor close.  This is weak fairness of
\* Consume(e) \/ ConsumeFin(e), which alone take messages from an open pair's
\* channel and are enabled while there are any.
Arrives(e) == \/ []<>(~pair[e].open \/ chan[e] = <<>>)
              \/ []<><<Len(chan'[e]) < Len(chan[e])>>_vars
Fairness == \A e \in End : Arrives(e)
FairSpec == Spec /\ Fairness
-----------------------------------------------------------------------------
\* The types of the caches, of the members of the pairs and of the messages.
PairTypeOK ==
    /\ uuid \in [Peer -> Uuid] /\ cache \in [Peer -> [Uuid -> MapOf(Hash, Segment)]]
    /\ caches \in [Peer -> [Uuid -> MapOf(Hash, Segment)]]
    /\ \A e \in End :
         /\ pair[e].decoder \in Uuid \cup {NoUuid}
         /\ pair[e].decoder_window \in Window /\ pair[e].encoder_window \in Window
         /\ pair[e].decoder_unknown_hashes \subseteq Hash
         /\ \A i \in DOMAIN pair[e].decoder_frame_buffer :
              pair[e].decoder_frame_buffer[i] \in Unit
         /\ \A i \in DOMAIN chan[e] :
              \/ chan[e][i] \in Message
              \/ chan[e][i].op = "FRAME" /\ Len(chan[e][i].units) \in 1..MAX_FRAME
    /\ aborts \subseteq Conn /\ faults \in 0..MaxFaults

\* No ASSERT of decoder_consume, encoder_consume or PipeProducer fails:
\* frame data is only ever left over while a hash is unknown, nothing is
\* produced after EOS, and the encoder's channel is shut down once.
PairAssertsHold == \A e \in End : "ASSERT" \notin pair[e].bad

\* Between two correct peers decoder_error is never called: no duplicate or
\* early operation, no unknown hash in an <ASK>, no collision, no bad
\* <BACKREF>, even across torn-down connections and restarts.
NoProtocolError == \A e \in End : "ERROR" \notin pair[e].bad

\* <EOS_ACK> tells the other party that its data has been processed: an end
\* that sent one has delivered everything the other end's client wrote.
AckedIsDelivered ==
    \A e \in End : pair[e].encoder_sent_eos_ack =>
        recv[e] = sent[Other(e)] /\ pair[Other(e)].encoder_sent_eos

\* An end shuts its side of the connection down only when both directions
\* have been delivered completely.
ShutdownIsClean ==
    \A e \in End : pair[e].encoder_produced_eos =>
        /\ pair[e].encoder_sent_eos /\ pair[Other(e)].encoder_sent_eos
        /\ recv[e] = sent[Other(e)] /\ recv[Other(e)] = sent[e]

\* A decoder's cache for a UUID agrees with the cache of the codec that has
\* that UUID, although declarations get lost with their connection.
CachesAgree ==
    \A p, q \in Peer : p # q => SubMap(caches[p][uuid[q]], cache[q][uuid[q]])

\* Every hash an end waits for is on its way: an <ASK> or the <LEARN> that
\* answers it is in flight, or the connection has broken.
UnknownIsAsked ==
    \A e \in End : \A h \in pair[e].decoder_unknown_hashes :
        \/ ~pair[e].open \/ e[2] \in aborts
        \/ \E i \in DOMAIN chan[Other(e)] : chan[Other(e)][i] = [op |-> "ASK", hash |-> h]
        \/ \E i \in DOMAIN chan[e] : /\ chan[e][i].op = "LEARN"
                                     /\ HashOf[chan[e][i].seg] = h

\* The members of the pairs have their types, their assertions hold, they shut
\* the connection down only when it is done with, and wait for no hash in vain.
PairInv == PairTypeOK /\ PairAssertsHold /\ ShutdownIsClean /\ UnknownIsAsked

Stream == INSTANCE ReliableStream WITH
            closed <- {e \in End : pair[e].encoder_sent_eos},
            ended <- {e \in End : pair[e].decoder_sent_eos},
            broken <- {e \in End : e[2] \in aborts}

\* The pair of codecs is invisible to the clients: each reads what the other
\* wrote, in order, and EOS only after all of it unless the connection broke.
ImplementsReliableStream == Stream!Spec

Broken(e) == e[2] \in aborts

Undelivered(e) ==
    \/ recv[Other(e)] # sent[e]
    \/ pair[e].encoder_sent_eos /\ ~pair[Other(e)].decoder_sent_eos

\* What a client writes reaches the other client, and so does its EOS, unless
\* the connection is torn down; an <ASK> delays it but does not wedge it.
DeliveredEventually ==
    \A e \in End : Undelivered(e) ~> (~Undelivered(e) \/ Broken(e))

\* "The other party will send <OP_EOS_ACK> when it has processed all of the
\* data we have sent" (xcodec_pipe_pair.cc): once the other client has been given
\* everything, and nothing is in flight any more, the <EOS> is acknowledged.
EosIsAcknowledged ==
    \A e \in End :
      /\ pair[e].encoder_sent_eos /\ ~Undelivered(e) /\ ~Broken(e)
      /\ chan[e] = <<>> /\ chan[Other(e)] = <<>>
      => pair[e].decoder_received_eos_ack
=============================================================================
