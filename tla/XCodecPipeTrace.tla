-------------------------- MODULE XCodecPipeTrace ---------------------------
(***************************************************************************)
(* What is on its way in one direction of a connection between two         *)
(* XCodecPipePairs, in terms of what decoding it will do.                  *)
(***************************************************************************)
EXTENDS XCodecPipeCodec

\* The messages of the protocol; a frame has at least one unit and at most MAX_FRAME.
AnyMessage ==
    Message \cup [op : {"FRAME"}, units : {us \in Seq(Unit) : Len(us) \in 1..MAX_FRAME}]

\* A pair on which no ASSERT failed and decoder_error was never called.
PairRecord ==
    [decoder : Uuid \cup {NoUuid}, decoder_window : Window,
     decoder_unknown_hashes : SUBSET Hash, decoder_frame_buffer : Seq(Unit),
     decoder_received_eos : BOOLEAN, decoder_received_eos_ack : BOOLEAN,
     decoder_sent_eos : BOOLEAN, decoder_error : {FALSE},
     encoder : Uuid \cup {NoUuid}, encoder_window : Window,
     encoder_sent_eos : BOOLEAN, encoder_sent_eos_ack : BOOLEAN,
     encoder_produced_eos : BOOLEAN, open : BOOLEAN, bad : {{}}]
-----------------------------------------------------------------------------
(***************************************************************************)
(* What one direction of a connection carries.  P is the pair that         *)
(* receives, Q the one that sends, C the messages on their way to P, G the *)
(* cache of Q's codec, S what Q's client wrote and V what P's client was   *)
(* given.                                                                  *)
(***************************************************************************)

\* The cache has seg under its hash.
Known(G, seg) == HashOf[seg] \in DOMAIN G /\ G[HashOf[seg]] = seg

\* What decoding unit u should do: t and v are the window, the output and
\* whether a MAGIC has been read, before and after.
TraceStep(G, t, u, v) ==
    /\ t.inside = (u.op \in {"EXTRACT", "REF", "BACKREF"})
    /\ v.inside = (u.op = "MAGIC")
    /\ \/ u.op = "MAGIC" /\ v.win = t.win /\ v.out = t.out
       \/ u.op = "ESCAPE" /\ v.win = t.win /\ v.out = Append(t.out, u.seg)
       \/ /\ u.op = "EXTRACT" /\ Known(G, u.seg)
          /\ v.win = Declare(t.win, HashOf[u.seg], u.seg) /\ v.out = Append(t.out, u.seg)
       \/ /\ u.op = "REF" /\ u.hash \in DOMAIN G
          /\ v.win = Declare(t.win, u.hash, G[u.hash]) /\ v.out = Append(t.out, G[u.hash])
       \/ /\ u.op = "BACKREF" /\ Holds(t.win, u.slot)
          /\ v.win = t.win /\ v.out = Append(t.out, Dereference(t.win, u.slot))

\* The state of a decoder that knows no more than the cache G.
TraceState(G, t) ==
    /\ WindowInv(t.win) /\ SubMap(t.win.segments, G)
    /\ t.out \in Seq(Segment) /\ t.inside \in BOOLEAN

\* Decoding the units U takes T[0] to T[Len(U)].
IsTrace(G, U, T) ==
    /\ \A i \in 0..Len(U) : TraceState(G, T[i])
    /\ \A i \in 1..Len(U) : TraceStep(G, T[i - 1], U[i], T[i])

\* The units of U after the first a and up to b are those that message m brings.
Piece(m, U, a, b) ==
    IF m.op = "FRAME"
    THEN b = a + Len(m.units) /\ \A j \in 1..Len(m.units) : m.units[j] = U[a + j]
    ELSE b = a

\* The units in B and then those in the frames of C are U; pos[i] is how many
\* come before the end of message i.
Flat(B, C, U, pos) ==
    /\ U \in Seq(Unit) /\ pos \in [0..Len(C) -> 0..Len(U)]
    /\ pos[0] = Len(B) /\ pos[Len(C)] = Len(U)
    /\ \A i \in 1..Len(B) : B[i] = U[i]
    /\ \A i \in 1..Len(C) : Piece(C[i], U, pos[i - 1], pos[i])

\* Decoding everything on its way to P makes P's window that of Q's encoder
\* and P's output what Q's client wrote.
Carries(P, Q, C, G, S, V, U, pos, T) ==
    /\ Flat(P.decoder_frame_buffer, C, U, pos)
    /\ IsTrace(G, U, T)
    /\ T[0].win = P.decoder_window /\ ~T[0].inside /\ T[0].out = V
    /\ T[Len(U)].out = S /\ ~T[Len(U)].inside
    /\ Q.open => T[Len(U)].win = Q.encoder_window

\* There is a trace that shows it.
Delivers(P, Q, C, G, S, V) == \E U, pos, T : Carries(P, Q, C, G, S, V, U, pos, T)

\* There is no message of kind op.
None(C, op) == \A i \in 1..Len(C) : C[i].op # op

\* Frame data waits for at most one hash, that of the <REF> it starts with.
Waiting(P) ==
    /\ P.decoder_unknown_hashes # {} =>
         /\ Len(P.decoder_frame_buffer) >= 2 /\ P.decoder_frame_buffer[1].op = "MAGIC"
         /\ P.decoder_frame_buffer[2].op = "REF"
         /\ P.decoder_unknown_hashes = {P.decoder_frame_buffer[2].hash}
    /\ P.decoder = NoUuid => P.decoder_frame_buffer = <<>>

\* Otherwise there is none, but for the first part of a symbol.
Settled(P) ==
    P.decoder_unknown_hashes = {} =>
      \/ P.decoder_frame_buffer = <<>>
      \/ Len(P.decoder_frame_buffer) = 1 /\ P.decoder_frame_buffer[1].op = "MAGIC"
-----------------------------------------------------------------------------
(***************************************************************************)
(* What the encoder and the decoder should do.                             *)
(***************************************************************************)

\* The state of a decoder that has found no error.
DecoderState ==
    [rest : Seq(Unit), output : Seq(Segment), window : Window,
     cache : MapOf(Hash, Segment), unknown : SUBSET Hash, stop : BOOLEAN, error : {FALSE}]

\* What is left after decoding the frame data of P.
DecodedFrames(d, P, Q, C, G, S, V) ==
    /\ d \in DecoderState /\ SubMap(d.cache, G)
    /\ d.output = <<>> => d.rest # <<>>
    /\ d.unknown = {} \/ \E h \in DOMAIN G : d.unknown = {h}
    /\ \A P2 : P2.decoder = P.decoder /\ P2.decoder_frame_buffer = d.rest
               /\ P2.decoder_window = d.window /\ P2.decoder_unknown_hashes = d.unknown
               => Waiting(P2) /\ Settled(P2) /\ Delivers(P2, Q, C, G, S, V \o d.output)

\* Decoding U with window w0, after o0 has been output, leaves the window win and
\* the output out; inside is whether U ends inside a symbol.
Traced(G, U, w0, o0, win, out, inside) ==
    \E T : /\ IsTrace(G, U, T)
           /\ T[0].win = w0 /\ T[0].out = o0 /\ ~T[0].inside
           /\ T[Len(U)].win = win /\ T[Len(U)].out = out /\ T[Len(U)].inside = inside

\* The state of an encoder.
EncoderState == [cache : MapOf(Hash, Segment), units : Seq(Unit), window : Window]

\* What an encoder has written so far: U are the units on their way before it
\* started, cache what its cache was.
Encoded(c, cache0, U, w0, o0, out) ==
    /\ c \in EncoderState
    /\ SubMap(cache0, c.cache) /\ \A h \in DOMAIN c.cache : HashOf[c.cache[h]] = h
    /\ WindowInv(c.window) /\ SubMap(c.window.segments, c.cache)
    /\ out \in Seq(Segment)
    /\ Traced(c.cache, U \o c.units, w0, o0, c.window, out, FALSE)

\* The window of an encoder refers to its cache only, which has segments by hash.
WriterOK(P, own) ==
    /\ WindowInv(P.encoder_window) /\ SubMap(P.encoder_window.segments, own)
    /\ \A h \in DOMAIN own : HashOf[own[h]] = h

\* What encode starts with.
EncodeStart(own, window) == [cache |-> own, units |-> <<>>, window |-> window]

\* The frames cover n units, each but the last M of them.
FrameEnd(n, M, i) == IF i * M < n THEN i * M ELSE n

\* The frames of encode_frame carry all the units, in order.
FramesOf(F, units) ==
    LET end(i) == FrameEnd(Len(units), MAX_FRAME, i) IN
    /\ F \in Seq(AnyMessage) /\ end(0) = 0 /\ end(Len(F)) = Len(units)
    /\ \A i \in 1..Len(F) :
         /\ F[i].op = "FRAME" /\ end(i) \in 0..Len(units)
         /\ Len(F[i].units) = end(i) - end(i - 1)
         /\ \A j \in 1..Len(F[i].units) : F[i].units[j] = units[end(i - 1) + j]

\* W starts with V.
StartsWith(W, V) == Len(V) <= Len(W) /\ \A i \in 1..Len(V) : W[i] = V[i]

\* The decoder can work on the frame data of P.
Decodable(P, Q, C, G, S, V) ==
    /\ P \in PairRecord /\ C \in Seq(AnyMessage) /\ V \in Seq(Segment)
    /\ G \in MapOf(Hash, Segment)
    /\ Waiting(P) /\ Delivers(P, Q, C, G, S, V)

\* Induction on the natural numbers, as a fact about sets.
Induction ==
    \A T : 0 \in T /\ (\A n \in Nat : n \in T => n + 1 \in T) => \A n \in Nat : n \in T
=============================================================================
