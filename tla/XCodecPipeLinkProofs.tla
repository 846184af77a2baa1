------------------------ MODULE XCodecPipeLinkProofs ------------------------
(***************************************************************************)
(* What an end of a connection receives, and what it sends, keeps the      *)
(* invariant of the connection, provided that the codec does what it       *)
(* should.                                                                 *)
(***************************************************************************)
EXTENDS XCodecPipeLink, TLAPS

\* The members of a message depend on its kind.
LEMMA MessageFacts ==
  ASSUME NEW m \in AnyMessage
  PROVE  /\ m.op \in {"HELLO", "ASK", "LEARN", "EOS", "EOS_ACK", "FIN", "FRAME"}
         /\ m.op = "HELLO" => m.uuid \in Uuid
         /\ m.op = "ASK" => m.hash \in Hash
         /\ m.op = "LEARN" => m.seg \in Segment
         /\ m.op = "FRAME" => m.units \in Seq(Unit) /\ Len(m.units) \in 1..MAX_FRAME
  BY Zenon DEF AnyMessage, Message

\* The members of a pair.
LEMMA PairFacts ==
  ASSUME NEW P \in PairRecord
  PROVE  /\ P.decoder \in Uuid \cup {NoUuid} /\ P.decoder_window \in Window
         /\ P.decoder_unknown_hashes \in SUBSET Hash /\ P.decoder_frame_buffer \in Seq(Unit)
         /\ P.decoder_received_eos \in BOOLEAN /\ P.decoder_received_eos_ack \in BOOLEAN
         /\ P.decoder_sent_eos \in BOOLEAN /\ P.decoder_error = FALSE
         /\ P.encoder \in Uuid \cup {NoUuid} /\ P.encoder_window \in Window
         /\ P.encoder_sent_eos \in BOOLEAN /\ P.encoder_sent_eos_ack \in BOOLEAN
         /\ P.encoder_produced_eos \in BOOLEAN /\ P.open \in BOOLEAN /\ P.bad = {}
  BY Zenon DEF PairRecord
-----------------------------------------------------------------------------
(***************************************************************************)
(* Taking the first message from a channel.                                *)
(***************************************************************************)

\* A message that was the only one of its kind still is.
LEMMA ShiftOnce ==
  ASSUME NEW C \in Seq(AnyMessage), NEW D \in Seq(AnyMessage), Shifted(C, D),
         NEW i \in 1..Len(D), Once(C, i + 1)
  PROVE  Once(D, i)
<1> SUFFICES ASSUME NEW j \in 1..Len(D), D[j].op = D[i].op PROVE j = i
  BY Zenon DEF Once
<1>1. D[j] = C[j + 1] /\ D[i] = C[i + 1] /\ j + 1 \in 1..Len(C) /\ i + 1 \in 1..Len(C)
  BY DEF Shifted
<1>2. j + 1 = i + 1
  BY <1>1, Zenon DEF Once
<1> QED
  BY <1>2

\* Any message but <HELLO> may be taken and <HELLO> still comes once and first,
LEMMA ShiftHello ==
  ASSUME NEW P, NEW Q, NEW C \in Seq(AnyMessage), NEW D \in Seq(AnyMessage),
         HelloOK(P, Q, C), Shifted(C, D), C[1].op # "HELLO"
  PROVE  HelloOK(P, Q, D)
<1>1. ASSUME NEW i \in 1..Len(D), D[i].op = "HELLO"
      PROVE  D[i].uuid = Q.encoder /\ Q.encoder # NoUuid /\ P.decoder = NoUuid /\ Once(D, i)
  <2>1. i + 1 \in 1..Len(C) /\ D[i] = C[i + 1]
    BY DEF Shifted
  <2> QED
    BY <1>1, <2>1, ShiftOnce, Zenon DEF HelloOK
<1>2. ASSUME NEW i \in 1..Len(D), D[i].op \in {"FRAME", "LEARN", "EOS"}, P.decoder = NoUuid
      PROVE  \E j \in 1..Len(D) : j < i /\ D[j].op = "HELLO"
  <2>1. PICK j \in 1..Len(C) : j < i + 1 /\ C[j].op = "HELLO"
    BY <1>2 DEF HelloOK, Shifted
  <2>2. j - 1 \in 1..Len(D) /\ j - 1 < i /\ D[j - 1].op = "HELLO"
    BY <2>1 DEF Shifted
  <2> QED
    BY <2>2, Zenon
<1>3. ASSUME P.open, Q.encoder # NoUuid, P.decoder = NoUuid
      PROVE  \E j \in 1..Len(D) : D[j].op = "HELLO"
  <2>1. PICK j \in 1..Len(C) : C[j].op = "HELLO"
    BY <1>3, Zenon DEF HelloOK
  <2>2. j - 1 \in 1..Len(D) /\ D[j - 1].op = "HELLO"
    BY <2>1 DEF Shifted
  <2> QED
    BY <2>2, Zenon
<1> QED
  BY <1>1, <1>2, <1>3, Zenon DEF HelloOK

\* <EOS> still comes once and before no frame,
LEMMA ShiftEos ==
  ASSUME NEW P, NEW Q, NEW C \in Seq(AnyMessage), NEW D \in Seq(AnyMessage),
         EosOK(P, Q, C), Shifted(C, D)
  PROVE  EosOK(P, Q, D)
  BY DEF EosOK, Shifted, Once, None

\* <EOS_ACK> still comes once and after everything was delivered,
LEMMA ShiftAck ==
  ASSUME NEW P, NEW Q, NEW C \in Seq(AnyMessage), NEW D \in Seq(AnyMessage),
         NEW S, NEW V, AckOK(P, Q, C, S, V), Shifted(C, D)
  PROVE  AckOK(P, Q, D, S, V)
  BY DEF AckOK, Shifted, Once, None

\* and FIN is still the last.
LEMMA ShiftFin ==
  ASSUME NEW P, NEW Q, NEW C \in Seq(AnyMessage), NEW D \in Seq(AnyMessage),
         FinOK(P, Q, C), Shifted(C, D)
  PROVE  FinOK(P, Q, D)
  BY DEF FinOK, Shifted

\* <ASK>s and <LEARN>s are still for what is unknown, seen from the end that
\* receives them
LEMMA ShiftAsk ==
  ASSUME NEW P, NEW Q, NEW C \in Seq(AnyMessage), NEW D \in Seq(AnyMessage),
         NEW R, NEW own, NEW G, AskOK(P, Q, C, R, own, G), Shifted(C, D)
  PROVE  AskOK(P, Q, D, R, own, G)
<1>1. \A i \in 1..Len(D) : i + 1 \in 1..Len(C) /\ D[i] = C[i + 1]
  BY DEF Shifted
<1> QED
  BY <1>1, ShiftOnce DEF AskOK

\* and from the other.
LEMMA ShiftAskOther ==
  ASSUME NEW P, NEW Q, NEW C \in Seq(AnyMessage), NEW D \in Seq(AnyMessage),
         NEW R, NEW own, NEW G, AskOK(Q, P, R, C, G, own), Shifted(C, D)
  PROVE  AskOK(Q, P, R, D, G, own)
  BY DEF AskOK, Shifted, Once, None

\* Unless <LEARN> is taken, the hash this end waits for is still on its way;
LEMMA ShiftAsked ==
  ASSUME NEW P, NEW C \in Seq(AnyMessage), NEW D \in Seq(AnyMessage),
         NEW R, Asked(P, C, R), Shifted(C, D), C[1].op # "LEARN"
  PROVE  Asked(P, D, R)
<1> SUFFICES ASSUME NEW h \in P.decoder_unknown_hashes,
                    ~\E i \in 1..Len(R) : R[i].op = "ASK" /\ R[i].hash = h
             PROVE  \E i \in 1..Len(D) : D[i].op = "LEARN" /\ HashOf[D[i].seg] = h
  BY Zenon DEF Asked
<1>1. PICK i \in 1..Len(C) : C[i].op = "LEARN" /\ HashOf[C[i].seg] = h
  BY Zenon DEF Asked
<1>2. i # 1
  BY <1>1, Zenon
<1>3. i - 1 \in 1..Len(D) /\ D[i - 1] = C[i]
  BY <1>2 DEF Shifted
<1> QED
  BY <1>1, <1>3, Zenon

\* unless <ASK> is taken, so is the hash the other end waits for.
LEMMA ShiftAskedOther ==
  ASSUME NEW Q, NEW C \in Seq(AnyMessage), NEW D \in Seq(AnyMessage),
         NEW R, Asked(Q, R, C), Shifted(C, D), C[1].op # "ASK"
  PROVE  Asked(Q, R, D)
<1> SUFFICES ASSUME NEW h \in Q.decoder_unknown_hashes,
                    ~\E i \in 1..Len(R) : R[i].op = "LEARN" /\ HashOf[R[i].seg] = h
             PROVE  \E i \in 1..Len(D) : D[i].op = "ASK" /\ D[i].hash = h
  BY Zenon DEF Asked
<1>1. PICK i \in 1..Len(C) : C[i].op = "ASK" /\ C[i].hash = h
  BY Zenon DEF Asked
<1>2. i # 1
  BY <1>1, Zenon
<1>3. i - 1 \in 1..Len(D) /\ D[i - 1] = C[i]
  BY <1>2 DEF Shifted
<1> QED
  BY <1>1, <1>3, Zenon

\* Unless a frame is taken, what is on its way is still to be delivered;
LEMMA ShiftDelivers ==
  ASSUME NEW P, NEW Q, NEW C \in Seq(AnyMessage), NEW D \in Seq(AnyMessage),
         NEW G, NEW S, NEW V, P.decoder_frame_buffer \in Seq(Unit),
         Delivers(P, Q, C, G, S, V), Shifted(C, D), C[1].op # "FRAME"
  PROVE  Delivers(P, Q, D, G, S, V)
<1>1. PICK U, pos, T : Carries(P, Q, C, G, S, V, U, pos, T)
  BY Zenon DEF Delivers
<1> DEFINE B == P.decoder_frame_buffer
           to == [i \in 0..Len(D) |-> pos[i + 1]]
<1>2. Flat(B, C, U, pos)
  BY <1>1, Zenon DEF Carries
<1>3. Flat(B, D, U, to)
  <2>1. Len(C) \in Nat /\ Len(D) \in Nat /\ Len(C) = Len(D) + 1 /\ Len(B) \in Nat
    BY DEF Shifted
  <2>2. to \in [0..Len(D) -> 0..Len(U)] /\ to[0] = pos[1] /\ to[Len(D)] = pos[Len(C)]
    BY <1>2, <2>1 DEF Flat
  <2>3. pos[1] = pos[0]
    <3>1. Piece(C[1], U, pos[1 - 1], pos[1])
      BY <1>2, <2>1 DEF Flat
    <3> QED
      BY <3>1 DEF Piece
  <2>4. ASSUME NEW i \in 1..Len(D)
        PROVE  /\ D[i] = C[i + 1] /\ i + 1 \in 1..Len(C) /\ to[i] = pos[i + 1]
               /\ to[i - 1] = pos[(i + 1) - 1]
    BY <2>1 DEF Shifted
  <2>5. ASSUME NEW i \in 1..Len(D) PROVE Piece(D[i], U, to[i - 1], to[i])
    <3>1. Piece(C[i + 1], U, pos[(i + 1) - 1], pos[i + 1])
      BY <1>2, <2>4, Zenon DEF Flat
    <3> QED
      BY <2>4, <3>1, Zenon
  <2> HIDE DEF to
  <2> QED
    BY <1>2, <2>1, <2>2, <2>3, <2>5, Zenon DEF Flat
<1>4. Carries(P, Q, D, G, S, V, U, to, T)
  BY <1>1, <1>3, Zenon DEF Carries
<1> QED
  BY <1>4, Zenon DEF Delivers

\* Two sequences that are consecutive parts of U are one part of it.
LEMMA Joined ==
  ASSUME NEW E, NEW A \in Seq(E), NEW B \in Seq(E), NEW U,
         \A i \in 1..Len(A) : A[i] = U[i], \A j \in 1..Len(B) : B[j] = U[Len(A) + j]
  PROVE  \A i \in 1..Len(A \o B) : (A \o B)[i] = U[i]
<1> TAKE i \in 1..Len(A \o B)
<1>1. CASE i <= Len(A)
  BY <1>1
<1>2. CASE i > Len(A)
  <2>1. i - Len(A) \in 1..Len(B) /\ (A \o B)[i] = B[i - Len(A)]
    BY <1>2
  <2> QED
    BY <2>1
<1> QED
  BY <1>1, <1>2

\* a frame that is taken goes to the frame buffer, from where it is delivered.
LEMMA ShiftFrame ==
  ASSUME NEW P, NEW P2, NEW Q, NEW C \in Seq(AnyMessage), NEW D \in Seq(AnyMessage),
         NEW G, NEW S, NEW V, P.decoder_frame_buffer \in Seq(Unit),
         Delivers(P, Q, C, G, S, V), Shifted(C, D), C[1].op = "FRAME",
         P2.decoder_frame_buffer = P.decoder_frame_buffer \o C[1].units,
         P2.decoder_window = P.decoder_window
  PROVE  Delivers(P2, Q, D, G, S, V)
<1>1. PICK U, pos, T : Carries(P, Q, C, G, S, V, U, pos, T)
  BY Zenon DEF Delivers
<1> DEFINE B == P.decoder_frame_buffer
           B2 == P2.decoder_frame_buffer
           to == [i \in 0..Len(D) |-> pos[i + 1]]
<1>2. Flat(B, C, U, pos)
  BY <1>1, Zenon DEF Carries
<1>3. Flat(B2, D, U, to)
  <2>1. Len(C) \in Nat /\ Len(D) \in Nat /\ Len(C) = Len(D) + 1 /\ Len(B) \in Nat
    BY DEF Shifted
  <2>2. to \in [0..Len(D) -> 0..Len(U)] /\ to[0] = pos[1] /\ to[Len(D)] = pos[Len(C)]
    BY <1>2, <2>1 DEF Flat
  <2>3. C[1].units \in Seq(Unit) /\ C[1] \in AnyMessage /\ 1 \in 1..Len(C)
    BY <2>1, MessageFacts
  <2>4. /\ pos[1] = pos[0] + Len(C[1].units) /\ pos[0] = Len(B)
        /\ \A j \in 1..Len(C[1].units) : C[1].units[j] = U[pos[0] + j]
    <3>1. Piece(C[1], U, pos[1 - 1], pos[1])
      BY <1>2, <2>3, Zenon DEF Flat
    <3>2. pos[1 - 1] = pos[0] /\ pos[0] = Len(B)
      BY <1>2 DEF Flat
    <3> QED
      BY <3>1, <3>2, Zenon DEF Piece
  <2>5. Len(B2) = Len(B) + Len(C[1].units)
    BY <2>3
  <2>6. \A i \in 1..Len(B2) : B2[i] = U[i]
    <3>1. \A i \in 1..Len(B) : B[i] = U[i]
      BY <1>2, Zenon DEF Flat
    <3>2. \A j \in 1..Len(C[1].units) : C[1].units[j] = U[Len(B) + j]
      BY <2>4, Zenon
    <3>3. B \in Seq(Unit) /\ C[1].units \in Seq(Unit) /\ B2 = B \o C[1].units
      BY <2>3, Zenon
    <3> HIDE DEF B, B2
    <3> QED
      BY <3>1, <3>2, <3>3, Joined
  <2>7. ASSUME NEW i \in 1..Len(D)
        PROVE  /\ D[i] = C[i + 1] /\ i + 1 \in 1..Len(C) /\ to[i] = pos[i + 1]
               /\ to[i - 1] = pos[(i + 1) - 1]
    BY <2>1 DEF Shifted
  <2>8. ASSUME NEW i \in 1..Len(D) PROVE Piece(D[i], U, to[i - 1], to[i])
    <3>1. Piece(C[i + 1], U, pos[(i + 1) - 1], pos[i + 1])
      BY <1>2, <2>7, Zenon DEF Flat
    <3> QED
      BY <2>7, <3>1, Zenon
  <2> HIDE DEF to
  <2> QED
    BY <1>2, <2>2, <2>4, <2>5, <2>6, <2>8, Zenon DEF Flat
<1>4. Carries(P2, Q, D, G, S, V, U, to, T)
  BY <1>1, <1>3, Zenon DEF Carries
<1> QED
  BY <1>4, Zenon DEF Delivers
-----------------------------------------------------------------------------
(***************************************************************************)
(* What each message that is received does to the two ends.                *)
(***************************************************************************)

\* What is left of the invariant of an end when it takes a message.
LEMMA Taken ==
  ASSUME NEW P, NEW Q, NEW C, NEW R, NEW own, NEW G, NEW S, NEW V, NEW live,
         NEW D \in Seq(AnyMessage),
         Half(P, Q, C, R, own, G, S, V, live), P.open, Shifted(C, D)
  PROVE  /\ P \in PairRecord /\ C \in Seq(AnyMessage)
         /\ 1 \in 1..Len(C) /\ C[1] \in AnyMessage
         /\ C[1].op # "HELLO" => HelloOK(P, Q, D)
         /\ EosOK(P, Q, D) /\ AckOK(P, Q, D, S, V) /\ FinOK(P, Q, D)
         /\ AskOK(P, Q, D, R, own, G)
         /\ live /\ C[1].op # "LEARN" => Asked(P, D, R)
         /\ C[1].op # "FRAME" => Delivers(P, Q, D, G, S, V)
         /\ NotDone(P)
<1>1. /\ P \in PairRecord /\ C \in Seq(AnyMessage) /\ P.decoder_frame_buffer \in Seq(Unit)
      /\ HelloOK(P, Q, C) /\ EosOK(P, Q, C) /\ AckOK(P, Q, C, S, V) /\ FinOK(P, Q, C)
      /\ AskOK(P, Q, C, R, own, G) /\ (live => Asked(P, C, R))
      /\ Delivers(P, Q, C, G, S, V)
  BY PairFacts, Zenon DEF Half
<1>2. 1 \in 1..Len(C) /\ C[1] \in AnyMessage /\ C # <<>>
  BY <1>1 DEF Shifted
<1>3. NotDone(P)
  BY <1>1, <1>2, Zenon DEF NotDone, FinOK
<1>4. C[1].op # "HELLO" => HelloOK(P, Q, D)
  BY <1>1, ShiftHello, Zenon
<1>5. EosOK(P, Q, D) /\ AckOK(P, Q, D, S, V) /\ FinOK(P, Q, D)
  BY <1>1, ShiftEos, ShiftAck, ShiftFin, Zenon
<1>6. AskOK(P, Q, D, R, own, G)
  BY <1>1, ShiftAsk, Zenon
<1>7. live /\ C[1].op # "LEARN" => Asked(P, D, R)
  BY <1>1, ShiftAsked, Zenon
<1>8. C[1].op # "FRAME" => Delivers(P, Q, D, G, S, V)
  BY <1>1, ShiftDelivers, Zenon
<1> QED
  BY <1>1, <1>2, <1>3, <1>4, <1>5, <1>6, <1>7, <1>8, Zenon

\* The other end notices only a change of what this end waits for.
LEMMA OtherEnd ==
  ASSUME NEW P, NEW Q, NEW C, NEW R, NEW own, NEW G, NEW W, NEW X, NEW live,
         NEW D, NEW P2, Half(Q, P, R, C, G, own, W, X, live), SameEncoder(P, P2),
         AskOK(Q, P2, R, D, G, own), live => Asked(Q, R, D)
  PROVE  Half(Q, P2, R, D, G, own, W, X, live)
<1>0. /\ HelloOK(Q, P, R) /\ EosOK(Q, P, R) /\ AckOK(Q, P, R, W, X) /\ FinOK(Q, P, R)
      /\ Q.open => Delivers(Q, P, R, own, W, X)
  BY Zenon DEF Half
<1>1. HelloOK(Q, P2, R) /\ EosOK(Q, P2, R)
  BY <1>0, Zenon DEF HelloOK, EosOK, SameEncoder
<1>3. AckOK(Q, P2, R, W, X) /\ FinOK(Q, P2, R)
  BY <1>0, Zenon DEF AckOK, FinOK, SameEncoder
<1>2. Q.open => Delivers(Q, P2, R, own, W, X)
  BY <1>0, Zenon DEF Delivers, Carries, SameEncoder
<1> QED
  BY <1>1, <1>2, <1>3, Zenon DEF Half

\* The other end notices nothing, unless the message is an <ASK>.
LEMMA OtherTaken ==
  ASSUME NEW P, NEW Q, NEW C \in Seq(AnyMessage), NEW R, NEW own, NEW G, NEW W, NEW X,
         NEW live, NEW D \in Seq(AnyMessage), NEW P2,
         Half(Q, P, R, C, G, own, W, X, live), SameEncoder(P, P2), Shifted(C, D),
         P2.decoder_unknown_hashes = P.decoder_unknown_hashes, C[1].op # "ASK"
  PROVE  Half(Q, P2, R, D, G, own, W, X, live)
<1>1. AskOK(Q, P, R, D, G, own) /\ (live => Asked(Q, R, D))
  BY ShiftAskOther, ShiftAskedOther, Zenon DEF Half
<1>2. AskOK(Q, P2, R, D, G, own)
  BY <1>1, Zenon DEF AskOK, SameEncoder
<1> QED
  BY <1>1, <1>2, OtherEnd, Zenon

\* What <HELLO> has to precede does not come first before <HELLO> was received.
LEMMA AfterHello ==
  ASSUME NEW P, NEW Q, NEW C, HelloOK(P, Q, C), 1 \in 1..Len(C), P.open,
         C[1].op \in {"FRAME", "LEARN", "EOS"}
  PROVE  P.decoder # NoUuid /\ P.decoder = Q.encoder
<1>1. P.decoder # NoUuid \/ \E j \in 1..Len(C) : j < 1 /\ C[j].op = "HELLO"
  BY Zenon DEF HelloOK
<1> QED
  BY <1>1 DEF HelloOK

\* A message that comes once is the last of its kind.
LEMMA NoneAfter ==
  ASSUME NEW C \in Seq(AnyMessage), NEW D \in Seq(AnyMessage), Shifted(C, D), Once(C, 1)
  PROVE  \A i \in 1..Len(D) : D[i].op # C[1].op
<1> TAKE i \in 1..Len(D)
<1>1. i + 1 \in 1..Len(C) /\ D[i] = C[i + 1] /\ i + 1 # 1
  BY DEF Shifted
<1> QED
  BY <1>1, Zenon DEF Once

\* What follows frame data does not change its beginning.
LEMMA LongerFrame ==
  ASSUME NEW A \in Seq(Unit), NEW B \in Seq(Unit)
  PROVE  /\ A \o B \in Seq(Unit)
         /\ Len(A) >= 2 => Len(A \o B) >= 2 /\ (A \o B)[1] = A[1] /\ (A \o B)[2] = A[2]
  OBVIOUS

\* <HELLO> is only received once, and its UUID is the one of the other codec.
LEMMA TakeHello ==
  ASSUME NEW P, NEW Q, NEW C, NEW R, NEW own, NEW G, NEW S, NEW V, NEW W, NEW X,
         NEW live, NEW D \in Seq(AnyMessage), NEW P2,
         Link(P, Q, C, R, own, G, S, V, W, X, live), P.open, Shifted(C, D),
         C[1].op = "HELLO",
         Receives(P, P2, C[1].uuid, P.decoder_window, P.decoder_unknown_hashes,
                  P.decoder_frame_buffer, P.decoder_received_eos,
                  P.decoder_received_eos_ack, P.decoder_sent_eos)
  PROVE  /\ P.decoder = NoUuid
         /\ Link(P2, Q, D, R, own, G, S, V, W, X, live) /\ NotDone(P2)
<1>1. Half(P, Q, C, R, own, G, S, V, live) /\ Half(Q, P, R, C, G, own, W, X, live)
  BY Zenon DEF Link
<1>2. /\ P \in PairRecord /\ C \in Seq(AnyMessage) /\ 1 \in 1..Len(C) /\ C[1] \in AnyMessage
      /\ EosOK(P, Q, D) /\ AckOK(P, Q, D, S, V) /\ FinOK(P, Q, D)
      /\ AskOK(P, Q, D, R, own, G) /\ (live => Asked(P, D, R))
      /\ Delivers(P, Q, D, G, S, V) /\ NotDone(P)
  BY <1>1, Taken, Zenon
<1>3. C[1].uuid \in Uuid /\ C[1].uuid = Q.encoder /\ Q.encoder # NoUuid /\ P.decoder = NoUuid
      /\ Once(C, 1)
  BY <1>1, <1>2, MessageFacts, Zenon DEF Half, HelloOK
<1>4. /\ P2 \in PairRecord /\ SameEncoder(P, P2)
      /\ P2.decoder = C[1].uuid /\ P2.decoder_window = P.decoder_window
      /\ P2.decoder_unknown_hashes = P.decoder_unknown_hashes
      /\ P2.decoder_frame_buffer = P.decoder_frame_buffer
      /\ P2.decoder_received_eos = P.decoder_received_eos
      /\ P2.decoder_received_eos_ack = P.decoder_received_eos_ack
      /\ P2.decoder_sent_eos = P.decoder_sent_eos
  BY <1>2, <1>3, Zenon DEF Receives
<1>5. Half(P2, Q, D, R, own, G, S, V, live)
  <2>1. HelloOK(P2, Q, D)
    <3>1. \A i \in 1..Len(D) : D[i].op # "HELLO"
      BY <1>2, <1>3, NoneAfter, Zenon
    <3> QED
      BY <1>3, <1>4, <3>1, Zenon DEF HelloOK
  <2>2. EosOK(P2, Q, D) /\ Waiting(P2)
    BY <1>1, <1>2, <1>3, <1>4, Zenon DEF EosOK, Half, Waiting, SameEncoder
  <2>3. AckOK(P2, Q, D, S, V) /\ FinOK(P2, Q, D)
    BY <1>2, <1>4, Zenon DEF AckOK, FinOK, SameEncoder
  <2>4. AskOK(P2, Q, D, R, own, G) /\ (live => Asked(P2, D, R))
    BY <1>2, <1>4, Zenon DEF AskOK, Asked, SameEncoder
  <2>5. Delivers(P2, Q, D, G, S, V)
    BY <1>2, <1>4, Zenon DEF Delivers, Carries
  <2> QED
    BY <1>1, <1>4, <2>1, <2>2, <2>3, <2>4, <2>5, Zenon DEF Half, SameEncoder
<1>6. Half(Q, P2, R, D, G, own, W, X, live)
  <2>1. C[1].op # "ASK"
    OBVIOUS
  <2> QED
    BY <1>1, <1>2, <1>4, <2>1, OtherTaken, Zenon
<1>7. NotDone(P2)
  BY <1>2, <1>4, Zenon DEF NotDone
<1> QED
  BY <1>3, <1>5, <1>6, <1>7, Zenon DEF Link

\* <LEARN> answers the <ASK> for the hash frame data waits for.
LEMMA TakeLearn ==
  ASSUME NEW P, NEW Q, NEW C, NEW R, NEW own, NEW G, NEW S, NEW V, NEW W, NEW X,
         NEW live, NEW D \in Seq(AnyMessage), NEW P2, NEW unknown,
         Link(P, Q, C, R, own, G, S, V, W, X, live), P.open, Shifted(C, D),
         C[1].op = "LEARN",
         unknown = P.decoder_unknown_hashes \ {HashOf[C[1].seg]},
         Receives(P, P2, P.decoder, P.decoder_window, unknown,
                  P.decoder_frame_buffer, P.decoder_received_eos,
                  P.decoder_received_eos_ack, P.decoder_sent_eos)
  PROVE  /\ P.decoder # NoUuid /\ P.decoder = Q.encoder
         /\ C[1].seg \in Segment /\ Known(G, C[1].seg)
         /\ Link(P2, Q, D, R, own, G, S, V, W, X, live) /\ NotDone(P2)
<1>1. Half(P, Q, C, R, own, G, S, V, live) /\ Half(Q, P, R, C, G, own, W, X, live)
  BY Zenon DEF Link
<1>2. /\ P \in PairRecord /\ C \in Seq(AnyMessage) /\ 1 \in 1..Len(C) /\ C[1] \in AnyMessage
      /\ HelloOK(P, Q, D) /\ EosOK(P, Q, D) /\ AckOK(P, Q, D, S, V) /\ FinOK(P, Q, D)
      /\ AskOK(P, Q, D, R, own, G) /\ Delivers(P, Q, D, G, S, V) /\ NotDone(P)
  BY <1>1, Taken, Zenon
<1>3. /\ C[1].seg \in Segment /\ Known(G, C[1].seg) /\ Once(C, 1)
      /\ HashOf[C[1].seg] \in P.decoder_unknown_hashes
  BY <1>1, <1>2, MessageFacts, Zenon DEF Half, AskOK
<1>4. P.decoder # NoUuid /\ P.decoder = Q.encoder
  <2>1. HelloOK(P, Q, C)
    BY <1>1, Zenon DEF Half
  <2> QED
    BY <1>2, <2>1, AfterHello, Zenon
<1>5. P.decoder_unknown_hashes = {HashOf[C[1].seg]}
  BY <1>1, <1>3, Zenon DEF Half, Waiting
<1>6. /\ P2 \in PairRecord /\ SameEncoder(P, P2)
      /\ P2.decoder = P.decoder /\ P2.decoder_window = P.decoder_window
      /\ P2.decoder_unknown_hashes = {}
      /\ P2.decoder_frame_buffer = P.decoder_frame_buffer
      /\ P2.decoder_received_eos = P.decoder_received_eos
      /\ P2.decoder_received_eos_ack = P.decoder_received_eos_ack
      /\ P2.decoder_sent_eos = P.decoder_sent_eos
  BY <1>2, <1>5, Zenon DEF Receives
<1>7. Half(P2, Q, D, R, own, G, S, V, live)
  <2>1. HelloOK(P2, Q, D) /\ Waiting(P2)
    <3>1. HelloOK(P2, Q, D)
      BY <1>2, <1>6, Zenon DEF HelloOK, SameEncoder
    <3>2. Waiting(P2)
      BY <1>4, <1>6, Zenon DEF Waiting
    <3> QED
      BY <3>1, <3>2, Zenon
  <2>2. EosOK(P2, Q, D) /\ AckOK(P2, Q, D, S, V) /\ FinOK(P2, Q, D)
    BY <1>2, <1>6, Zenon DEF EosOK, AckOK, FinOK, SameEncoder
  <2>3. AskOK(P2, Q, D, R, own, G) /\ Asked(P2, D, R)
    <3>1. \A i \in 1..Len(D) : D[i].op # "LEARN"
      BY <1>2, <1>3, NoneAfter, Zenon
    <3> QED
      BY <1>2, <1>6, <3>1, Zenon DEF AskOK, Asked, SameEncoder
  <2>4. Delivers(P2, Q, D, G, S, V)
    BY <1>2, <1>6, Zenon DEF Delivers, Carries
  <2> QED
    BY <1>1, <1>6, <2>1, <2>2, <2>3, <2>4, Zenon DEF Half, SameEncoder
<1>8. Half(Q, P2, R, D, G, own, W, X, live)
  <2>1. None(R, "ASK")
    BY <1>1, <1>2, Zenon DEF Half, AskOK, None
  <2>2. AskOK(Q, P2, R, D, G, own)
    BY <1>1, <1>6, <2>1, Zenon DEF Half, AskOK, None, SameEncoder
  <2>3. live => Asked(Q, R, D)
    BY <1>1, <1>2, ShiftAskedOther, Zenon DEF Half
  <2> QED
    BY <1>1, <1>6, <2>2, <2>3, OtherEnd, Zenon
<1>9. NotDone(P2)
  BY <1>2, <1>6, Zenon DEF NotDone
<1> QED
  BY <1>3, <1>4, <1>7, <1>8, <1>9, Zenon DEF Link

\* <EOS> is only received once.
LEMMA TakeEos ==
  ASSUME NEW P, NEW Q, NEW C, NEW R, NEW own, NEW G, NEW S, NEW V, NEW W, NEW X,
         NEW live, NEW D \in Seq(AnyMessage), NEW P2,
         Link(P, Q, C, R, own, G, S, V, W, X, live), P.open, Shifted(C, D),
         C[1].op = "EOS",
         Receives(P, P2, P.decoder, P.decoder_window, P.decoder_unknown_hashes,
                  P.decoder_frame_buffer, TRUE,
                  P.decoder_received_eos_ack, P.decoder_sent_eos)
  PROVE  /\ ~P.decoder_received_eos
         /\ Link(P2, Q, D, R, own, G, S, V, W, X, live) /\ NotDone(P2)
<1>1. Half(P, Q, C, R, own, G, S, V, live) /\ Half(Q, P, R, C, G, own, W, X, live)
  BY Zenon DEF Link
<1>2. /\ P \in PairRecord /\ C \in Seq(AnyMessage) /\ 1 \in 1..Len(C) /\ C[1] \in AnyMessage
      /\ HelloOK(P, Q, D) /\ EosOK(P, Q, D) /\ AckOK(P, Q, D, S, V) /\ FinOK(P, Q, D)
      /\ AskOK(P, Q, D, R, own, G) /\ (live => Asked(P, D, R))
      /\ Delivers(P, Q, D, G, S, V) /\ NotDone(P)
  BY <1>1, Taken, Zenon
<1>3. /\ Q.encoder_sent_eos /\ ~P.decoder_received_eos /\ Once(C, 1)
      /\ \A j \in 1..Len(C) : j > 1 => C[j].op # "FRAME"
  BY <1>1, <1>2, Zenon DEF Half, EosOK
<1>4. P.decoder # NoUuid
  <2>1. HelloOK(P, Q, C)
    BY <1>1, Zenon DEF Half
  <2> QED
    BY <1>2, <2>1, AfterHello, Zenon
<1>6. /\ P2 \in PairRecord /\ SameEncoder(P, P2)
      /\ P2.decoder = P.decoder /\ P2.decoder_window = P.decoder_window
      /\ P2.decoder_unknown_hashes = P.decoder_unknown_hashes
      /\ P2.decoder_frame_buffer = P.decoder_frame_buffer
      /\ P2.decoder_received_eos = TRUE
      /\ P2.decoder_received_eos_ack = P.decoder_received_eos_ack
      /\ P2.decoder_sent_eos = P.decoder_sent_eos
  BY <1>2, Zenon DEF Receives
<1>7. Half(P2, Q, D, R, own, G, S, V, live)
  <2>1. HelloOK(P2, Q, D) /\ Waiting(P2)
    BY <1>1, <1>2, <1>6 DEF HelloOK, Waiting, SameEncoder, Half
  <2>2. EosOK(P2, Q, D)
    <3>1. \A i \in 1..Len(D) : D[i].op # "EOS"
      BY <1>2, <1>3, NoneAfter, Zenon
    <3>2. \A i \in 1..Len(D) : D[i].op # "FRAME"
      BY <1>2, <1>3 DEF Shifted
    <3> QED
      BY <1>2, <1>3, <1>4, <1>6, <3>1, <3>2, Zenon DEF EosOK, None, SameEncoder
  <2>3. AckOK(P2, Q, D, S, V) /\ FinOK(P2, Q, D)
    BY <1>2, <1>6, Zenon DEF AckOK, FinOK, SameEncoder
  <2>4. AskOK(P2, Q, D, R, own, G) /\ (live => Asked(P2, D, R))
    BY <1>2, <1>6, Zenon DEF AskOK, Asked, SameEncoder
  <2>5. Delivers(P2, Q, D, G, S, V)
    BY <1>2, <1>6, Zenon DEF Delivers, Carries
  <2> QED
    BY <1>1, <1>6, <2>1, <2>2, <2>3, <2>4, <2>5, Zenon DEF Half, SameEncoder
<1>8. Half(Q, P2, R, D, G, own, W, X, live)
  <2>1. C[1].op # "ASK"
    OBVIOUS
  <2> QED
    BY <1>1, <1>2, <1>6, <2>1, OtherTaken, Zenon
<1>9. NotDone(P2)
  BY <1>2, <1>6, Zenon DEF NotDone
<1> QED
  BY <1>3, <1>7, <1>8, <1>9, Zenon DEF Link

\* <EOS_ACK> is only received once, after <EOS> was sent.
LEMMA TakeEosAck ==
  ASSUME NEW P, NEW Q, NEW C, NEW R, NEW own, NEW G, NEW S, NEW V, NEW W, NEW X,
         NEW live, NEW D \in Seq(AnyMessage), NEW P2,
         Link(P, Q, C, R, own, G, S, V, W, X, live), P.open, Shifted(C, D),
         C[1].op = "EOS_ACK",
         Receives(P, P2, P.decoder, P.decoder_window, P.decoder_unknown_hashes,
                  P.decoder_frame_buffer, P.decoder_received_eos,
                  TRUE, P.decoder_sent_eos)
  PROVE  /\ P.encoder_sent_eos /\ ~P.decoder_received_eos_ack
         /\ Link(P2, Q, D, R, own, G, S, V, W, X, live) /\ NotDone(P2)
<1>1. Half(P, Q, C, R, own, G, S, V, live) /\ Half(Q, P, R, C, G, own, W, X, live)
  BY Zenon DEF Link
<1>2. /\ P \in PairRecord /\ C \in Seq(AnyMessage) /\ 1 \in 1..Len(C) /\ C[1] \in AnyMessage
      /\ HelloOK(P, Q, D) /\ EosOK(P, Q, D) /\ AckOK(P, Q, D, S, V) /\ FinOK(P, Q, D)
      /\ AskOK(P, Q, D, R, own, G) /\ (live => Asked(P, D, R))
      /\ Delivers(P, Q, D, G, S, V) /\ NotDone(P)
  BY <1>1, Taken, Zenon
<1>3. Q.encoder_sent_eos_ack /\ ~P.decoder_received_eos_ack /\ Once(C, 1)
  BY <1>1, <1>2, Zenon DEF Half, AckOK
<1>4. P.encoder_sent_eos
  BY <1>1, <1>3, Zenon DEF Half, AckOK, EosOK
<1>6. /\ P2 \in PairRecord /\ SameEncoder(P, P2)
      /\ P2.decoder = P.decoder /\ P2.decoder_window = P.decoder_window
      /\ P2.decoder_unknown_hashes = P.decoder_unknown_hashes
      /\ P2.decoder_frame_buffer = P.decoder_frame_buffer
      /\ P2.decoder_received_eos = P.decoder_received_eos
      /\ P2.decoder_received_eos_ack = TRUE
      /\ P2.decoder_sent_eos = P.decoder_sent_eos
  BY <1>2, Zenon DEF Receives
<1>7. Half(P2, Q, D, R, own, G, S, V, live)
  <2>1. HelloOK(P2, Q, D) /\ Waiting(P2)
    BY <1>1, <1>2, <1>6 DEF HelloOK, Waiting, SameEncoder, Half
  <2>2. EosOK(P2, Q, D) /\ FinOK(P2, Q, D)
    BY <1>2, <1>6, Zenon DEF EosOK, FinOK, SameEncoder
  <2>3. AckOK(P2, Q, D, S, V)
    <3>1. \A i \in 1..Len(D) : D[i].op # "EOS_ACK"
      BY <1>2, <1>3, NoneAfter, Zenon
    <3> QED
      BY <1>2, <1>3, <1>6, <3>1, Zenon DEF AckOK, SameEncoder
  <2>4. AskOK(P2, Q, D, R, own, G) /\ (live => Asked(P2, D, R))
    BY <1>2, <1>6, Zenon DEF AskOK, Asked, SameEncoder
  <2>5. Delivers(P2, Q, D, G, S, V)
    BY <1>2, <1>6, Zenon DEF Delivers, Carries
  <2> QED
    BY <1>1, <1>6, <2>1, <2>2, <2>3, <2>4, <2>5, Zenon DEF Half, SameEncoder
<1>8. Half(Q, P2, R, D, G, own, W, X, live)
  <2>1. C[1].op # "ASK"
    OBVIOUS
  <2> QED
    BY <1>1, <1>2, <1>6, <2>1, OtherTaken, Zenon
<1>9. NotDone(P2)
  BY <1>2, <1>6, Zenon DEF NotDone
<1> QED
  BY <1>3, <1>4, <1>7, <1>8, <1>9, Zenon DEF Link

\* A <FRAME> comes after <HELLO> and before <EOS>.
LEMMA TakeFrame ==
  ASSUME NEW P, NEW Q, NEW C, NEW R, NEW own, NEW G, NEW S, NEW V, NEW W, NEW X,
         NEW live, NEW D \in Seq(AnyMessage), NEW P2,
         Link(P, Q, C, R, own, G, S, V, W, X, live), P.open, Shifted(C, D),
         C[1].op = "FRAME",
         Receives(P, P2, P.decoder, P.decoder_window, P.decoder_unknown_hashes,
                  P.decoder_frame_buffer \o C[1].units, P.decoder_received_eos,
                  P.decoder_received_eos_ack, P.decoder_sent_eos)
  PROVE  /\ P.decoder # NoUuid
         /\ Link(P2, Q, D, R, own, G, S, V, W, X, live) /\ NotDone(P2)
<1>1. Half(P, Q, C, R, own, G, S, V, live) /\ Half(Q, P, R, C, G, own, W, X, live)
  BY Zenon DEF Link
<1>2. /\ P \in PairRecord /\ C \in Seq(AnyMessage) /\ 1 \in 1..Len(C) /\ C[1] \in AnyMessage
      /\ HelloOK(P, Q, D) /\ EosOK(P, Q, D) /\ AckOK(P, Q, D, S, V) /\ FinOK(P, Q, D)
      /\ AskOK(P, Q, D, R, own, G) /\ (live => Asked(P, D, R)) /\ NotDone(P)
  BY <1>1, Taken, Zenon
<1>3. ~P.decoder_received_eos /\ ~P.encoder_sent_eos_ack /\ ~P.decoder_sent_eos
  BY <1>1, <1>2, Zenon DEF Half, EosOK, AckOK, None, NotDone
<1>4. P.decoder # NoUuid
  <2>1. HelloOK(P, Q, C)
    BY <1>1, Zenon DEF Half
  <2> QED
    BY <1>2, <2>1, AfterHello, Zenon
<1>5. C[1].units \in Seq(Unit) /\ P.decoder_frame_buffer \in Seq(Unit)
  BY <1>2, MessageFacts, PairFacts, Zenon
<1>6. /\ P2 \in PairRecord /\ SameEncoder(P, P2)
      /\ P2.decoder = P.decoder /\ P2.decoder_window = P.decoder_window
      /\ P2.decoder_unknown_hashes = P.decoder_unknown_hashes
      /\ P2.decoder_frame_buffer = P.decoder_frame_buffer \o C[1].units
      /\ P2.decoder_received_eos = P.decoder_received_eos
      /\ P2.decoder_received_eos_ack = P.decoder_received_eos_ack
      /\ P2.decoder_sent_eos = P.decoder_sent_eos
  BY <1>2, <1>5, Zenon DEF Receives
<1>7. Half(P2, Q, D, R, own, G, S, V, live)
  <2>1. HelloOK(P2, Q, D) /\ EosOK(P2, Q, D)
    BY <1>2, <1>6, Zenon DEF HelloOK, EosOK, SameEncoder
  <2>2. Waiting(P2)
    <3>1. Waiting(P)
      BY <1>1, Zenon DEF Half
    <3>2. Len(P.decoder_frame_buffer) >= 2 =>
             /\ Len(P2.decoder_frame_buffer) >= 2
             /\ P2.decoder_frame_buffer[1] = P.decoder_frame_buffer[1]
             /\ P2.decoder_frame_buffer[2] = P.decoder_frame_buffer[2]
      <4> DEFINE A == P.decoder_frame_buffer
                 B == C[1].units
      <4>1. A \in Seq(Unit) /\ B \in Seq(Unit) /\ P2.decoder_frame_buffer = A \o B
        BY <1>5, <1>6, Zenon
      <4> HIDE DEF A, B
      <4>2. Len(A) >= 2 => Len(A \o B) >= 2 /\ (A \o B)[1] = A[1] /\ (A \o B)[2] = A[2]
        BY <4>1, LongerFrame, Zenon
      <4> QED
        BY <4>1, <4>2, Zenon DEF A
    <3> QED
      BY <1>4, <1>6, <3>1, <3>2, Zenon DEF Waiting
  <2>3. AckOK(P2, Q, D, S, V) /\ FinOK(P2, Q, D)
    BY <1>2, <1>3, <1>6, Zenon DEF AckOK, FinOK, SameEncoder
  <2>4. AskOK(P2, Q, D, R, own, G) /\ (live => Asked(P2, D, R))
    BY <1>2, <1>6, Zenon DEF AskOK, Asked, SameEncoder
  <2>5. Delivers(P2, Q, D, G, S, V)
    BY <1>1, <1>2, <1>5, <1>6, ShiftFrame, Zenon DEF Half
  <2> QED
    BY <1>1, <1>6, <2>1, <2>2, <2>3, <2>4, <2>5, Zenon DEF Half, SameEncoder
<1>8. Half(Q, P2, R, D, G, own, W, X, live)
  <2>1. C[1].op # "ASK"
    OBVIOUS
  <2> QED
    BY <1>1, <1>2, <1>6, <2>1, OtherTaken, Zenon
<1>9. NotDone(P2)
  BY <1>3, <1>6, Zenon DEF NotDone
<1> QED
  BY <1>3, <1>4, <1>7, <1>8, <1>9, Zenon DEF Link

\* The connection's EOS comes when there is nothing else to come.
LEMMA TakeFin ==
  ASSUME NEW P, NEW Q, NEW C, NEW R, NEW own, NEW G, NEW S, NEW V, NEW W, NEW X,
         NEW live, NEW P2,
         Link(P, Q, C, R, own, G, S, V, W, X, live), P.open, C # <<>>, C[1].op = "FIN",
         Answers(P, P2, TRUE, P.encoder_sent_eos_ack, P.encoder_produced_eos)
  PROVE  Link(P2, Q, <<>>, R, own, G, S, V, W, X, live)
<1> DEFINE D == <<>>
<1>1. Half(P, Q, C, R, own, G, S, V, live) /\ Half(Q, P, R, C, G, own, W, X, live)
  BY Zenon DEF Link
<1>2. /\ C \in Seq(AnyMessage) /\ FinOK(P, Q, C)
  BY <1>1, Zenon DEF Half
<1>3. Len(C) = 1 /\ (Q.encoder_produced_eos \/ ~Q.open)
  <2>1. 1 \in 1..Len(C)
    BY <1>2
  <2> QED
    BY <1>2, <2>1, Zenon DEF FinOK
<1>4. D \in Seq(AnyMessage) /\ Shifted(C, D)
  BY <1>2, <1>3 DEF Shifted
<1> HIDE DEF D
<1>5. /\ P \in PairRecord /\ HelloOK(P, Q, D) /\ EosOK(P, Q, D) /\ AckOK(P, Q, D, S, V)
      /\ FinOK(P, Q, D) /\ AskOK(P, Q, D, R, own, G) /\ (live => Asked(P, D, R))
      /\ Delivers(P, Q, D, G, S, V) /\ Waiting(P)
  BY <1>1, <1>4, Taken, Zenon DEF Half
<1>6. HelloOK(P2, Q, D) /\ EosOK(P2, Q, D) /\ AckOK(P2, Q, D, S, V) /\ Waiting(P2)
  BY <1>5 DEF HelloOK, EosOK, AckOK, Waiting, Answers
<1>7. FinOK(P2, Q, D)
  BY <1>3, <1>5, Zenon DEF FinOK, Answers, D
<1>8. AskOK(P2, Q, D, R, own, G) /\ (live => Asked(P2, D, R))
  BY <1>5, Zenon DEF AskOK, Asked, Answers
<1>9. Delivers(P2, Q, D, G, S, V)
  BY <1>5, Zenon DEF Delivers, Carries, Answers
<1>10. Half(P2, Q, D, R, own, G, S, V, live)
  BY <1>1, <1>4, <1>6, <1>7, <1>8, <1>9, Zenon DEF Half, Answers
<1>11. Half(Q, P2, R, D, G, own, W, X, live)
  <2>1. SameEncoder(P, P2) /\ P2.decoder_unknown_hashes = P.decoder_unknown_hashes
    BY Zenon DEF SameEncoder, Answers
  <2> QED
    BY <1>1, <1>2, <1>4, <2>1, OtherTaken, Zenon
<1> QED
  BY <1>10, <1>11, Zenon DEF Link, D

\* An <ASK> is for a segment this end knows, and the other end waits for it.
LEMMA TakeAsk ==
  ASSUME NEW P, NEW Q, NEW C, NEW R, NEW own, NEW G, NEW S, NEW V, NEW W, NEW X,
         NEW live, NEW D \in Seq(AnyMessage),
         Link(P, Q, C, R, own, G, S, V, W, X, live), P.open, Shifted(C, D),
         C[1].op = "ASK"
  PROVE  Answering(P, Q, D, R, own, G, S, V, W, X, live, C[1].hash)
<1>1. Half(P, Q, C, R, own, G, S, V, live) /\ Half(Q, P, R, C, G, own, W, X, live)
  BY Zenon DEF Link
<1>2. /\ P \in PairRecord /\ C \in Seq(AnyMessage) /\ 1 \in 1..Len(C) /\ C[1] \in AnyMessage
      /\ HelloOK(P, Q, D) /\ EosOK(P, Q, D) /\ AckOK(P, Q, D, S, V) /\ FinOK(P, Q, D)
      /\ AskOK(P, Q, D, R, own, G) /\ (live => Asked(P, D, R)) /\ NotDone(P)
      /\ Delivers(P, Q, D, G, S, V)
  BY <1>1, Taken, Zenon
<1>3. /\ P.encoder # NoUuid /\ C[1].hash \in DOMAIN own /\ Once(C, 1)
      /\ Q.open => C[1].hash \in Q.decoder_unknown_hashes /\ None(R, "LEARN")
  <2>1. AskOK(P, Q, C, R, own, G)
    BY <1>1, Zenon DEF Half
  <2> QED
    BY <1>2, <2>1, Zenon DEF AskOK
<1>4. ~P.encoder_produced_eos
  <2>1. AckOK(P, Q, C, S, V)
    BY <1>1, Zenon DEF Half
  <2>2. ~Q.encoder_sent_eos_ack
    BY <1>2, <2>1, Zenon DEF AckOK, None
  <2> QED
    BY <2>1, <2>2, Zenon DEF AckOK
<1>5. None(D, "ASK")
  BY <1>2, <1>3, NoneAfter, Zenon DEF None
<1>6. Half(P, Q, D, R, own, G, S, V, live) /\ (live => Q.open)
  BY <1>1, <1>2, Zenon DEF Half
<1>7. Half(Q, P, R, D, G, own, W, X, FALSE)
  <2>1. AskOK(Q, P, R, D, G, own)
    BY <1>1, <1>2, ShiftAskOther, Zenon DEF Half
  <2> QED
    BY <1>1, <2>1, Zenon DEF Half
<1> QED
  BY <1>2, <1>3, <1>4, <1>5, <1>6, <1>7, Zenon DEF Answering

\* EOS is passed on when everything has been delivered.
LEMMA PassEos ==
  ASSUME LinkRules, NEW P, NEW Q, NEW C, NEW R, NEW own, NEW G, NEW S, NEW V, NEW W, NEW X,
         NEW live, NEW P2,
         Link(P, Q, C, R, own, G, S, V, W, X, live), P.open, Settled(P),
         P.decoder_received_eos, P.decoder_unknown_hashes = {},
         Answers(P, P2, TRUE, P.encoder_sent_eos_ack, P.encoder_produced_eos)
  PROVE  P.decoder_frame_buffer = <<>> /\ Link(P2, Q, C, R, own, G, S, V, W, X, live)
<1>1. Half(P, Q, C, R, own, G, S, V, live) /\ Half(Q, P, R, C, G, own, W, X, live)
  BY Zenon DEF Link
<1>2. /\ P \in PairRecord /\ C \in Seq(AnyMessage) /\ HelloOK(P, Q, C) /\ EosOK(P, Q, C)
      /\ AckOK(P, Q, C, S, V) /\ FinOK(P, Q, C) /\ AskOK(P, Q, C, R, own, G)
      /\ (live => Asked(P, C, R)) /\ Delivers(P, Q, C, G, S, V) /\ Waiting(P)
  BY <1>1, Zenon DEF Half
<1>3. P.decoder_frame_buffer = <<>>
  BY <1>2, Zenon DEF EosOK, Settled, LinkRules, DecodesAll
<1>4. HelloOK(P2, Q, C) /\ EosOK(P2, Q, C) /\ AckOK(P2, Q, C, S, V) /\ Waiting(P2)
  BY <1>2, Zenon DEF HelloOK, EosOK, AckOK, Waiting, Answers
<1>5. FinOK(P2, Q, C)
  BY <1>2, <1>3, Zenon DEF FinOK, Answers
<1>6. AskOK(P2, Q, C, R, own, G) /\ (live => Asked(P2, C, R))
  BY <1>2, Zenon DEF AskOK, Asked, Answers
<1>7. Delivers(P2, Q, C, G, S, V)
  BY <1>2, Zenon DEF Delivers, Carries, Answers
<1>8. Half(P2, Q, C, R, own, G, S, V, live)
  BY <1>1, <1>4, <1>5, <1>6, <1>7, Zenon DEF Half, Answers
<1>9. Half(Q, P2, R, C, G, own, W, X, live)
  <2>1. SameEncoder(P, P2)
    BY Zenon DEF SameEncoder, Answers
  <2>2. AskOK(Q, P2, R, C, G, own) /\ (live => Asked(Q, R, C))
    BY <1>1, Zenon DEF Half, AskOK, Answers
  <2> QED
    BY <1>1, <2>1, <2>2, OtherEnd, Zenon
<1> QED
  BY <1>3, <1>8, <1>9, Zenon DEF Link

(***************************************************************************)
(* Appending a message to a channel.                                       *)
(***************************************************************************)

\* Sending anything but a frame delivers no more and no less.
LEMMA ExtendDelivers ==
  ASSUME NEW P, NEW Q, NEW C \in Seq(AnyMessage), NEW D \in Seq(AnyMessage),
         NEW G, NEW S, NEW V, P.decoder_frame_buffer \in Seq(Unit), NEW m,
         Delivers(P, Q, C, G, S, V), Extended(C, D, m), m.op # "FRAME"
  PROVE  Delivers(P, Q, D, G, S, V)
<1>1. PICK U, pos, T : Carries(P, Q, C, G, S, V, U, pos, T)
  BY Zenon DEF Delivers
<1> DEFINE B == P.decoder_frame_buffer
           to == [i \in 0..Len(D) |-> IF i <= Len(C) THEN pos[i] ELSE Len(U)]
<1>2. Flat(B, C, U, pos)
  BY <1>1, Zenon DEF Carries
<1>3. Flat(B, D, U, to)
  <2>1. Len(C) \in Nat /\ Len(D) \in Nat /\ Len(D) = Len(C) + 1 /\ Len(B) \in Nat
    BY DEF Extended
  <2>2. /\ to \in [0..Len(D) -> 0..Len(U)] /\ to[0] = pos[0] /\ to[Len(D)] = Len(U)
        /\ \A i \in 0..Len(C) : to[i] = pos[i]
    BY <1>2, <2>1 DEF Flat
  <2>3. ASSUME NEW i \in 1..Len(D)
        PROVE  \/ D[i] = C[i] /\ i \in 1..Len(C) /\ to[i] = pos[i] /\ to[i - 1] = pos[i - 1]
               \/ D[i] = m /\ to[i] = Len(U) /\ to[i - 1] = Len(U)
    BY <1>2, <2>1 DEF Extended, Flat
  <2>4. ASSUME NEW i \in 1..Len(D) PROVE Piece(D[i], U, to[i - 1], to[i])
    <3>1. CASE D[i] = C[i] /\ i \in 1..Len(C) /\ to[i] = pos[i] /\ to[i - 1] = pos[i - 1]
      <4>1. Piece(C[i], U, pos[i - 1], pos[i])
        BY <1>2, <3>1, Zenon DEF Flat
      <4> QED
        BY <3>1, <4>1, Zenon
    <3>2. CASE D[i] = m /\ to[i] = Len(U) /\ to[i - 1] = Len(U)
      BY <3>2, Zenon DEF Piece
    <3> QED
      BY <2>3, <3>1, <3>2, Zenon
  <2> HIDE DEF to
  <2> QED
    BY <1>2, <2>1, <2>2, <2>4, Zenon DEF Flat
<1>4. Carries(P, Q, D, G, S, V, U, to, T)
  BY <1>1, <1>3, Zenon DEF Carries
<1> QED
  BY <1>4, Zenon DEF Delivers

\* Anything but <HELLO> may be sent after <HELLO>,
LEMMA ExtendHello ==
  ASSUME NEW P, NEW Q, NEW C \in Seq(AnyMessage), NEW D \in Seq(AnyMessage), NEW m,
         HelloOK(P, Q, C), Extended(C, D, m), m.op # "HELLO",
         m.op \in {"FRAME", "LEARN", "EOS"} => P.open /\ Q.encoder # NoUuid
  PROVE  HelloOK(P, Q, D)
<1>0. /\ \A i \in 1..Len(C) : i \in 1..Len(D) /\ D[i] = C[i]
      /\ \A i \in 1..Len(D) : i \in 1..Len(C) \/ (i = Len(C) + 1 /\ D[i] = m)
  BY DEF Extended
<1>1. ASSUME NEW i \in 1..Len(D), D[i].op = "HELLO"
      PROVE  D[i].uuid = Q.encoder /\ Q.encoder # NoUuid /\ P.decoder = NoUuid /\ Once(D, i)
  BY <1>0, <1>1 DEF HelloOK, Once
<1>2. ASSUME NEW i \in 1..Len(D), D[i].op \in {"FRAME", "LEARN", "EOS"}, P.decoder = NoUuid
      PROVE  \E j \in 1..Len(D) : j < i /\ D[j].op = "HELLO"
  <2>1. \E j \in 1..Len(C) : j < i /\ C[j].op = "HELLO"
    <3>1. CASE i \in 1..Len(C)
      BY <1>0, <1>2, <3>1, Zenon DEF HelloOK
    <3>2. CASE i = Len(C) + 1 /\ D[i] = m
      BY <1>2, <3>2 DEF HelloOK
    <3> QED
      BY <1>0, <3>1, <3>2, Zenon
  <2> QED
    BY <1>0, <2>1, Zenon
<1> QED
  BY <1>0, <1>1, <1>2 DEF HelloOK

\* anything but a frame or another <EOS> after <EOS>,
LEMMA ExtendEos ==
  ASSUME NEW P, NEW Q, NEW C \in Seq(AnyMessage), NEW D \in Seq(AnyMessage), NEW m,
         EosOK(P, Q, C), Extended(C, D, m), m.op # "EOS",
         m.op = "FRAME" => ~Q.encoder_sent_eos
  PROVE  EosOK(P, Q, D)
<1>0. /\ \A i \in 1..Len(C) : i \in 1..Len(D) /\ D[i] = C[i]
      /\ \A i \in 1..Len(D) : i \in 1..Len(C) \/ (i = Len(C) + 1 /\ D[i] = m)
  BY DEF Extended
<1> QED
  BY <1>0, Zenon DEF EosOK, Once, None

\* anything but an <ASK> or another <EOS_ACK> after <EOS_ACK>,
LEMMA ExtendAck ==
  ASSUME NEW P, NEW Q, NEW C \in Seq(AnyMessage), NEW D \in Seq(AnyMessage), NEW m,
         NEW S, NEW V, AckOK(P, Q, C, S, V), Extended(C, D, m), m.op # "EOS_ACK",
         m.op = "ASK" => ~Q.encoder_sent_eos_ack
  PROVE  AckOK(P, Q, D, S, V)
<1>0. /\ \A i \in 1..Len(C) : i \in 1..Len(D) /\ D[i] = C[i]
      /\ \A i \in 1..Len(D) : i \in 1..Len(C) \/ (i = Len(C) + 1 /\ D[i] = m)
  BY DEF Extended
<1> QED
  BY <1>0, Zenon DEF AckOK, Once, None

\* and anything as long as the connection is open.
LEMMA ExtendFin ==
  ASSUME NEW P, NEW Q, NEW C \in Seq(AnyMessage), NEW D \in Seq(AnyMessage), NEW m,
         FinOK(P, Q, C), Extended(C, D, m), m.op # "FIN",
         P.open, Q.open, ~Q.encoder_produced_eos
  PROVE  FinOK(P, Q, D)
  BY DEF FinOK, Extended

\* Messages that neither ask nor answer leave what is asked alone, seen from the
\* end that receives them
LEMMA ExtendAsk ==
  ASSUME NEW P, NEW Q, NEW C \in Seq(AnyMessage), NEW D \in Seq(AnyMessage), NEW m,
         NEW R, NEW own, NEW G, AskOK(P, Q, C, R, own, G), Extended(C, D, m),
         m.op \notin {"ASK", "LEARN"}
  PROVE  AskOK(P, Q, D, R, own, G)
<1>0. /\ \A i \in 1..Len(C) : i \in 1..Len(D) /\ D[i] = C[i]
      /\ \A i \in 1..Len(D) : i \in 1..Len(C) \/ (i = Len(C) + 1 /\ D[i] = m)
  BY DEF Extended
<1> QED
  BY <1>0, Zenon DEF AskOK, Once

\* and from the other.
LEMMA ExtendAskOther ==
  ASSUME NEW P, NEW Q, NEW C \in Seq(AnyMessage), NEW D \in Seq(AnyMessage), NEW m,
         NEW R, NEW own, NEW G, AskOK(Q, P, R, C, G, own), Extended(C, D, m),
         m.op # "LEARN"
  PROVE  AskOK(Q, P, R, D, G, own)
  BY DEF AskOK, Extended, None

\* A hash that is on its way stays on its way,
LEMMA ExtendAsked ==
  ASSUME NEW P, NEW C \in Seq(AnyMessage), NEW D \in Seq(AnyMessage), NEW m,
         NEW R, Asked(P, C, R), Extended(C, D, m)
  PROVE  Asked(P, D, R)
<1>0. \A i \in 1..Len(C) : i \in 1..Len(D) /\ D[i] = C[i]
  BY DEF Extended
<1> QED
  BY <1>0, Zenon DEF Asked

\* as it does in the other direction.
LEMMA ExtendAskedOther ==
  ASSUME NEW Q, NEW C \in Seq(AnyMessage), NEW D \in Seq(AnyMessage), NEW m,
         NEW R, Asked(Q, R, C), Extended(C, D, m)
  PROVE  Asked(Q, R, D)
<1>0. \A i \in 1..Len(C) : i \in 1..Len(D) /\ D[i] = C[i]
  BY DEF Extended
<1> QED
  BY <1>0, Zenon DEF Asked
-----------------------------------------------------------------------------
(***************************************************************************)
(* What each message that is sent does.                                    *)
(***************************************************************************)

\* The answer to an <ASK> is what was asked for.
LEMMA SendLearn ==
  ASSUME NEW P, NEW Q, NEW D, NEW R, NEW own, NEW G, NEW S, NEW V, NEW W, NEW X,
         NEW live, NEW R2 \in Seq(AnyMessage), NEW m, NEW h,
         Answering(P, Q, D, R, own, G, S, V, W, X, live, h),
         \A k \in DOMAIN own : HashOf[own[k]] = k,
         m.op = "LEARN", m.seg = own[h], Sent(Q, R, R2, m)
  PROVE  Link(P, Q, D, R2, own, G, S, V, W, X, live)
<1>1. /\ P.encoder # NoUuid /\ ~P.encoder_produced_eos /\ h \in DOMAIN own
      /\ \A i \in 1..Len(D) : D[i].op # "ASK"
      /\ Half(P, Q, D, R, own, G, S, V, live) /\ Half(Q, P, R, D, G, own, W, X, FALSE)
      /\ live => Q.open
      /\ Q.open => h \in Q.decoder_unknown_hashes /\ None(R, "LEARN")
  BY Zenon DEF Answering, None
<1>2. AskOK(P, Q, D, R, own, G) /\ (live => Asked(P, D, R)) /\ D \in Seq(AnyMessage)
  BY <1>1, Zenon DEF Half
<1>3. HashOf[m.seg] = h /\ Known(own, m.seg)
  BY <1>1, Zenon DEF Known
<1>4. /\ Q \in PairRecord /\ R \in Seq(AnyMessage) /\ HelloOK(Q, P, R) /\ EosOK(Q, P, R)
      /\ AckOK(Q, P, R, W, X) /\ FinOK(Q, P, R) /\ AskOK(Q, P, R, D, G, own)
      /\ Waiting(Q) /\ (Q.open => Delivers(Q, P, R, own, W, X))
      /\ Q.decoder_frame_buffer \in Seq(Unit)
  BY <1>1, Zenon DEF Half, PairRecord
<1>5. CASE Q.open
  <2>0. Extended(R, R2, m)
    BY <1>5, Zenon DEF Sent
  <2>1. Half(P, Q, D, R2, own, G, S, V, live)
    <3>1. AskOK(P, Q, D, R2, own, G)
      BY <1>1, <1>2, Zenon DEF AskOK
    <3>2. live => Asked(P, D, R2)
      BY <1>2, <1>4, <2>0, ExtendAskedOther, Zenon
    <3> QED
      BY <1>1, <3>1, <3>2, Zenon DEF Half
  <2>2. HelloOK(Q, P, R2) /\ EosOK(Q, P, R2) /\ AckOK(Q, P, R2, W, X)
    BY <1>1, <1>4, <1>5, <2>0, ExtendHello, ExtendEos, ExtendAck, Zenon
  <2>3. FinOK(Q, P, R2)
    BY <1>1, <1>4, <1>5, <2>0, ExtendFin, Zenon DEF Answering
  <2>4. /\ \A i \in 1..Len(R) : i \in 1..Len(R2) /\ R2[i] = R[i]
        /\ \A i \in 1..Len(R2) : i \in 1..Len(R) \/ (i = Len(R) + 1 /\ R2[i] = m)
        /\ Len(R) + 1 \in 1..Len(R2) /\ R2[Len(R) + 1] = m
    BY <1>4, <2>0 DEF Extended
  <2>5. AskOK(Q, P, R2, D, G, own)
    <3>1. ASSUME NEW i \in 1..Len(R2), R2[i].op = "ASK"
          PROVE  /\ Q.encoder # NoUuid /\ R2[i].hash \in DOMAIN G /\ Once(R2, i)
                 /\ P.open => R2[i].hash \in P.decoder_unknown_hashes /\ None(D, "LEARN")
      <4>1. i \in 1..Len(R) /\ R2[i] = R[i]
        BY <2>4, <3>1, Zenon
      <4> QED
        BY <1>4, <2>4, <3>1, <4>1, Zenon DEF AskOK, Once
    <3>2. ASSUME NEW i \in 1..Len(R2), R2[i].op = "LEARN"
          PROVE  /\ HashOf[R2[i].seg] \in Q.decoder_unknown_hashes /\ Once(R2, i)
                 /\ Known(own, R2[i].seg)
      <4>1. \A j \in 1..Len(R2) : R2[j].op = "LEARN" => j = Len(R) + 1 /\ R2[j] = m
        BY <1>1, <1>5, <2>4, Zenon DEF None
      <4>2. Once(R2, i) /\ R2[i] = m
        BY <3>2, <4>1, Zenon DEF Once
      <4> QED
        BY <1>1, <1>3, <1>5, <4>2, Zenon
    <3> QED
      BY <3>1, <3>2, Zenon DEF AskOK
  <2>6. Asked(Q, R2, D)
    <3>1. Q.decoder_unknown_hashes = {h}
      BY <1>1, <1>4, <1>5, Zenon DEF Waiting
    <3> QED
      BY <1>3, <2>4, <3>1, Zenon DEF Asked
  <2>7. Delivers(Q, P, R2, own, W, X)
    BY <1>4, <1>5, <2>0, ExtendDelivers, Zenon
  <2>8. Half(Q, P, R2, D, G, own, W, X, live)
    BY <1>1, <1>5, <2>2, <2>3, <2>5, <2>6, <2>7, Zenon DEF Half
  <2> QED
    BY <2>1, <2>8, Zenon DEF Link
<1>6. CASE ~Q.open
  <2>1. R2 = R /\ ~live
    BY <1>1, <1>6, Zenon DEF Sent
  <2>2. Half(Q, P, R, D, G, own, W, X, live)
    BY <1>1, <2>1, Zenon DEF Half
  <2> QED
    BY <1>1, <2>1, <2>2, Zenon DEF Link
<1> QED
  BY <1>5, <1>6, Zenon

\* <EOS_ACK> is sent once, when everything has been delivered.
LEMMA SendEosAck ==
  ASSUME LinkRules, NEW P, NEW Q, NEW C, NEW R, NEW own, NEW G, NEW S, NEW V, NEW W, NEW X,
         NEW live, NEW R2 \in Seq(AnyMessage), NEW m, NEW P2,
         Link(P, Q, C, R, own, G, S, V, W, X, live), P.open, NotDone(P),
         P.decoder_frame_buffer = <<>>, P.decoder_received_eos, ~P.encoder_sent_eos_ack,
         Answers(P, P2, P.decoder_sent_eos, TRUE, P.encoder_produced_eos),
         m.op = "EOS_ACK", Sent(Q, R, R2, m)
  PROVE  /\ ~P.encoder_produced_eos
         /\ Link(P2, Q, C, R2, own, G, S, V, W, X, live)
<1>1. Half(P, Q, C, R, own, G, S, V, live) /\ Half(Q, P, R, C, G, own, W, X, live)
  BY Zenon DEF Link
<1>2. /\ P \in PairRecord /\ C \in Seq(AnyMessage) /\ HelloOK(P, Q, C) /\ EosOK(P, Q, C)
      /\ AckOK(P, Q, C, S, V) /\ FinOK(P, Q, C) /\ AskOK(P, Q, C, R, own, G)
      /\ (live => Asked(P, C, R)) /\ Delivers(P, Q, C, G, S, V) /\ Waiting(P)
  BY <1>1, Zenon DEF Half
<1>3. /\ Q \in PairRecord /\ R \in Seq(AnyMessage) /\ HelloOK(Q, P, R) /\ EosOK(Q, P, R)
      /\ AckOK(Q, P, R, W, X) /\ FinOK(Q, P, R) /\ AskOK(Q, P, R, C, G, own)
      /\ (live => Asked(Q, R, C)) /\ (Q.open => Delivers(Q, P, R, own, W, X))
      /\ Q.decoder_frame_buffer \in Seq(Unit) /\ (live => Q.open)
  BY <1>1, Zenon DEF Half, PairRecord
<1>4. ~P.encoder_produced_eos
  BY <1>2, Zenon DEF AckOK
<1>5. V = S
  BY <1>2 DEF EosOK, LinkRules, DecodesAll
<1>6. P.decoder_unknown_hashes = {} /\ None(R, "ASK")
  <2>1. P.decoder_unknown_hashes = {}
    BY <1>2 DEF Waiting
  <2> QED
    BY <1>3, <2>1, Zenon DEF AskOK, None
<1>7. ~Q.decoder_received_eos_ack /\ None(R, "EOS_ACK")
  BY <1>3, Zenon DEF AckOK, None
<1>8. CASE Q.open
  <2>0. Extended(R, R2, m)
    BY <1>8, Zenon DEF Sent
  <2>1. /\ \A i \in 1..Len(R) : i \in 1..Len(R2) /\ R2[i] = R[i]
        /\ \A i \in 1..Len(R2) : i \in 1..Len(R) \/ (i = Len(R) + 1 /\ R2[i] = m)
    BY <1>3, <2>0 DEF Extended
  <2>2. HelloOK(P2, Q, C) /\ Waiting(P2)
    BY <1>2, Zenon DEF HelloOK, Waiting, Answers
  <2>3. EosOK(P2, Q, C) /\ FinOK(P2, Q, C)
    BY <1>2, Zenon DEF EosOK, FinOK, Answers
  <2>4. AckOK(P2, Q, C, S, V)
    BY <1>2, <1>4, <1>5, Zenon DEF AckOK, Answers
  <2>5. AskOK(P2, Q, C, R2, own, G)
    <3>1. None(R, "LEARN") => None(R2, "LEARN")
      BY <2>1, Zenon DEF None
    <3> QED
      BY <1>2, <3>1, Zenon DEF AskOK, Answers
  <2>6. live => Asked(P2, C, R2)
    BY <1>6, Zenon DEF Asked, Answers
  <2>7. Delivers(P2, Q, C, G, S, V)
    BY <1>2, Zenon DEF Delivers, Carries, Answers
  <2>8. Half(P2, Q, C, R2, own, G, S, V, live)
    BY <1>1, <2>2, <2>3, <2>4, <2>5, <2>6, <2>7, Zenon DEF Half, Answers
  <2>9. HelloOK(Q, P2, R2)
    <3>1. HelloOK(Q, P, R2)
      BY <1>3, <2>0, ExtendHello, Zenon
    <3> QED
      BY <3>1, Zenon DEF HelloOK, Answers
  <2>10. EosOK(Q, P2, R2)
    <3>1. EosOK(Q, P, R2)
      BY <1>3, <2>0, ExtendEos, Zenon
    <3> QED
      BY <3>1, Zenon DEF EosOK, Answers
  <2>11. AckOK(Q, P2, R2, W, X)
    <3>1. \A i \in 1..Len(R2) : R2[i].op = "EOS_ACK" => i = Len(R) + 1
      BY <1>7, <2>1, Zenon DEF None
    <3>2. None(R2, "ASK")
      BY <1>6, <2>1, Zenon DEF None
    <3>3. P2.encoder_sent_eos_ack
      BY Zenon DEF Answers
    <3> QED
      BY <1>3, <1>7, <3>1, <3>2, <3>3, Zenon DEF AckOK, Once
  <2>12. FinOK(Q, P2, R2)
    <3>1. FinOK(Q, P, R2)
      BY <1>3, <1>4, <1>8, <2>0, ExtendFin, Zenon
    <3> QED
      BY <3>1, Zenon DEF FinOK, Answers
  <2>13. AskOK(Q, P2, R2, C, G, own)
    <3>1. AskOK(Q, P, R2, C, G, own)
      BY <1>3, <2>0, ExtendAsk, Zenon
    <3> QED
      BY <3>1, Zenon DEF AskOK, Answers
  <2>14. live => Asked(Q, R2, C)
    BY <1>3, <2>0, ExtendAsked, Zenon
  <2>15. Delivers(Q, P2, R2, own, W, X)
    <3>1. Delivers(Q, P, R2, own, W, X)
      BY <1>3, <1>8, <2>0, ExtendDelivers, Zenon
    <3> QED
      BY <3>1, Zenon DEF Delivers, Carries, Answers
  <2>16. Half(Q, P2, R2, C, G, own, W, X, live)
    BY <1>1, <2>9, <2>10, <2>11, <2>12, <2>13, <2>14, <2>15, Zenon DEF Half
  <2> QED
    BY <1>4, <2>8, <2>16, Zenon DEF Link
<1>9. CASE ~Q.open
  <2>1. R2 = R
    BY <1>9, Zenon DEF Sent
  <2>2. ~live
    BY <1>3, <1>9, Zenon
  <2>3. HelloOK(P2, Q, C) /\ Waiting(P2)
    BY <1>2, Zenon DEF HelloOK, Waiting, Answers
  <2>4. EosOK(P2, Q, C) /\ FinOK(P2, Q, C)
    BY <1>2, Zenon DEF EosOK, FinOK, Answers
  <2>5. AckOK(P2, Q, C, S, V)
    BY <1>2, <1>4, <1>5, Zenon DEF AckOK, Answers
  <2>6. AskOK(P2, Q, C, R2, own, G)
    BY <1>2, <2>1, Zenon DEF AskOK, Answers
  <2>7. Delivers(P2, Q, C, G, S, V)
    BY <1>2, Zenon DEF Delivers, Carries, Answers
  <2>8. Half(P2, Q, C, R2, own, G, S, V, live)
    BY <1>1, <2>2, <2>3, <2>4, <2>5, <2>6, <2>7, Zenon DEF Half, Answers
  <2>9. HelloOK(Q, P2, R) /\ EosOK(Q, P2, R)
    BY <1>3, Zenon DEF HelloOK, EosOK, Answers
  <2>10. AckOK(Q, P2, R, W, X)
    BY <1>3, <1>6, Zenon DEF AckOK, Answers
  <2>11. FinOK(Q, P2, R) /\ AskOK(Q, P2, R, C, G, own)
    BY <1>3, Zenon DEF FinOK, AskOK, Answers
  <2>12. Half(Q, P2, R2, C, G, own, W, X, live)
    BY <1>1, <1>9, <2>1, <2>2, <2>9, <2>10, <2>11, Zenon DEF Half
  <2> QED
    BY <1>4, <2>8, <2>12, Zenon DEF Link
<1> QED
  BY <1>8, <1>9, Zenon

\* Decoding frame data leaves both ends as they should be, when what is not
\* known is asked for.
LEMMA DecodedLink ==
  ASSUME NEW P, NEW Q, NEW C, NEW R, NEW own, NEW G, NEW S, NEW V, NEW W, NEW X,
         NEW live, NEW R2 \in Seq(AnyMessage), NEW P2, NEW window, NEW rest, NEW unknown,
         NEW output \in Seq(Segment),
         Link(P, Q, C, R, own, G, S, V, W, X, live), P.open,
         P.decoder_frame_buffer # <<>>, P.decoder_unknown_hashes = {},
         Receives(P, P2, P.decoder, window, unknown, rest, P.decoder_received_eos,
                  P.decoder_received_eos_ack, P.decoder_sent_eos),
         Waiting(P2), Delivers(P2, Q, C, G, S, V \o output),
         \/ unknown = {} /\ R2 = R
         \/ \E h \in DOMAIN G : \E m :
              unknown = {h} /\ m.op = "ASK" /\ m.hash = h /\ Sent(Q, R, R2, m)
  PROVE  Link(P2, Q, C, R2, own, G, S, V \o output, W, X, live)
<1>1. Half(P, Q, C, R, own, G, S, V, live) /\ Half(Q, P, R, C, G, own, W, X, live)
  BY Zenon DEF Link
<1>2. /\ P \in PairRecord /\ C \in Seq(AnyMessage) /\ HelloOK(P, Q, C) /\ EosOK(P, Q, C)
      /\ AckOK(P, Q, C, S, V) /\ FinOK(P, Q, C) /\ AskOK(P, Q, C, R, own, G)
      /\ Waiting(P) /\ V \in Seq(Segment) /\ own \in MapOf(Hash, Segment)
      /\ (live => P.open)
  BY <1>1, Zenon DEF Half
<1>3. /\ Q \in PairRecord /\ R \in Seq(AnyMessage) /\ HelloOK(Q, P, R) /\ EosOK(Q, P, R)
      /\ AckOK(Q, P, R, W, X) /\ FinOK(Q, P, R) /\ AskOK(Q, P, R, C, G, own)
      /\ (live => Asked(Q, R, C)) /\ (Q.open => Delivers(Q, P, R, own, W, X))
      /\ Q.decoder_frame_buffer \in Seq(Unit) /\ (live => Q.open)
  BY <1>1, Zenon DEF Half, PairRecord
<1>4. ~P.encoder_sent_eos_ack /\ ~P.encoder_produced_eos
  BY <1>2, Zenon DEF AckOK
<1>5. None(C, "LEARN") /\ None(R, "ASK")
  BY <1>2, <1>3, Zenon DEF AskOK, None
<1>6. Q.encoder # NoUuid
  BY <1>2, Zenon DEF HelloOK, Waiting
<1>7. /\ P2 \in PairRecord /\ SameEncoder(P, P2) /\ P2.decoder = P.decoder
      /\ P2.decoder_received_eos = P.decoder_received_eos
      /\ P2.decoder_received_eos_ack = P.decoder_received_eos_ack
      /\ P2.decoder_sent_eos = P.decoder_sent_eos /\ P2.decoder_unknown_hashes = unknown
  BY Zenon DEF Receives
<1>8. HelloOK(P2, Q, C) /\ EosOK(P2, Q, C)
  BY <1>2, <1>7, Zenon DEF HelloOK, EosOK, SameEncoder
<1>9. AckOK(P2, Q, C, S, V \o output)
  BY <1>2, <1>4, <1>7, Zenon DEF AckOK, SameEncoder
<1>10. FinOK(P2, Q, C)
  BY <1>2, <1>7, Zenon DEF FinOK, SameEncoder
<1>11. V \o output \in Seq(Segment)
  BY <1>2
<1>12. AskOK(P2, Q, C, R2, own, G) /\ (live => Asked(P2, C, R2))
       => Half(P2, Q, C, R2, own, G, S, V \o output, live)
  BY <1>2, <1>7, <1>8, <1>9, <1>10, <1>11, Zenon DEF Half, SameEncoder
<1>13. HelloOK(Q, P2, R) /\ EosOK(Q, P2, R) /\ FinOK(Q, P2, R)
  <2>1. HelloOK(Q, P2, R)
    BY <1>3, <1>7, Zenon DEF HelloOK, SameEncoder
  <2>2. EosOK(Q, P2, R)
    BY <1>3, <1>7, Zenon DEF EosOK, SameEncoder
  <2>3. FinOK(Q, P2, R)
    BY <1>3, <1>7, Zenon DEF FinOK, SameEncoder
  <2> QED
    BY <2>1, <2>2, <2>3, Zenon
<1>14. AckOK(Q, P2, R, W, X) /\ (Q.open => Delivers(Q, P2, R, own, W, X))
  <2>1. AckOK(Q, P2, R, W, X)
    BY <1>3, <1>7, Zenon DEF AckOK, SameEncoder
  <2>2. Q.open => Delivers(Q, P2, R, own, W, X)
    <3>1. P2.open = P.open /\ P2.encoder_window = P.encoder_window
      BY <1>7, Zenon DEF SameEncoder
    <3> QED
      BY <1>3, <3>1, Zenon DEF Delivers, Carries
  <2> QED
    BY <2>1, <2>2, Zenon
<1>15. AskOK(Q, P2, R, C, G, own) => Half(Q, P2, R, C, G, own, W, X, live)
  BY <1>1, <1>3, <1>13, <1>14, Zenon DEF Half
<1>16. CASE unknown = {} /\ R2 = R
  <2>1. AskOK(P2, Q, C, R2, own, G) /\ (live => Asked(P2, C, R2))
    BY <1>2, <1>7, <1>16, Zenon DEF AskOK, Asked, SameEncoder
  <2>2. AskOK(Q, P2, R, C, G, own)
    BY <1>3, <1>7, <1>16, Zenon DEF AskOK, SameEncoder
  <2> QED
    BY <1>12, <1>16, <1>15, <2>1, <2>2, Zenon DEF Link
<1>17. CASE \E h \in DOMAIN G : \E m :
              unknown = {h} /\ m.op = "ASK" /\ m.hash = h /\ Sent(Q, R, R2, m)
  <2> PICK h \in DOMAIN G : \E m :
              unknown = {h} /\ m.op = "ASK" /\ m.hash = h /\ Sent(Q, R, R2, m)
    BY <1>17, Zenon
  <2>0. PICK m : unknown = {h} /\ m.op = "ASK" /\ m.hash = h /\ Sent(Q, R, R2, m)
    OBVIOUS
  <2>1. CASE Q.open
    <3>0. Extended(R, R2, m)
      BY <2>0, <2>1, Zenon DEF Sent
    <3>1. /\ \A i \in 1..Len(R) : i \in 1..Len(R2) /\ R2[i] = R[i]
          /\ \A i \in 1..Len(R2) : i \in 1..Len(R) \/ (i = Len(R) + 1 /\ R2[i] = m)
          /\ Len(R) + 1 \in 1..Len(R2) /\ R2[Len(R) + 1] = m
      BY <1>3, <3>0 DEF Extended
    <3>2. AskOK(P2, Q, C, R2, own, G)
      <4>1. None(R, "LEARN") => None(R2, "LEARN")
        BY <2>0, <3>1, Zenon DEF None
      <4> QED
        BY <1>2, <1>5, <1>7, <4>1, Zenon DEF AskOK, None, SameEncoder
    <3>3. Asked(P2, C, R2)
      BY <1>7, <2>0, <3>1, Zenon DEF Asked
    <3>4. AskOK(Q, P2, R2, C, G, own)
      <4>1. ASSUME NEW i \in 1..Len(R2), R2[i].op = "ASK"
            PROVE  /\ Q.encoder # NoUuid /\ R2[i].hash \in DOMAIN G /\ Once(R2, i)
                   /\ P2.open => R2[i].hash \in P2.decoder_unknown_hashes /\ None(C, "LEARN")
        <5>1. \A j \in 1..Len(R2) : R2[j].op = "ASK" => j = Len(R) + 1 /\ R2[j] = m
          BY <1>5, <3>1, Zenon DEF None
        <5>2. Once(R2, i) /\ R2[i] = m
          BY <4>1, <5>1, Zenon DEF Once
        <5> QED
          BY <1>5, <1>6, <1>7, <2>0, <5>2, Zenon
      <4>2. ASSUME NEW i \in 1..Len(R2), R2[i].op = "LEARN"
            PROVE  /\ HashOf[R2[i].seg] \in Q.decoder_unknown_hashes /\ Once(R2, i)
                   /\ Known(own, R2[i].seg)
        <5>1. i \in 1..Len(R) /\ R2[i] = R[i]
          BY <2>0, <3>1, <4>2, Zenon
        <5>2. \A j \in 1..Len(R2) : R2[j].op = "LEARN" => j \in 1..Len(R) /\ R2[j] = R[j]
          BY <2>0, <3>1, Zenon
        <5>3. /\ HashOf[R[i].seg] \in Q.decoder_unknown_hashes /\ Once(R, i)
              /\ Known(own, R[i].seg)
          BY <1>3, <4>2, <5>1, Zenon DEF AskOK
        <5> QED
          BY <4>2, <5>1, <5>2, <5>3, Zenon DEF Once
      <4> QED
        BY <4>1, <4>2, Zenon DEF AskOK
    <3>5. live => Asked(Q, R2, C)
      BY <1>3, <3>0, ExtendAsked, Zenon
    <3>6. HelloOK(Q, P2, R2) /\ EosOK(Q, P2, R2)
      BY <1>3, <1>13, <2>0, <3>0, ExtendHello, ExtendEos, Zenon
    <3>7. AckOK(Q, P2, R2, W, X)
      BY <1>3, <1>4, <1>7, <1>14, <2>0, <3>0, ExtendAck, Zenon DEF SameEncoder
    <3>8. FinOK(Q, P2, R2)
      BY <1>3, <1>4, <1>7, <1>13, <2>0, <2>1, <3>0, ExtendFin, Zenon DEF SameEncoder
    <3>9. Delivers(Q, P2, R2, own, W, X)
      BY <1>3, <1>14, <2>0, <2>1, <3>0, ExtendDelivers, Zenon
    <3>10. Half(Q, P2, R2, C, G, own, W, X, live)
      BY <1>1, <3>4, <3>5, <3>6, <3>7, <3>8, <3>9, Zenon DEF Half
    <3> QED
      BY <1>12, <3>2, <3>3, <3>10, Zenon DEF Link
  <2>2. CASE ~Q.open
    <3>1. R2 = R /\ ~live
      BY <1>3, <2>0, <2>2, Zenon DEF Sent
    <3>2. AskOK(P2, Q, C, R2, own, G)
      BY <1>2, <1>5, <1>7, <3>1, Zenon DEF AskOK, None, SameEncoder
    <3>3. AskOK(Q, P2, R, C, G, own)
      BY <1>3, <1>5, <1>7, Zenon DEF AskOK, None, SameEncoder
    <3> QED
      BY <1>12, <1>15, <3>1, <3>2, <3>3, Zenon DEF Link
  <2> QED
    BY <2>1, <2>2, Zenon
<1> QED
  BY <1>16, <1>17, Zenon

\* The encoder's channel is shut down once.
LEMMA ShutDown ==
  ASSUME NEW P, NEW Q, NEW C, NEW R, NEW own, NEW G, NEW S, NEW V, NEW W, NEW X,
         NEW live, NEW R2 \in Seq(AnyMessage), NEW m, NEW P2,
         Link(P, Q, C, R, own, G, S, V, W, X, live), P.open,
         P.encoder_sent_eos_ack, P.decoder_received_eos_ack, ~P.encoder_produced_eos,
         Answers(P, P2, P.decoder_sent_eos, P.encoder_sent_eos_ack, TRUE),
         m.op = "FIN", Sent(Q, R, R2, m)
  PROVE  P.decoder_frame_buffer = <<>> /\ Link(P2, Q, C, R2, own, G, S, V, W, X, live)
<1>1. Half(P, Q, C, R, own, G, S, V, live) /\ Half(Q, P, R, C, G, own, W, X, live)
  BY Zenon DEF Link
<1>2. /\ P \in PairRecord /\ C \in Seq(AnyMessage) /\ HelloOK(P, Q, C) /\ EosOK(P, Q, C)
      /\ AckOK(P, Q, C, S, V) /\ FinOK(P, Q, C) /\ AskOK(P, Q, C, R, own, G)
      /\ (live => Asked(P, C, R)) /\ Delivers(P, Q, C, G, S, V) /\ Waiting(P)
  BY <1>1, Zenon DEF Half
<1>3. /\ Q \in PairRecord /\ R \in Seq(AnyMessage) /\ HelloOK(Q, P, R) /\ EosOK(Q, P, R)
      /\ AckOK(Q, P, R, W, X) /\ FinOK(Q, P, R) /\ AskOK(Q, P, R, C, G, own)
      /\ (live => Asked(Q, R, C)) /\ (Q.open => Delivers(Q, P, R, own, W, X))
      /\ Q.decoder_frame_buffer \in Seq(Unit) /\ (live => Q.open)
  BY <1>1, Zenon DEF Half, PairRecord
<1>4. P.decoder_frame_buffer = <<>> /\ P.decoder_unknown_hashes = {}
  BY <1>2 DEF AckOK, Waiting
<1>5. HelloOK(P2, Q, C) /\ EosOK(P2, Q, C) /\ AckOK(P2, Q, C, S, V) /\ Waiting(P2)
  BY <1>2, Zenon DEF HelloOK, EosOK, AckOK, Waiting, Answers
<1>6. FinOK(P2, Q, C)
  BY <1>2, Zenon DEF FinOK, Answers
<1>7. Delivers(P2, Q, C, G, S, V)
  BY <1>2, Zenon DEF Delivers, Carries, Answers
<1>8. live => Asked(P2, C, R2)
  BY <1>4, Zenon DEF Asked, Answers
<1>9. AskOK(P2, Q, C, R2, own, G) => Half(P2, Q, C, R2, own, G, S, V, live)
  BY <1>1, <1>5, <1>6, <1>7, <1>8, Zenon DEF Half, Answers
<1>10. CASE Q.open
  <2>0. Extended(R, R2, m)
    BY <1>10, Zenon DEF Sent
  <2>1. /\ \A i \in 1..Len(R) : i \in 1..Len(R2) /\ R2[i] = R[i]
        /\ \A i \in 1..Len(R2) : i \in 1..Len(R) \/ (i = Len(R) + 1 /\ R2[i] = m)
        /\ Len(R2) = Len(R) + 1
    BY <1>3, <2>0 DEF Extended
  <2>2. AskOK(P2, Q, C, R2, own, G)
    <3>1. None(R, "LEARN") => None(R2, "LEARN")
      BY <2>1, Zenon DEF None
    <3> QED
      BY <1>2, <3>1, Zenon DEF AskOK, Answers
  <2>3. HelloOK(Q, P, R2) /\ EosOK(Q, P, R2)
    BY <1>3, <2>0, ExtendHello, ExtendEos, Zenon
  <2>4. AckOK(Q, P, R2, W, X)
    BY <1>3, <2>0, ExtendAck, Zenon
  <2>5. AskOK(Q, P, R2, C, G, own) /\ (live => Asked(Q, R2, C))
    BY <1>3, <2>0, ExtendAsk, ExtendAsked, Zenon
  <2>6. Delivers(Q, P, R2, own, W, X)
    BY <1>3, <1>10, <2>0, ExtendDelivers, Zenon
  <2>7. HelloOK(Q, P2, R2) /\ EosOK(Q, P2, R2) /\ AckOK(Q, P2, R2, W, X)
        /\ AskOK(Q, P2, R2, C, G, own)
    BY <2>3, <2>4, <2>5, Zenon DEF HelloOK, EosOK, AckOK, AskOK, Answers
  <2>8. FinOK(Q, P2, R2)
    <3>1. \A i \in 1..Len(R2) : R2[i].op = "FIN" => i = Len(R2)
      BY <1>3, <2>1, Zenon DEF FinOK
    <3>2. P2.encoder_produced_eos
      BY Zenon DEF Answers
    <3> QED
      BY <1>3, <1>10, <3>1, <3>2, Zenon DEF FinOK
  <2>9. Delivers(Q, P2, R2, own, W, X)
    BY <2>6, Zenon DEF Delivers, Carries, Answers
  <2>10. Half(Q, P2, R2, C, G, own, W, X, live)
    BY <1>1, <2>5, <2>7, <2>8, <2>9, Zenon DEF Half
  <2> QED
    BY <1>4, <1>9, <2>2, <2>10, Zenon DEF Link
<1>11. CASE ~Q.open
  <2>1. R2 = R /\ ~live
    BY <1>3, <1>11, Zenon DEF Sent
  <2>2. AskOK(P2, Q, C, R2, own, G)
    BY <1>2, <2>1, Zenon DEF AskOK, Answers
  <2>3. HelloOK(Q, P2, R) /\ EosOK(Q, P2, R) /\ AckOK(Q, P2, R, W, X)
        /\ AskOK(Q, P2, R, C, G, own)
    BY <1>3, Zenon DEF HelloOK, EosOK, AckOK, AskOK, Answers
  <2>4. FinOK(Q, P2, R)
    BY <1>3, <1>11, Zenon DEF FinOK
  <2>5. Half(Q, P2, R2, C, G, own, W, X, live)
    BY <1>1, <1>11, <2>1, <2>3, <2>4, Zenon DEF Half
  <2> QED
    BY <1>4, <1>9, <2>2, <2>5, Zenon DEF Link
<1> QED
  BY <1>10, <1>11, Zenon

\* Before <EOS> is sent the channel is not shut down, nor <EOS> received.
LEMMA NotShutDown ==
  ASSUME NEW P, NEW Q, NEW C, NEW R, NEW own, NEW G, NEW S, NEW V, NEW W, NEW X,
         NEW live, Link(P, Q, C, R, own, G, S, V, W, X, live), ~P.encoder_sent_eos
  PROVE  /\ ~P.encoder_produced_eos /\ ~P.decoder_received_eos_ack
         /\ ~Q.decoder_received_eos /\ ~Q.encoder_sent_eos_ack
  BY Zenon DEF Link, Half, AckOK, EosOK

\* What the encoder does does not matter to what its own end receives.
LEMMA OwnEnd ==
  ASSUME NEW P, NEW Q, NEW C, NEW R, NEW own, NEW G, NEW S, NEW V, NEW live, NEW R2,
         NEW P2, NEW encoder, NEW window, NEW eos,
         Half(P, Q, C, R, own, G, S, V, live), Encodes(P, P2, encoder, window, eos),
         encoder = P.encoder \/ P.encoder = NoUuid, eos => encoder # NoUuid,
         AskOK(P2, Q, C, R2, own, G), live => Asked(P2, C, R2)
  PROVE  Half(P2, Q, C, R2, own, G, S, V, live)
<1>1. P.open => Delivers(P2, Q, C, G, S, V)
  BY Zenon DEF Half, Delivers, Carries, Encodes
<1>2. HelloOK(P2, Q, C)
  BY Zenon DEF Half, HelloOK, Encodes
<1>3. EosOK(P2, Q, C)
  BY Zenon DEF Half, EosOK, Encodes
<1>4. AckOK(P2, Q, C, S, V)
  BY Zenon DEF Half, AckOK, Encodes
<1>5. FinOK(P2, Q, C) /\ Waiting(P2)
  BY Zenon DEF Half, FinOK, Waiting, Encodes
<1> QED
  BY <1>1, <1>2, <1>3, <1>4, <1>5, Zenon DEF Half, Encodes

\* Nothing is sent to an end that is gone.
LEMMA ClosedEnd ==
  ASSUME NEW P, NEW Q, NEW C, NEW R, NEW own, NEW G, NEW W, NEW X, NEW live, NEW W2,
         NEW P2, NEW encoder, NEW window, NEW eos,
         Half(Q, P, R, C, G, own, W, X, live), Encodes(P, P2, encoder, window, eos),
         ~Q.open, ~Q.encoder_sent_eos_ack, ~Q.decoder_received_eos
  PROVE  Half(Q, P2, R, C, G, own, W2, X, live)
<1>1. R = <<>>
  BY Zenon DEF Half, FinOK
<1>2. HelloOK(Q, P2, R) /\ FinOK(Q, P2, R) /\ AskOK(Q, P2, R, C, G, own)
  BY <1>1 DEF HelloOK, FinOK, AskOK
<1>3. EosOK(Q, P2, R)
  BY <1>1 DEF EosOK, Half
<1>4. AckOK(Q, P2, R, W2, X)
  BY <1>1, Zenon DEF AckOK, Half, Encodes, None
<1> QED
  BY <1>1, <1>2, <1>3, <1>4, Zenon DEF Half

\* The first thing a client writes is preceded by <HELLO>.
LEMMA SendHello ==
  ASSUME NEW P, NEW Q, NEW C, NEW R, NEW own, NEW G, NEW S, NEW V, NEW W, NEW X,
         NEW live, NEW R2 \in Seq(AnyMessage), NEW m, NEW P2,
         Link(P, Q, C, R, own, G, S, V, W, X, live), P.open, ~P.encoder_sent_eos,
         P.encoder = NoUuid, m.op = "HELLO", m.uuid # NoUuid,
         Encodes(P, P2, m.uuid, P.encoder_window, FALSE), Sent(Q, R, R2, m)
  PROVE  Link(P2, Q, C, R2, own, G, S, V, W, X, live)
<1>1. /\ Half(P, Q, C, R, own, G, S, V, live) /\ Half(Q, P, R, C, G, own, W, X, live)
      /\ R \in Seq(AnyMessage) /\ Q \in PairRecord
  BY Zenon DEF Link, Half
<1>2. /\ ~P.encoder_produced_eos /\ ~Q.decoder_received_eos /\ ~Q.encoder_sent_eos_ack
  BY NotShutDown, Zenon
<1>3. CASE ~Q.open
  <2>1. R2 = R
    BY <1>3, Zenon DEF Sent
  <2>2. Half(Q, P2, R, C, G, own, W, X, live)
    BY <1>1, <1>2, <1>3, ClosedEnd, Zenon
  <2>3. AskOK(P2, Q, C, R, own, G)
    BY <1>1, Zenon DEF Half, AskOK, Encodes
  <2>4. live => Asked(P2, C, R)
    BY <1>1, Zenon DEF Half, Asked, Encodes
  <2>5. Half(P2, Q, C, R, own, G, S, V, live)
    BY <1>1, <2>3, <2>4, OwnEnd, Zenon
  <2> QED
    BY <2>1, <2>2, <2>5, Zenon DEF Link
<1>4. CASE Q.open
  <2>1. Extended(R, R2, m)
    BY <1>4, Zenon DEF Sent
  <2>2. AskOK(P, Q, C, R2, own, G)
    <3>1. AskOK(P, Q, C, R, own, G)
      BY <1>1, Zenon DEF Half
    <3> QED
      BY <1>1, <2>1, <3>1, ExtendAskOther, Zenon
  <2>3. AskOK(P2, Q, C, R2, own, G)
    BY <2>2, Zenon DEF AskOK, Encodes
  <2>4. live => Asked(P2, C, R2)
    <3>1. live => Asked(P, C, R2)
      BY <1>1, <2>1, ExtendAskedOther, Zenon DEF Half
    <3> QED
      BY <3>1, Zenon DEF Asked, Encodes
  <2>5. Half(P2, Q, C, R2, own, G, S, V, live)
    BY <1>1, <2>3, <2>4, OwnEnd, Zenon
  <2>6. HelloOK(Q, P2, R2)
    <3>1. Q.decoder = NoUuid
      BY <1>1, <1>4, Zenon DEF Half, HelloOK
    <3>2. \A i \in 1..Len(R) : R[i].op \notin {"HELLO", "FRAME", "LEARN", "EOS"}
      BY <1>1, <3>1, Zenon DEF Half, HelloOK
    <3>3. \A i \in 1..Len(R2) : \/ i \in 1..Len(R) /\ R2[i] = R[i]
                                \/ i = Len(R) + 1 /\ R2[i] = m
      BY <1>1, <2>1 DEF Extended
    <3>4. Len(R) + 1 \in 1..Len(R2) /\ R2[Len(R) + 1] = m
      BY <1>1, <2>1 DEF Extended
    <3>5. P2.encoder = m.uuid
      BY Zenon DEF Encodes
    <3> QED
      BY <3>1, <3>2, <3>3, <3>4, <3>5, Zenon DEF HelloOK, Once
  <2>7. EosOK(Q, P2, R2)
    <3>1. EosOK(Q, P, R)
      BY <1>1, Zenon DEF Half
    <3>2. EosOK(Q, P, R2)
      BY <1>1, <2>1, <3>1, ExtendEos, Zenon
    <3> QED
      BY <1>2, <3>2, Zenon DEF EosOK
  <2>8. AckOK(Q, P2, R2, W, X)
    <3>1. AckOK(Q, P, R, W, X)
      BY <1>1, Zenon DEF Half
    <3>2. AckOK(Q, P, R2, W, X)
      BY <1>1, <2>1, <3>1, ExtendAck, Zenon
    <3> QED
      BY <3>2, Zenon DEF AckOK, Encodes
  <2>9. FinOK(Q, P2, R2)
    <3>1. FinOK(Q, P, R)
      BY <1>1, Zenon DEF Half
    <3>2. FinOK(Q, P, R2)
      BY <1>1, <1>2, <1>4, <2>1, <3>1, ExtendFin, Zenon
    <3> QED
      BY <3>2, Zenon DEF FinOK, Encodes
  <2>10. AskOK(Q, P2, R2, C, G, own)
    <3>1. AskOK(Q, P, R, C, G, own)
      BY <1>1, Zenon DEF Half
    <3>2. AskOK(Q, P, R2, C, G, own)
      BY <1>1, <2>1, <3>1, ExtendAsk, Zenon
    <3> QED
      BY <3>2, Zenon DEF AskOK, Encodes
  <2>11. live => Asked(Q, R2, C)
    BY <1>1, <2>1, ExtendAsked, Zenon DEF Half
  <2>12. Delivers(Q, P2, R2, own, W, X)
    <3>1. Delivers(Q, P, R, own, W, X) /\ Q.decoder_frame_buffer \in Seq(Unit)
      BY <1>1, <1>4, Zenon DEF Half, PairRecord
    <3>2. Delivers(Q, P, R2, own, W, X)
      BY <1>1, <2>1, <3>1, ExtendDelivers, Zenon
    <3> QED
      BY <3>2, Zenon DEF Delivers, Carries, Encodes
  <2>13. Half(Q, P2, R2, C, G, own, W, X, live)
    BY <1>1, <2>6, <2>7, <2>8, <2>9, <2>10, <2>11, <2>12, Zenon DEF Half
  <2> QED
    BY <2>5, <2>13, Zenon DEF Link
<1> QED
  BY <1>3, <1>4, Zenon

\* A client that closes sends <EOS>.
LEMMA SendEos ==
  ASSUME NEW P, NEW Q, NEW C, NEW R, NEW own, NEW G, NEW S, NEW V, NEW W, NEW X,
         NEW live, NEW R2 \in Seq(AnyMessage), NEW m, NEW P2,
         Link(P, Q, C, R, own, G, S, V, W, X, live), P.open, ~P.encoder_sent_eos,
         P.encoder # NoUuid, m.op = "EOS",
         Encodes(P, P2, P.encoder, P.encoder_window, TRUE), Sent(Q, R, R2, m)
  PROVE  Link(P2, Q, C, R2, own, G, S, V, W, X, live)
<1>1. /\ Half(P, Q, C, R, own, G, S, V, live) /\ Half(Q, P, R, C, G, own, W, X, live)
      /\ R \in Seq(AnyMessage) /\ Q \in PairRecord
  BY Zenon DEF Link, Half
<1>2. /\ ~P.encoder_produced_eos /\ ~Q.decoder_received_eos /\ ~Q.encoder_sent_eos_ack
  BY NotShutDown, Zenon
<1>3. CASE ~Q.open
  <2>1. R2 = R
    BY <1>3, Zenon DEF Sent
  <2>2. Half(Q, P2, R, C, G, own, W, X, live)
    BY <1>1, <1>2, <1>3, ClosedEnd, Zenon
  <2>3. AskOK(P2, Q, C, R, own, G)
    BY <1>1, Zenon DEF Half, AskOK, Encodes
  <2>4. live => Asked(P2, C, R)
    BY <1>1, Zenon DEF Half, Asked, Encodes
  <2>5. Half(P2, Q, C, R, own, G, S, V, live)
    BY <1>1, <2>3, <2>4, OwnEnd, Zenon
  <2> QED
    BY <2>1, <2>2, <2>5, Zenon DEF Link
<1>4. CASE Q.open
  <2>1. Extended(R, R2, m)
    BY <1>4, Zenon DEF Sent
  <2>2. AskOK(P, Q, C, R2, own, G)
    <3>1. AskOK(P, Q, C, R, own, G)
      BY <1>1, Zenon DEF Half
    <3> QED
      BY <1>1, <2>1, <3>1, ExtendAskOther, Zenon
  <2>3. AskOK(P2, Q, C, R2, own, G)
    BY <2>2, Zenon DEF AskOK, Encodes
  <2>4. live => Asked(P2, C, R2)
    <3>1. live => Asked(P, C, R2)
      BY <1>1, <2>1, ExtendAskedOther, Zenon DEF Half
    <3> QED
      BY <3>1, Zenon DEF Asked, Encodes
  <2>5. Half(P2, Q, C, R2, own, G, S, V, live)
    BY <1>1, <2>3, <2>4, OwnEnd, Zenon
  <2>6. HelloOK(Q, P2, R2)
    <3>1. HelloOK(Q, P, R)
      BY <1>1, Zenon DEF Half
    <3>2. HelloOK(Q, P, R2)
      BY <1>1, <1>4, <2>1, <3>1, ExtendHello, Zenon
    <3> QED
      BY <3>2, Zenon DEF HelloOK, Encodes
  <2>7. EosOK(Q, P2, R2)
    <3>1. EosOK(Q, P, R) /\ P2.encoder_sent_eos
      BY <1>1, Zenon DEF Half, Encodes
    <3>2. \A i \in 1..Len(R) : R[i].op # "EOS"
      BY <3>1, Zenon DEF EosOK
    <3>3. \A i \in 1..Len(R2) : \/ i \in 1..Len(R) /\ R2[i] = R[i]
                                \/ i = Len(R) + 1 /\ R2[i] = m
      BY <1>1, <2>1 DEF Extended
    <3>4. Len(R2) = Len(R) + 1 /\ Len(R) \in Nat
      BY <1>1, <2>1 DEF Extended
    <3> QED
      BY <1>2, <3>1, <3>2, <3>3, <3>4 DEF EosOK, Once
  <2>8. AckOK(Q, P2, R2, W, X)
    <3>1. AckOK(Q, P, R, W, X)
      BY <1>1, Zenon DEF Half
    <3>2. AckOK(Q, P, R2, W, X)
      BY <1>1, <2>1, <3>1, ExtendAck, Zenon
    <3> QED
      BY <3>2, Zenon DEF AckOK, Encodes
  <2>9. FinOK(Q, P2, R2)
    <3>1. FinOK(Q, P, R)
      BY <1>1, Zenon DEF Half
    <3>2. FinOK(Q, P, R2)
      BY <1>1, <1>2, <1>4, <2>1, <3>1, ExtendFin, Zenon
    <3> QED
      BY <3>2, Zenon DEF FinOK, Encodes
  <2>10. AskOK(Q, P2, R2, C, G, own)
    <3>1. AskOK(Q, P, R, C, G, own)
      BY <1>1, Zenon DEF Half
    <3>2. AskOK(Q, P, R2, C, G, own)
      BY <1>1, <2>1, <3>1, ExtendAsk, Zenon
    <3> QED
      BY <3>2, Zenon DEF AskOK, Encodes
  <2>11. live => Asked(Q, R2, C)
    BY <1>1, <2>1, ExtendAsked, Zenon DEF Half
  <2>12. Delivers(Q, P2, R2, own, W, X)
    <3>1. Delivers(Q, P, R, own, W, X) /\ Q.decoder_frame_buffer \in Seq(Unit)
      BY <1>1, <1>4, Zenon DEF Half, PairRecord
    <3>2. Delivers(Q, P, R2, own, W, X)
      BY <1>1, <2>1, <3>1, ExtendDelivers, Zenon
    <3> QED
      BY <3>2, Zenon DEF Delivers, Carries, Encodes
  <2>13. Half(Q, P2, R2, C, G, own, W, X, live)
    BY <1>1, <2>6, <2>7, <2>8, <2>9, <2>10, <2>11, <2>12, Zenon DEF Half
  <2> QED
    BY <2>5, <2>13, Zenon DEF Link
<1> QED
  BY <1>3, <1>4, Zenon

\* Caches may grow: other connections of the same processes use them too.
LEMMA CachesGrow ==
  ASSUME LinkRules, NEW P, NEW Q, NEW C, NEW R, NEW own, NEW G, NEW S, NEW V, NEW live,
         NEW own2 \in MapOf(Hash, Segment), NEW G2,
         SubMap(own, own2), SubMap(G, G2), Half(P, Q, C, R, own, G, S, V, live)
  PROVE  Half(P, Q, C, R, own2, G2, S, V, live)
<1>1. AskOK(P, Q, C, R, own2, G2)
  BY Zenon DEF Half, AskOK, SubMap, Known
<1>2. ASSUME P.open PROVE Delivers(P, Q, C, G2, S, V)
  <2>1. PICK U, pos, T : Carries(P, Q, C, G, S, V, U, pos, T)
    BY <1>2, Zenon DEF Half, Delivers
  <2>2. IsTrace(G2, U, T)
    BY <2>1, Zenon DEF Carries, LinkRules, TracesLast
  <2>3. Carries(P, Q, C, G2, S, V, U, pos, T)
    BY <2>1, <2>2, Zenon DEF Carries
  <2> QED
    BY <2>3, Zenon DEF Delivers
<1> QED
  BY <1>1, <1>2, Zenon DEF Half

\* What a client writes is sent in frames.
LEMMA SendFrames ==
  ASSUME LinkRules, NEW P, NEW Q, NEW C, NEW R, NEW own, NEW G, NEW S, NEW V, NEW W, NEW X,
         NEW live, NEW buf \in Seq(Segment), NEW s, NEW P2, NEW R2, NEW cache2,
         Link(P, Q, C, R, own, G, S, V, W, X, live), P.open, ~P.encoder_sent_eos,
         P.encoder # NoUuid, W \in Seq(Segment), WriterOK(P, own),
         s = Encode(EncodeStart(own, P.encoder_window), buf), cache2 = s.cache,
         Encodes(P, P2, P.encoder, s.window, FALSE), R2 = To(Q, R, EncodeFrame(s.units))
  PROVE  Link(P2, Q, C, R2, cache2, G, S, V, W \o buf, X, live)
<1> DEFINE W2 == W \o buf
           F == EncodeFrame(s.units)
<1>1. /\ Half(P, Q, C, R, own, G, S, V, live) /\ Half(Q, P, R, C, G, own, W, X, live)
      /\ R \in Seq(AnyMessage) /\ C \in Seq(AnyMessage) /\ Q \in PairRecord
      /\ own \in MapOf(Hash, Segment) /\ G \in MapOf(Hash, Segment)
  BY Zenon DEF Link, Half
<1>2. /\ ~P.encoder_produced_eos /\ ~Q.decoder_received_eos /\ ~Q.encoder_sent_eos_ack
  BY NotShutDown, Zenon
<1>3. /\ s \in EncoderState /\ SubMap(own, cache2) /\ P2.encoder_window = s.window
  <2>1. P2.encoder_window = s.window
    BY Zenon DEF Encodes
  <2> QED
    BY <1>1, <2>1, Zenon DEF LinkRules, EncodesSoundly
<1>4. s.units \in Seq(Unit) /\ cache2 \in MapOf(Hash, Segment)
  BY <1>3, Zenon DEF EncoderState
<1>5. SubMap(G, G)
  BY Zenon DEF SubMap
<1>6. ASSUME NEW D, AskOK(P2, Q, C, D, own, G), live => Asked(P2, C, D)
      PROVE  Half(P2, Q, C, D, cache2, G, S, V, live)
  <2>1. Half(P, Q, C, R, own, G, S, V, live)
    BY <1>1, Zenon
  <2>2. Half(P2, Q, C, D, own, G, S, V, live)
    BY <1>6, <2>1, OwnEnd, Zenon
  <2> QED
    BY <1>3, <1>4, <1>5, <2>2, CachesGrow, Zenon
<1>7. CASE ~Q.open
  <2>1. R2 = R
    BY <1>7, Zenon DEF To
  <2>2. Half(Q, P2, R, C, G, own, W2, X, live)
    BY <1>1, <1>2, <1>7, ClosedEnd, Zenon
  <2>3. AskOK(P2, Q, C, R, own, G)
    BY <1>1, Zenon DEF Half, AskOK, Encodes
  <2>4. live => Asked(P2, C, R)
    BY <1>1, Zenon DEF Half, Asked, Encodes
  <2>5. Half(P2, Q, C, R, cache2, G, S, V, live)
    BY <1>6, <2>3, <2>4, Zenon
  <2>6. Half(Q, P2, R, C, G, cache2, W2, X, live)
    <3> HIDE DEF W2
    <3> QED
      BY <1>1, <1>3, <1>5, <2>2, CachesGrow, Zenon
  <2> QED
    BY <2>1, <2>5, <2>6, Zenon DEF Link
<1>8. CASE Q.open
  <2>1. R2 = R \o F
    BY <1>8, Zenon DEF To
  <2>2. /\ F \in Seq(AnyMessage) /\ \A i \in 1..Len(F) : F[i].op = "FRAME"
    <3>1. FramesOf(F, s.units)
      BY <1>4, Zenon DEF LinkRules, FramesCarry
    <3> HIDE DEF F
    <3> QED
      BY <3>1, Zenon DEF FramesOf
  <2> HIDE DEF F
  <2>3. R2 \in Seq(AnyMessage) /\ Framed(R, R2)
    <3>1. /\ R2 \in Seq(AnyMessage) /\ Len(R2) = Len(R) + Len(F)
          /\ \A i \in 1..Len(R) : R2[i] = R[i]
          /\ \A i \in 1..Len(R2) : i > Len(R) => i - Len(R) \in 1..Len(F) /\ R2[i] = F[i - Len(R)]
      BY <1>1, <2>1, <2>2
    <3>2. ASSUME NEW i \in 1..Len(R2), i > Len(R) PROVE R2[i].op = "FRAME"
      <4>1. i - Len(R) \in 1..Len(F) /\ R2[i] = F[i - Len(R)]
        BY <3>1, <3>2, Zenon
      <4> QED
        BY <2>2, <4>1, Zenon
    <3>3. Len(R) <= Len(R2)
      BY <1>1, <2>2, <3>1
    <3> QED
      BY <3>1, <3>2, <3>3, Zenon DEF Framed
  <2>4. /\ \A i \in 1..Len(R) : i \in 1..Len(R2) /\ R2[i] = R[i]
        /\ \A i \in 1..Len(R2) : i \in 1..Len(R) \/ R2[i].op = "FRAME"
    BY <1>1, <2>3 DEF Framed
  <2>5. AskOK(P2, Q, C, R2, own, G)
    <3>1. None(R, "LEARN") => None(R2, "LEARN")
      BY <2>4 DEF None
    <3> QED
      BY <1>1, <3>1, Zenon DEF Half, AskOK, Encodes
  <2>6. live => Asked(P2, C, R2)
    <3>1. live => Asked(P, C, R2)
      <4>1. live => Asked(P, C, R)
        BY <1>1, Zenon DEF Half
      <4> QED
        BY <2>4, <4>1 DEF Asked
    <3> QED
      BY <3>1, Zenon DEF Asked, Encodes
  <2>7. Half(P2, Q, C, R2, cache2, G, S, V, live)
    BY <1>6, <2>5, <2>6, Zenon
  <2>8. HelloOK(Q, P2, R2)
    <3>1. HelloOK(Q, P, R) /\ P2.encoder = P.encoder
      BY <1>1, Zenon DEF Half, Encodes
    <3>2. Q.decoder # NoUuid \/ \E j \in 1..Len(R) : R[j].op = "HELLO"
      BY <1>8, <3>1, Zenon DEF HelloOK
    <3>3. ASSUME NEW i \in 1..Len(R2), R2[i].op = "HELLO"
          PROVE  /\ R2[i].uuid = P.encoder /\ P.encoder # NoUuid /\ Q.decoder = NoUuid
                 /\ Once(R2, i)
      BY <2>4, <3>1, <3>3 DEF HelloOK, Once
    <3>4. ASSUME NEW i \in 1..Len(R2), R2[i].op \in {"FRAME", "LEARN", "EOS"}, Q.decoder = NoUuid
          PROVE  \E j \in 1..Len(R2) : j < i /\ R2[j].op = "HELLO"
      <4>1. CASE i \in 1..Len(R)
        <5>1. PICK j \in 1..Len(R) : j < i /\ R[j].op = "HELLO"
          BY <2>4, <3>1, <3>4, <4>1, Zenon DEF HelloOK
        <5> QED
          BY <2>4, <5>1, Zenon
      <4>2. CASE i \notin 1..Len(R)
        <5>1. PICK j \in 1..Len(R) : R[j].op = "HELLO"
          BY <3>2, <3>4, Zenon
        <5>2. j < i
          BY <1>1, <4>2
        <5> QED
          BY <2>4, <5>1, <5>2, Zenon
      <4> QED
        BY <4>1, <4>2, Zenon
    <3>5. Q.decoder # NoUuid \/ \E j \in 1..Len(R2) : R2[j].op = "HELLO"
      BY <2>4, <3>2
    <3>6. Q.decoder \in {NoUuid, P.encoder}
      BY <1>8, <3>1, Zenon DEF HelloOK
    <3> QED
      BY <3>1, <3>3, <3>4, <3>5, <3>6 DEF HelloOK
  <2>9. EosOK(Q, P2, R2)
    <3>1. EosOK(Q, P, R)
      BY <1>1, Zenon DEF Half
    <3>2. \A i \in 1..Len(R) : R[i].op # "EOS"
      BY <3>1, Zenon DEF EosOK
    <3> QED
      BY <1>2, <2>4, <3>1, <3>2 DEF EosOK
  <2>10. AckOK(Q, P2, R2, W2, X)
    <3>1. AckOK(Q, P, R, W, X)
      BY <1>1, Zenon DEF Half
    <3>2. \A i \in 1..Len(R2) : R2[i].op = "EOS_ACK" =>
            P.encoder_sent_eos_ack /\ ~Q.decoder_received_eos_ack /\ Once(R2, i)
      BY <2>4, <3>1 DEF AckOK, Once
    <3>3. None(R, "ASK") => None(R2, "ASK")
      BY <2>4 DEF None
    <3> QED
      BY <1>2, <3>1, <3>2, <3>3, Zenon DEF AckOK, Encodes
  <2>11. FinOK(Q, P2, R2)
    <3>1. FinOK(Q, P, R)
      BY <1>1, Zenon DEF Half
    <3>2. \A i \in 1..Len(R) : R[i].op # "FIN"
      BY <1>2, <3>1, Zenon DEF FinOK
    <3> QED
      BY <1>2, <1>8, <2>4, <3>1, <3>2 DEF FinOK
  <2>12. AskOK(Q, P2, R2, C, G, own)
    <3>1. AskOK(Q, P, R, C, G, own)
      BY <1>1, Zenon DEF Half
    <3>2. P2.open = P.open /\ P2.decoder_unknown_hashes = P.decoder_unknown_hashes
      BY Zenon DEF Encodes
    <3>3. ASSUME NEW i \in 1..Len(R2), R2[i].op \in {"ASK", "LEARN"}
          PROVE  i \in 1..Len(R) /\ R2[i] = R[i] /\ (Once(R, i) => Once(R2, i))
      BY <2>4, <3>3 DEF Once
    <3> QED
      BY <3>1, <3>2, <3>3 DEF AskOK
  <2>13. live => Asked(Q, R2, C)
    <3>1. live => Asked(Q, R, C)
      BY <1>1, Zenon DEF Half
    <3> QED
      BY <2>4, <3>1 DEF Asked
  <2>14. Delivers(Q, P2, R2, cache2, W2, X)
    <3>1. PICK U, pos, T : Carries(Q, P, R, own, W, X, U, pos, T)
      BY <1>1, <1>8, Zenon DEF Half, Delivers
    <3> DEFINE B == Q.decoder_frame_buffer
               w0 == Q.decoder_window
               U2 == U \o s.units
    <3>2. Flat(B, R, U, pos) /\ U \in Seq(Unit)
      BY <3>1, Zenon DEF Carries, Flat
    <3>3. Traced(own, U, w0, X, P.encoder_window, W, FALSE)
      <4>1. /\ IsTrace(own, U, T) /\ T[0].win = w0 /\ ~T[0].inside /\ T[0].out = X
            /\ T[Len(U)].out = W /\ ~T[Len(U)].inside /\ T[Len(U)].win = P.encoder_window
        BY <3>1, Zenon DEF Carries
      <4>2. T[Len(U)].inside = FALSE
        <5>1. Len(U) \in 0..Len(U)
          BY <3>2
        <5>2. T[Len(U)].inside \in BOOLEAN
          BY <4>1, <5>1, Zenon DEF IsTrace, TraceState
        <5> QED
          BY <4>1, <5>2, Zenon
      <4> HIDE DEF w0
      <4> QED
        BY <4>1, <4>2, Zenon DEF Traced
    <3>4. Encoded(s, own, U, w0, X, W2)
      <4> HIDE DEF w0
      <4> QED
        BY <1>1, <3>2, <3>3, Zenon DEF LinkRules, EncodesBuffer
    <3>5. PICK to : Flat(B, R2, U2, to)
      <4> DEFINE us == s.units
      <4> HIDE DEF us, B
      <4>1. us \in Seq(Unit)
        BY <1>4, Zenon DEF us
      <4>2. \E to : Flat(B, R \o EncodeFrame(us), U \o us, to)
        BY <1>1, <3>2, <4>1, Zenon DEF LinkRules, FramesContinue
      <4> QED
        BY <2>1, <4>2, Zenon DEF us, F
    <3>6. PICK T2 : /\ IsTrace(cache2, U2, T2)
                    /\ T2[0].win = w0 /\ T2[0].out = X /\ ~T2[0].inside
                    /\ T2[Len(U2)].win = s.window /\ T2[Len(U2)].out = W2
                    /\ T2[Len(U2)].inside = FALSE
      BY <3>4, Zenon DEF Encoded, Traced
    <3> HIDE DEF U2
    <3>7. Carries(Q, P2, R2, cache2, W2, X, U2, to, T2)
      BY <1>3, <3>5, <3>6, Zenon DEF Carries
    <3> QED
      BY <3>7, Zenon DEF Delivers
  <2>15. AskOK(Q, P2, R2, C, G, cache2)
    <3>1. \A seg : Known(own, seg) => Known(cache2, seg)
      BY <1>3, Zenon DEF SubMap, Known
    <3> QED
      BY <2>12, <3>1, Zenon DEF AskOK
  <2>16. Half(Q, P2, R2, C, G, cache2, W2, X, live)
    BY <1>1, <2>3, <2>8, <2>9, <2>10, <2>11, <2>13, <2>14, <2>15, Zenon DEF Half
  <2> QED
    BY <2>7, <2>16, Zenon DEF Link
<1> QED
  BY <1>7, <1>8, Zenon

\* Both ends, with larger caches.
LEMMA LinkGrows ==
  ASSUME LinkRules, NEW P, NEW Q, NEW C, NEW R, NEW own, NEW G, NEW S, NEW V, NEW W, NEW X,
         NEW live, NEW own2 \in MapOf(Hash, Segment), SubMap(own, own2),
         Link(P, Q, C, R, own, G, S, V, W, X, live)
  PROVE  Link(P, Q, C, R, own2, G, S, V, W, X, live)
<1>1. SubMap(G, G)
  BY Zenon DEF SubMap
<1>2. /\ Half(P, Q, C, R, own, G, S, V, live) /\ Half(Q, P, R, C, G, own, W, X, live)
      /\ G \in MapOf(Hash, Segment)
  BY Zenon DEF Link, Half
<1>3. Half(P, Q, C, R, own2, G, S, V, live)
  BY <1>1, <1>2, CachesGrow, Zenon
<1>4. Half(Q, P, R, C, G, own2, W, X, live)
  BY <1>1, <1>2, CachesGrow, Zenon
<1> QED
  BY <1>3, <1>4, Zenon DEF Link

\* One message is appended.
LEMMA SendOne ==
  ASSUME NEW Q, NEW R \in Seq(AnyMessage), NEW m \in AnyMessage
  PROVE  To(Q, R, <<m>>) \in Seq(AnyMessage) /\ Sent(Q, R, To(Q, R, <<m>>), m)
<1> DEFINE one == <<m>>
           R2 == R \o one
<1>1. one \in Seq(AnyMessage)
  OBVIOUS
<1>2. one[1] = m /\ Len(one) = 1
  OBVIOUS
<1> HIDE DEF one
<1>3. R2 \in Seq(AnyMessage) /\ Len(R2) = Len(R) + Len(one) /\ Len(R) \in Nat
  BY <1>1
<1>4. \A i \in 1..Len(R) : R2[i] = R[i]
  BY <1>1
<1>5. \A i \in 1..Len(one) : R2[Len(R) + i] = one[i]
  BY <1>1
<1> HIDE DEF R2
<1>6. Extended(R, R2, m)
  BY <1>2, <1>3, <1>4, <1>5 DEF Extended
<1>7. To(Q, R, <<m>>) = IF Q.open THEN R2 ELSE R
  BY Zenon DEF To, R2, one
<1> QED
  BY <1>3, <1>6, <1>7, Zenon DEF Sent
=============================================================================
