------------------------ MODULE XCodecPipePairProofs ------------------------
(***************************************************************************)
(* The protocol between two proxies is correct for any number of           *)
(* connections, segments and hashes, any frame and window size, any number *)
(* of connections torn down and of restarts.                               *)
(***************************************************************************)
EXTENDS XCodecPipeCodecProofs, XCodecPipeStepProofs, XCodecPipePairSteps,
        FiniteSetTheorems, WellFoundedInduction, NaturalsInduction, TLAPS

\* A set of natural numbers that is not empty has a least element.
LEMMA LeastNatural ==
    ASSUME NEW S \in SUBSET Nat, S # {}
    PROVE  \E x \in S : \A y \in S : x <= y
<1> DEFINE R == {ss \in Nat \X Nat : ss[1] < ss[2]}
<1>1. IsWellFoundedOn(R, Nat)
  <2>1. OpToRel(<, Nat) = R
    BY Zenon DEF OpToRel
  <2> QED
    BY <2>1, NatLessThanWellFounded, Zenon
<1> HIDE DEF R
<1>2. PICK x \in S : \A y \in S : <<y, x>> \notin R
  BY <1>1, WFMin, Zenon
<1>3. ASSUME NEW y \in S
      PROVE  x <= y
  <2>1. <<y, x>> \notin R
    BY <1>2
  <2>2. x \in Nat /\ y \in Nat /\ ~(y < x)
    BY <2>1 DEF R
  <2> QED
    BY <2>2
<1> QED
  BY <1>3

\* Induction on the natural numbers, as a fact about sets.
LEMMA InductionHolds == Induction
<1> SUFFICES ASSUME NEW T, 0 \in T, \A n \in Nat : n \in T => n + 1 \in T
             PROVE  \A n \in Nat : n \in T
  BY DEF Induction
<1> DEFINE S == Nat \ T
<1> SUFFICES ASSUME S # {} PROVE FALSE
  OBVIOUS
<1>1. S \in SUBSET Nat
  OBVIOUS
<1>2. PICK x \in S : \A y \in S : x <= y
  <2> HIDE DEF S
  <2> QED BY <1>1, LeastNatural
<1>3. x \in Nat /\ x # 0
  OBVIOUS
<1>4. x - 1 \in Nat /\ ~(x <= x - 1)
  BY <1>3
<1>5. x - 1 \in T
  BY <1>2, <1>4
<1>6. x - 1 + 1 \in T
  BY <1>4, <1>5
<1> QED
  BY <1>6, <1>3

\* There is one <ASK> for one hash.
LEMMA AskForOne == ASSUME NEW h PROVE Asks({h}) = <<[op |-> "ASK", hash |-> h]>>
<1>1. Cardinality({h}) = 1
  BY FS_Singleton
<1> DEFINE OK(f) == \A i, j \in 1..1 : i < j => f[i] < f[j]
<1>2. Ascending({h}) = CHOOSE f \in [1..1 -> {h}] : OK(f)
  BY <1>1, Zenon DEF Ascending
<1>3. \E f \in [1..1 -> {h}] : OK(f)
  <2>1. [i \in 1..1 |-> h] \in [1..1 -> {h}] /\ OK([i \in 1..1 |-> h])
    OBVIOUS
  <2> QED
    BY <2>1, Zenon
<1>4. Ascending({h}) \in [1..1 -> {h}]
  <2> HIDE DEF OK
  <2> QED
    BY <1>2, <1>3
<1>5. Ascending({h})[1] = h
  BY <1>4
<1> QED
  BY <1>1, <1>5 DEF Asks

\* There is no <ASK> when every hash is known.
LEMMA AskForNone == Asks({}) = <<>>
<1>1. Cardinality({}) = 0
  BY FS_EmptySet
<1> QED
  BY <1>1 DEF Asks

\* The codec does what the connections rely on.
LEMMA CodecWorks == CodecRules
<1>1. Induction
  BY InductionHolds
<1>2. DecodesAll
  BY <1>1, AllDecoded DEF DecodesAll
<1>3. EncodesBuffer
  <2> SUFFICES ASSUME NEW own \in MapOf(Hash, Segment), NEW W \in Seq(Segment),
                      NEW U \in Seq(Unit), NEW buf \in Seq(Segment), NEW P, NEW w0, NEW o0,
                      WriterOK(P, own), Traced(own, U, w0, o0, P.encoder_window, W, FALSE)
               PROVE  Encoded(Encode(EncodeStart(own, P.encoder_window), buf), own, U, w0, o0,
                              W \o buf)
    BY Zenon DEF EncodesBuffer
  <2> QED
    BY <1>1, EncodeBuffer, Zenon
<1>4. EncodesSoundly
  BY <1>1, EncodeSound DEF EncodesSoundly
<1>5. FramesCarry /\ FramesContinue /\ TracesLast
  BY FramesAreTyped, FramesFlat, LongerCache DEF FramesCarry, FramesContinue, TracesLast
<1>6. MapsSound
  BY EmptyWindowInv, EmptyMapType, InsertType, MapFacts DEF MapsSound
<1>7. DecodesFrames
  BY <1>1, DecodeFrames DEF DecodesFrames
<1>8. EncodesNothing /\ AsksOnce
  BY <1>1, EncodeNothing, AskForOne, AskForNone DEF EncodesNothing, AsksOnce
<1> QED
  BY <1>1, <1>2, <1>3, <1>4, <1>5, <1>6, <1>7, <1>8 DEF CodecRules, LinkRules

\* The two ends of a connection do what the processes rely on.
LEMMA ConnectionsWork == ConnectionRules
<1>1. CodecRules
  BY CodecWorks
<1>2. LinkRules /\ MapsSound /\ EncodesSoundly /\ DecodesAll
  BY <1>1, Zenon DEF CodecRules, LinkRules
<1>3. Consumes
  <2> SUFFICES ASSUME NEW P, NEW Q, NEW C, NEW R, NEW own, NEW G, NEW S, NEW V, NEW W, NEW X,
                      NEW live, NEW K, NEW partial, NEW mine \in MapOf(Hash, Segment),
                      NEW known \in [Uuid -> MapOf(Hash, Segment)], NEW n \in 1..Len(C),
                      /\ Link(P, Q, C, R, own, G, S, V, W, X, live) /\ P.open
                      /\ P.encoder # NoUuid => mine = own
                      /\ \A h \in DOMAIN own : HashOf[own[h]] = h
                      /\ Q.encoder # NoUuid => G = K[Q.encoder]
                      /\ \A u \in Uuid : SubMap(known[u], K[u])
                      /\ \A i \in 1..n : C[i].op # "FIN"
               PROVE  LET s == Operations(ConsumeStart(P, mine, known), SubSeq(C, 1, n))
                          r == IF partial \/ s.returned THEN s ELSE Finish(s)
                      IN  Consumed(r, Q, SubSeq(C, n + 1, Len(C)), R, own, G, S, V, W, X, live, K, P)
    BY Zenon DEF Consumes
  <2> QED
    BY <1>1, ConsumeStep, Zenon
<1>4. TakesFin
  <2> SUFFICES ASSUME NEW P, NEW Q, NEW C, NEW R, NEW own, NEW G, NEW S, NEW V, NEW W, NEW X,
                      NEW live, NEW P2,
                      /\ Link(P, Q, C, R, own, G, S, V, W, X, live) /\ P.open /\ C # <<>>
                         /\ C[1].op = "FIN"
                      /\ Answers(P, P2, TRUE, P.encoder_sent_eos_ack, P.encoder_produced_eos)
               PROVE  Link(P2, Q, <<>>, R, own, G, S, V, W, X, live)
    BY Zenon DEF TakesFin
  <2> QED
    BY TakeFin, Zenon
<1>5. EncodesAll
  <2> SUFFICES ASSUME NEW P, NEW Q, NEW C, NEW R, NEW own, NEW G, NEW S, NEW V, NEW W, NEW X,
                      NEW live, NEW s, NEW P2, NEW mine \in MapOf(Hash, Segment), NEW u \in Uuid,
                      NEW buf \in Seq(Segment),
                      /\ Link(P, Q, C, R, own, G, S, V, W, X, live) /\ W \in Seq(Segment)
                      /\ SubMap(own, mine) /\ Writes(P, P2, mine, u, buf, s)
               PROVE  /\ Link(P2, Q, C, To(Q, R, HelloFor(P, u) \o BodyFor(s, buf)), s.cache, G,
                              S, V, W \o buf, X, live)
                      /\ s \in EncoderState /\ WriterOK(P2, s.cache) /\ SubMap(mine, s.cache)
    BY Zenon DEF EncodesAll
  <2> QED
    BY <1>1, EncoderStep, Zenon
<1>6. TearsDown
  <2> SUFFICES ASSUME NEW P, NEW Q, NEW C, NEW R, NEW own, NEW G, NEW S, NEW V, NEW W, NEW X,
                      NEW live, Link(P, Q, C, R, own, G, S, V, W, X, live) /\ P.open
               PROVE  LET R2 == IF P.encoder_produced_eos THEN R ELSE To(Q, R, <<[op |-> "FIN"]>>)
                      IN  Link(Destroyed(P), Q, <<>>, R2, own, G, S, V, W, X, FALSE)
    BY Zenon DEF TearsDown
  <2> QED
    BY <1>1, TearDown, Zenon
<1>7. MayGrow
  BY <1>2, CachesGrow DEF MayGrow
<1>8. OutputGrows
  BY InductionHolds, TraceGrows DEF OutputGrows
<1>9. StartsSound
  BY <1>1, NewHalf, Zenon DEF StartsSound
<1> QED
  BY <1>2, <1>3, <1>4, <1>5, <1>6, <1>7, <1>8, <1>9 DEF ConnectionRules

\* The invariant holds in every state.
THEOREM Invariance == Spec => []LinksInv
<1>1. Init => LinksInv
  BY InitKeeps, ConnectionsWork
<1>2. LinksInv /\ [Next]_vars => LinksInv'
  BY NextKeeps, ConnectionsWork
<1> QED
  BY <1>1, <1>2, PTL DEF Spec

\* PairInv holds in every state: the members of a pair and the messages have their types; no
\* ASSERT of xcodec_pipe_pair.cc fails; an end shuts its channel down only when both
\* directions have been delivered; a hash that is waited for has been asked for.
THEOREM PairsAreSound == Spec => []PairInv
<1>1. LinksInv => PairInv
  BY NothingBad, AckAndShutdown, TypesAndAsks DEF PairInv
<1> QED
  BY <1>1, Invariance, PTL

\* decoder_error is never called between two correct peers.
THEOREM PeersAgree == Spec => []NoProtocolError
<1> QED
  BY NothingBad, Invariance, PTL

\* An end that sent <EOS_ACK> has delivered everything.
THEOREM AcksAreTrue == Spec => []AckedIsDelivered
<1> QED
  BY AckAndShutdown, Invariance, PTL

\* What a decoder knows of a codec is what the codec's cache has.
THEOREM CachesStayEqual == Spec => []CachesAgree
<1> QED
  BY NothingBad, Invariance, PTL

\* The protocol implements a reliable stream between the two clients of every connection.
THEOREM StreamsAreReliable == Spec => ImplementsReliableStream
<1>1. LinksInv => StreamOK
  BY StreamsSound, ConnectionsWork
<1>2. LinksInv /\ LinksInv' /\ StreamOK /\ StreamOK' /\ [Next]_vars
        => [Stream!Next]_(Stream!vars)
  BY StepSimulates, ConnectionsWork
<1> QED
  BY <1>1, <1>2, InitSimulates, Invariance, PTL DEF Spec, ImplementsReliableStream, Stream!Spec
=============================================================================
