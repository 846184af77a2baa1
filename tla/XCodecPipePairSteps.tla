------------------------ MODULE XCodecPipePairSteps -------------------------
(***************************************************************************)
(* Every step of the two processes keeps the invariant of all connections  *)
(* and is a step of the stream that the protocol implements, provided that *)
(* the two ends of a connection do what they should.                       *)
(***************************************************************************)
EXTENDS XCodecPipePair, XCodecPipeLink, TLAPS

\* The caches may grow: other connections of the same processes use them too.
MayGrow ==
    \A P, Q, C, R, own, G, S, V, live, G2 : \A own2 \in MapOf(Hash, Segment) :
      SubMap(own, own2) /\ SubMap(G, G2) /\ Half(P, Q, C, R, own, G, S, V, live)
      => Half(P, Q, C, R, own2, G2, S, V, live)

\* decoder_consume of n messages leaves both ends sound.
Consumes ==
    \A P, Q, C, R, own, G, S, V, W, X, live, K, partial :
      \A mine \in MapOf(Hash, Segment), known \in [Uuid -> MapOf(Hash, Segment)], n \in 1..Len(C) :
        LET s == Operations(ConsumeStart(P, mine, known), SubSeq(C, 1, n))
            r == IF partial \/ s.returned THEN s ELSE Finish(s)
        IN  /\ Link(P, Q, C, R, own, G, S, V, W, X, live) /\ P.open
            /\ P.encoder # NoUuid => mine = own
            /\ \A h \in DOMAIN own : HashOf[own[h]] = h
            /\ Q.encoder # NoUuid => G = K[Q.encoder]
            /\ \A u \in Uuid : SubMap(known[u], K[u])
            /\ \A i \in 1..n : C[i].op # "FIN"
            => Consumed(r, Q, SubSeq(C, n + 1, Len(C)), R, own, G, S, V, W, X, live, K, P)

\* So does the end of the connection,
TakesFin ==
    \A P, Q, C, R, own, G, S, V, W, X, live, P2 :
      /\ Link(P, Q, C, R, own, G, S, V, W, X, live) /\ P.open /\ C # <<>> /\ C[1].op = "FIN"
      /\ Answers(P, P2, TRUE, P.encoder_sent_eos_ack, P.encoder_produced_eos)
      => Link(P2, Q, <<>>, R, own, G, S, V, W, X, live)

\* encoder_consume
EncodesAll ==
    \A P, Q, C, R, own, G, S, V, W, X, live, s, P2 :
      \A mine \in MapOf(Hash, Segment), u \in Uuid, buf \in Seq(Segment) :
        /\ Link(P, Q, C, R, own, G, S, V, W, X, live) /\ W \in Seq(Segment)
        /\ SubMap(own, mine) /\ Writes(P, P2, mine, u, buf, s)
        => /\ Link(P2, Q, C, To(Q, R, HelloFor(P, u) \o BodyFor(s, buf)), s.cache, G, S, V,
                   W \o buf, X, live)
           /\ s \in EncoderState /\ WriterOK(P2, s.cache) /\ SubMap(mine, s.cache)

\* and the destruction of an end.
TearsDown ==
    \A P, Q, C, R, own, G, S, V, W, X, live :
      LET R2 == IF P.encoder_produced_eos THEN R ELSE To(Q, R, <<[op |-> "FIN"]>>)
      IN  Link(P, Q, C, R, own, G, S, V, W, X, live) /\ P.open
          => Link(Destroyed(P), Q, <<>>, R2, own, G, S, V, W, X, FALSE)

\* Decoding only appends to the output.
OutputGrows ==
    \A U \in Seq(Unit) : \A G, T : IsTrace(G, U, T) => StartsWith(T[Len(U)].out, T[0].out)

\* A connection starts out sound.
StartsSound == Half(NewPair, NewPair, <<>>, <<>>, EmptyMap, EmptyMap, <<>>, <<>>, TRUE)

\* What the processes rely on.
ConnectionRules ==
    /\ MapsSound /\ Consumes /\ TakesFin /\ EncodesAll /\ EncodesSoundly /\ TearsDown /\ MayGrow
    /\ DecodesAll /\ OutputGrows /\ StartsSound
-----------------------------------------------------------------------------
(***************************************************************************)
(* The inductive invariant.                                                *)
(***************************************************************************)

\* The cache that the encoder at e works with.
CacheOf(e) == IF pair[e].encoder = NoUuid THEN EmptyMap ELSE cache[e[1]][pair[e].encoder]

\* The types of the variables.
PairTypes ==
    /\ uuid \in [Peer -> Uuid] /\ cache \in [Peer -> [Uuid -> MapOf(Hash, Segment)]]
    /\ caches \in [Peer -> [Uuid -> MapOf(Hash, Segment)]]
    /\ pair \in [End -> PairRecord] /\ chan \in [End -> Seq(AnyMessage)]
    /\ sent \in [End -> Seq(Segment)] /\ recv \in [End -> Seq(Segment)]
    /\ aborts \subseteq Conn /\ faults \in 0..MaxFaults

\* A codec's cache has its segments by hash, and what others know of it is in
\* it; a UUID is never used again.
CachesOK ==
    /\ \A p \in Peer, u \in Uuid : \A h \in DOMAIN cache[p][u] : HashOf[cache[p][u][h]] = h
    /\ \A p, q \in Peer : p # q => \A u \in Uuid : SubMap(caches[p][u], cache[q][u])
    /\ \A p \in Peer : uuid[p] <= faults

\* What end e has received and is still to receive.
Received(e) ==
    Half(pair[e], pair[Other(e)], chan[e], chan[Other(e)], CacheOf(e), CacheOf(Other(e)),
         sent[Other(e)], recv[e], e[2] \notin aborts)

\* The state of the pair at e itself.
PairOK(e) ==
    /\ Settled(pair[e]) /\ WriterOK(pair[e], CacheOf(e))
    /\ pair[e].open /\ pair[e].encoder # NoUuid => pair[e].encoder = uuid[e[1]]
    /\ ~pair[e].open => e[2] \in aborts

\* The invariant of the two processes: all connections between them are sound.
LinksInv ==
    /\ PairTypes /\ CachesOK
    /\ \A e \in End : Received(e) /\ PairOK(e)

\* The other end of a connection.
LEMMA OtherFacts ==
  ASSUME NEW e \in End
  PROVE  /\ Other(e) \in End /\ Other(e)[1] # e[1] /\ Other(e)[2] = e[2]
         /\ Other(Other(e)) = e /\ e[1] \in Peer /\ e[2] \in Conn /\ Other(e)[1] \in Peer
         /\ \A g \in End : g[2] = e[2] => g = e \/ g = Other(e)
         /\ \A p \in Peer : p = e[1] \/ p = Other(e)[1]
<1>1. PICK p, q \in Peer : p # q /\ Peer = {p, q}
  BY PipeAssumption, PipePairAssumption, Zenon
<1>2. \A g \in End : g[1] \in Peer /\ g[2] \in Conn /\ g = <<g[1], g[2]>>
  BY DEF End
<1>3. ASSUME NEW g \in End
      PROVE  Other(g) \in End /\ Other(g)[1] # g[1] /\ Other(g)[2] = g[2]
  <2>1. \E h \in End : h[1] # g[1] /\ h[2] = g[2]
    <3>1. CASE g[1] = p
      <4>1. <<q, g[2]>> \in End /\ <<q, g[2]>>[1] = q /\ <<q, g[2]>>[2] = g[2]
        BY <1>2, Zenon DEF End
      <4> QED
        BY <1>1, <3>1, <4>1, Zenon
    <3>2. CASE g[1] = q
      <4>1. <<p, g[2]>> \in End /\ <<p, g[2]>>[1] = p /\ <<p, g[2]>>[2] = g[2]
        BY <1>2, Zenon DEF End
      <4> QED
        BY <1>1, <3>2, <4>1, Zenon
    <3> QED
      BY <1>1, <1>2, <3>1, <3>2, Zenon
  <2> QED
    BY <2>1, Zenon DEF Other
<1>4. ASSUME NEW g \in End, NEW h \in End, g[1] = h[1], g[2] = h[2]
      PROVE  g = h
  BY <1>2, <1>4, Zenon
<1>5. \A r \in Peer : r = e[1] \/ r = Other(e)[1]
  BY <1>1, <1>2, <1>3, Zenon
<1>6. ASSUME NEW g \in End, g[2] = e[2]
      PROVE  g = e \/ g = Other(e)
  BY <1>2, <1>3, <1>4, <1>5, <1>6
<1>7. Other(Other(e)) = e
  <2>1. Other(e) \in End /\ Other(Other(e)) \in End /\ Other(Other(e))[1] # Other(e)[1]
        /\ Other(Other(e))[2] = e[2]
    BY <1>3, Zenon
  <2> QED
    BY <1>6, <2>1, Zenon
<1> QED
  BY <1>2, <1>3, <1>5, <1>6, <1>7, Zenon

\* Both ends of a connection.
LEMMA LinkOf ==
  ASSUME NEW e \in End, NEW f, f = Other(e)
  PROVE  /\ Received(e) /\ Received(f) <=>
              Link(pair[e], pair[f], chan[e], chan[f], CacheOf(e), CacheOf(f), sent[f], recv[e],
                   sent[e], recv[f], e[2] \notin aborts)
         /\ (Received(e) /\ Received(f))' <=>
              Link(pair'[e], pair'[f], chan'[e], chan'[f], CacheOf(e)', CacheOf(f)', sent'[f],
                   recv'[e], sent'[e], recv'[f], e[2] \notin aborts')
<1>1. Other(f) = e /\ f[2] = e[2]
  BY OtherFacts, Zenon
<1> QED
  BY <1>1, Zenon DEF Received, Link

\* Caches only grow.
CachesKept == \A p \in Peer, u \in Uuid : SubMap(cache[p][u], cache'[p][u])

\* A step at the two ends e and Other(e) of a connection leaves the others alone.
LEMMA OneConnection ==
  ASSUME ConnectionRules, LinksInv, NEW e \in End, NEW f, f = Other(e), PairTypes', CachesKept, CachesOK',
         uuid' = uuid,
         \A g \in End : g # e /\ g # f => /\ pair'[g] = pair[g] /\ chan'[g] = chan[g]
                                          /\ sent'[g] = sent[g] /\ recv'[g] = recv[g],
         \A c \in Conn : c # e[2] => (c \in aborts' <=> c \in aborts),
         Link(pair'[e], pair'[f], chan'[e], chan'[f], CacheOf(e)', CacheOf(f)', sent'[f],
              recv'[e], sent'[e], recv'[f], e[2] \notin aborts'),
         PairOK(e)', PairOK(f)'
  PROVE  LinksInv'
<1>1. Received(e)' /\ Received(f)'
  BY LinkOf, Zenon
<1>2. ASSUME NEW g \in End, g # e, g # f
      PROVE  Received(g)' /\ PairOK(g)'
  <2> DEFINE h == Other(g)
  <2>1. /\ h \in End /\ h # e /\ h # f /\ g[2] # e[2] /\ g[2] \in Conn /\ g[1] \in Peer
        /\ h[1] \in Peer /\ f \in End
    BY <1>2, OtherFacts
  <2>2. /\ pair'[g] = pair[g] /\ chan'[g] = chan[g] /\ sent'[g] = sent[g] /\ recv'[g] = recv[g]
        /\ pair'[h] = pair[h] /\ chan'[h] = chan[h] /\ sent'[h] = sent[h] /\ recv'[h] = recv[h]
        /\ (g[2] \notin aborts') = (g[2] \notin aborts)
    BY <1>2, <2>1, Zenon
  <2> HIDE DEF h
  <2>3. ASSUME NEW k \in End, pair'[k] = pair[k], k[1] \in Peer
        PROVE  SubMap(CacheOf(k), CacheOf(k)') /\ CacheOf(k)' \in MapOf(Hash, Segment)
    <3>1. pair[k].encoder \in Uuid \cup {NoUuid}
      BY Zenon DEF LinksInv, PairTypes, PairRecord
    <3>2. CASE pair[k].encoder = NoUuid
      <4>1. CacheOf(k) = EmptyMap /\ CacheOf(k)' = EmptyMap
        BY <2>3, <3>2, Zenon DEF CacheOf
      <4>2. EmptyMap \in MapOf(Hash, Segment) /\ SubMap(EmptyMap, EmptyMap)
        BY Zenon DEF SubMap, ConnectionRules, MapsSound
      <4> QED
        BY <4>1, <4>2, Zenon
    <3>3. CASE pair[k].encoder \in Uuid /\ pair[k].encoder # NoUuid
      <4>1. /\ CacheOf(k) = cache[k[1]][pair[k].encoder]
            /\ CacheOf(k)' = cache'[k[1]][pair[k].encoder]
        BY <2>3, <3>3, Zenon DEF CacheOf
      <4> QED
        BY <2>3, <3>3, <4>1 DEF CachesKept, PairTypes
    <3> QED
      BY <3>1, <3>2, <3>3, Zenon
  <2>4. /\ SubMap(CacheOf(g), CacheOf(g)') /\ CacheOf(g)' \in MapOf(Hash, Segment)
        /\ SubMap(CacheOf(h), CacheOf(h)')
    BY <2>1, <2>2, <2>3, Zenon
  <2>5. Received(g)'
    <3>1. Half(pair[g], pair[h], chan[g], chan[h], CacheOf(g), CacheOf(h), sent[h], recv[g],
               g[2] \notin aborts)
      BY Zenon DEF LinksInv, Received, h
    <3>2. Half(pair[g], pair[h], chan[g], chan[h], CacheOf(g)', CacheOf(h)', sent[h], recv[g],
               g[2] \notin aborts)
      BY <2>4, <3>1, Zenon DEF ConnectionRules, MayGrow
    <3> QED
      BY <2>2, <3>2, Zenon DEF Received, h
  <2>6. PairOK(g)'
    <3>1. PairOK(g)
      BY Zenon DEF LinksInv
    <3>2. WriterOK(pair[g], CacheOf(g)')
      <4>1. SubMap(pair[g].encoder_window.segments, CacheOf(g)')
        BY <2>4, <3>1 DEF PairOK, WriterOK, SubMap
      <4>2. \A x \in DOMAIN CacheOf(g)' : HashOf[(CacheOf(g)')[x]] = x
        <5>1. pair[g].encoder \in Uuid \cup {NoUuid}
          BY Zenon DEF LinksInv, PairTypes, PairRecord
        <5> QED
          BY <2>1, <2>2, <5>1, Zenon DEF CacheOf, CachesOK, EmptyMap
      <4> QED
        BY <3>1, <4>1, <4>2, Zenon DEF PairOK, WriterOK
    <3> QED
      BY <2>2, <3>1, <3>2, Zenon DEF PairOK
  <2> QED
    BY <2>5, <2>6, Zenon
<1> QED
  BY <1>1, <1>2, Zenon DEF LinksInv

\* What the invariant says of the two ends of a connection.
LEMMA EndFacts ==
  ASSUME LinksInv, NEW e \in End, NEW f, f = Other(e)
  PROVE  /\ Link(pair[e], pair[f], chan[e], chan[f], CacheOf(e), CacheOf(f), sent[f], recv[e],
                 sent[e], recv[f], e[2] \notin aborts)
         /\ PairOK(e) /\ PairOK(f) /\ pair[e] \in PairRecord /\ pair[f] \in PairRecord
         /\ chan[e] \in Seq(AnyMessage) /\ chan[f] \in Seq(AnyMessage)
         /\ sent[e] \in Seq(Segment) /\ recv[e] \in Seq(Segment)
         /\ e[1] \in Peer /\ f[1] \in Peer /\ f \in End /\ f # e /\ f[1] # e[1] /\ f[2] = e[2]
         /\ uuid[e[1]] \in Uuid /\ cache[e[1]][uuid[e[1]]] \in MapOf(Hash, Segment)
<1>1. f \in End /\ f # e /\ f[1] # e[1] /\ f[2] = e[2] /\ e[1] \in Peer /\ f[1] \in Peer
  BY OtherFacts, Zenon
<1>2. Received(e) /\ Received(f) /\ PairOK(e) /\ PairOK(f)
  BY <1>1, Zenon DEF LinksInv
<1>3. PairTypes
  BY Zenon DEF LinksInv
<1> QED
  BY <1>1, <1>2, <1>3, LinkOf, Zenon DEF PairTypes
-----------------------------------------------------------------------------
(***************************************************************************)
(* Each action keeps it.                                                   *)
(***************************************************************************)

\* What a step does that delivers at e and passes EOS on, and no more.
Reads(e) ==
    /\ pair[e].open /\ pair'[e].open /\ EncoderKept(pair[e], pair'[e])
    /\ \A g \in End : g # e => pair'[g] = pair[g]
    /\ recv' = [recv EXCEPT ![e] = recv'[e]] /\ Len(recv[e]) <= Len(recv'[e])
    /\ sent' = sent /\ aborts' = aborts

\* decoder_consume.
LEMMA DecoderConsumeKeeps ==
  ASSUME ConnectionRules, LinksInv, NEW e \in End, NEW n \in 1..Len(chan[e]), NEW partial \in BOOLEAN,
         DecoderConsume(e, n, partial)
  PROVE  LinksInv' /\ Reads(e)
<1> DEFINE f == Other(e)
           p == e[1]
           P == pair[e]
           Q == pair[f]
           C == chan[e]
           D == SubSeq(C, n + 1, Len(C))
           s == Operations(ConsumeStart(P, cache[p][uuid[p]], caches[p]), SubSeq(C, 1, n))
           r == IF partial \/ s.returned THEN s ELSE Finish(s)
<1>1. /\ P.open /\ \A i \in 1..n : C[i].op # "FIN"
      /\ pair' = [pair EXCEPT ![e] = r.pair] /\ caches' = [caches EXCEPT ![p] = r.caches]
      /\ chan' = [chan EXCEPT ![e] = D, ![f] = Send(f, r.output)]
      /\ recv' = [recv EXCEPT ![e] = @ \o r.data]
      /\ UNCHANGED <<cache, uuid, sent, aborts, faults>>
  BY Zenon DEF DecoderConsume, ConsumeStart
<1> DEFINE live == e[2] \notin aborts
           known == caches[p]
           K == cache[f[1]]
<1>2. /\ Link(P, Q, C, chan[f], CacheOf(e), CacheOf(f), sent[f], recv[e], sent[e], recv[f], live)
      /\ PairOK(e) /\ PairOK(f) /\ P \in PairRecord /\ C \in Seq(AnyMessage)
      /\ p \in Peer /\ f[1] \in Peer /\ f \in End /\ f # e /\ f[1] # p /\ f[2] = e[2]
      /\ cache[p][uuid[p]] \in MapOf(Hash, Segment)
  BY EndFacts, Zenon
<1>3. Consumed(r, Q, D, chan[f], CacheOf(e), CacheOf(f), sent[f], recv[e], sent[e], recv[f],
               live, K, P)
  <2>1. known \in [Uuid -> MapOf(Hash, Segment)] /\ \A u \in Uuid : SubMap(known[u], K[u])
    BY <1>2, Zenon DEF LinksInv, PairTypes, CachesOK
  <2>2. P.encoder # NoUuid => cache[p][uuid[p]] = CacheOf(e)
    BY <1>1, <1>2, Zenon DEF PairOK, CacheOf
  <2>3. Q.encoder # NoUuid => CacheOf(f) = K[Q.encoder]
    BY Zenon DEF CacheOf
  <2>4. \A h \in DOMAIN CacheOf(e) : HashOf[CacheOf(e)[h]] = h
    BY <1>2, Zenon DEF PairOK, WriterOK
  <2> DEFINE own == CacheOf(e)
             G == CacheOf(f)
             mine == cache[p][uuid[p]]
             S == sent[f]
             V == recv[e]
             W == sent[e]
             X == recv[f]
             R == chan[f]
  <2>5. /\ Link(P, Q, C, R, own, G, S, V, W, X, live) /\ mine \in MapOf(Hash, Segment)
        /\ (P.encoder # NoUuid => mine = own) /\ \A h \in DOMAIN own : HashOf[own[h]] = h
        /\ (Q.encoder # NoUuid => G = K[Q.encoder]) /\ n \in 1..Len(C) /\ P.open
        /\ \A i \in 1..n : C[i].op # "FIN"
    BY <1>1, <1>2, <2>2, <2>3, <2>4, Zenon
  <2>6. s = Operations(ConsumeStart(P, mine, known), SubSeq(C, 1, n))
    OBVIOUS
  <2> HIDE DEF own, G, mine, S, V, W, X, R, P, Q, C, known, K, live
  <2>7. LET s1 == Operations(ConsumeStart(P, mine, known), SubSeq(C, 1, n))
            r1 == IF partial \/ s1.returned THEN s1 ELSE Finish(s1)
        IN  Consumed(r1, Q, SubSeq(C, n + 1, Len(C)), R, own, G, S, V, W, X, live, K, P)
    BY <2>1, <2>5, Zenon DEF ConnectionRules, Consumes
  <2>8. Consumed(r, Q, D, R, own, G, S, V, W, X, live, K, P)
    BY <2>6, <2>7, Zenon
  <2> HIDE DEF r, D
  <2> QED
    BY <2>8, Zenon DEF own, G, S, V, W, X, R
<1> HIDE DEF s, r, D
<1>4. /\ r \in Consuming /\ r.pair.open /\ EncoderKept(P, r.pair) /\ Settled(r.pair)
      /\ \A u \in Uuid : SubMap(r.caches[u], K[u])
      /\ Link(r.pair, Q, D, To(Q, chan[f], r.output), CacheOf(e), CacheOf(f), sent[f],
              recv[e] \o r.data, sent[e], recv[f], live)
  BY <1>3, Zenon DEF Consumed
<1>5. /\ pair'[e] = r.pair /\ pair'[f] = Q /\ chan'[e] = D
      /\ chan'[f] = To(Q, chan[f], r.output) /\ recv'[e] = recv[e] \o r.data /\ recv'[f] = recv[f]
      /\ sent'[e] = sent[e] /\ sent'[f] = sent[f]
      /\ \A g \in End : g # e /\ g # f => /\ pair'[g] = pair[g] /\ chan'[g] = chan[g]
                                          /\ sent'[g] = sent[g] /\ recv'[g] = recv[g]
  BY <1>1, <1>2, Zenon DEF LinksInv, PairTypes, Send, To
<1>6. PairTypes'
  <2>1. /\ r.pair \in PairRecord /\ r.caches \in [Uuid -> MapOf(Hash, Segment)]
        /\ r.data \in Seq(Segment)
    BY <1>4, Zenon DEF Consuming
  <2>2. D \in Seq(AnyMessage) /\ To(Q, chan[f], r.output) \in Seq(AnyMessage)
    BY <1>4, Zenon DEF Link, Half
  <2>3. pair' \in [End -> PairRecord] /\ caches' \in [Peer -> [Uuid -> MapOf(Hash, Segment)]]
    BY <1>1, <1>2, <2>1, Zenon DEF LinksInv, PairTypes
  <2>4. recv' \in [End -> Seq(Segment)]
    <3>1. recv[e] \o r.data \in Seq(Segment)
      BY <2>1 DEF LinksInv, PairTypes
    <3> QED
      BY <1>1, <3>1, Zenon DEF LinksInv, PairTypes
  <2>5. chan' \in [End -> Seq(AnyMessage)]
    <3>1. Send(f, r.output) \in Seq(AnyMessage)
      BY <2>2, Zenon DEF Send, To
    <3> QED
      BY <1>1, <2>2, <3>1, Zenon DEF LinksInv, PairTypes
  <2> QED
    BY <1>1, <2>3, <2>4, <2>5, Zenon DEF LinksInv, PairTypes
<1>7. CachesKept /\ CachesOK'
  <2>1. CachesOK /\ PairTypes
    BY Zenon DEF LinksInv
  <2>2. ASSUME NEW a \in Peer, NEW b \in Peer, a # b, NEW u \in Uuid
        PROVE  SubMap(caches'[a][u], cache'[b][u])
    <3>1. CASE a = p
      <4>1. b = f[1]
        BY <2>2, <3>1, OtherFacts, Zenon
      <4>2. caches'[a] = r.caches
        BY <1>1, <1>2, <3>1, Zenon DEF LinksInv, PairTypes
      <4> QED
        BY <1>1, <1>4, <4>1, <4>2, Zenon
    <3>2. CASE a # p
      <4>1. caches'[a] = caches[a]
        BY <1>1, <1>2, <3>2, Zenon DEF LinksInv, PairTypes
      <4> QED
        BY <1>1, <2>1, <2>2, <4>1, Zenon DEF CachesOK
    <3> QED
      BY <3>1, <3>2, Zenon
  <2>3. CachesKept
    BY <1>1, Zenon DEF CachesKept, SubMap
  <2> QED
    BY <1>1, <2>1, <2>2, <2>3, Zenon DEF CachesOK
<1>8. CacheOf(e)' = CacheOf(e) /\ CacheOf(f)' = CacheOf(f)
  <2>1. /\ pair'[e].encoder = pair[e].encoder /\ pair'[f].encoder = pair[f].encoder
        /\ cache' = cache
    BY <1>1, <1>4, <1>5, Zenon DEF EncoderKept
  <2> HIDE DEF f
  <2> QED
    BY <2>1, Zenon DEF CacheOf
<1>9. PairOK(e)' /\ PairOK(f)'
  <2>1. WriterOK(r.pair, CacheOf(e))
    BY <1>2, <1>4, Zenon DEF PairOK, WriterOK, EncoderKept
  <2>2. PairOK(e)'
    BY <1>1, <1>2, <1>4, <1>5, <1>8, <2>1, Zenon DEF PairOK, EncoderKept
  <2>3. PairOK(f)'
    BY <1>1, <1>2, <1>5, <1>8, Zenon DEF PairOK
  <2> QED
    BY <2>2, <2>3, Zenon
<1>10. Link(pair'[e], pair'[f], chan'[e], chan'[f], CacheOf(e)', CacheOf(f)', sent'[f],
            recv'[e], sent'[e], recv'[f], e[2] \notin aborts')
  BY <1>1, <1>4, <1>5, <1>8, Zenon
<1>11. uuid' = uuid /\ \A c \in Conn : c # e[2] => (c \in aborts' <=> c \in aborts)
  BY <1>1, Zenon
<1>12. LinksInv'
  BY <1>5, <1>6, <1>7, <1>9, <1>10, <1>11, OneConnection, Zenon
<1>13. Reads(e)
  <2>1. recv[e] \in Seq(Segment) /\ r.data \in Seq(Segment)
    BY <1>4, Zenon DEF LinksInv, PairTypes, Consuming
  <2>2. Len(recv[e]) <= Len(recv'[e])
    <3> DEFINE V == recv[e]
               D2 == r.data
    <3>1. V \in Seq(Segment) /\ D2 \in Seq(Segment) /\ recv'[e] = V \o D2
      BY <1>5, <2>1, Zenon
    <3> HIDE DEF V, D2
    <3>2. Len(V \o D2) = Len(V) + Len(D2) /\ Len(V) \in Nat /\ Len(D2) \in Nat
      BY <3>1
    <3> QED
      BY <3>1, <3>2 DEF V
  <2>3. recv' = [recv EXCEPT ![e] = recv'[e]]
    BY <1>1, <1>5, Zenon
  <2> QED
    BY <1>1, <1>2, <1>4, <1>5, <2>2, <2>3, Zenon DEF Reads
<1> QED
  BY <1>12, <1>13, Zenon

\* The end of the connection.
LEMMA ConsumeFinKeeps ==
  ASSUME ConnectionRules, LinksInv, NEW e \in End, ConsumeFin(e)
  PROVE  LinksInv'
<1> DEFINE f == Other(e)
           P == pair[e]
           Q == pair[f]
           C == chan[e]
           P2 == [P EXCEPT !.decoder_sent_eos = TRUE]
           live == e[2] \notin aborts
<1>1. /\ P.open /\ C # <<>> /\ Head(C).op = "FIN" /\ pair' = [pair EXCEPT ![e] = P2]
      /\ chan' = [chan EXCEPT ![e] = <<>>]
      /\ UNCHANGED <<cache, uuid, caches, sent, recv, aborts, faults>>
  BY Zenon DEF ConsumeFin
<1>2. /\ Link(P, Q, C, chan[f], CacheOf(e), CacheOf(f), sent[f], recv[e], sent[e], recv[f], live)
      /\ PairOK(e) /\ PairOK(f) /\ P \in PairRecord /\ C \in Seq(AnyMessage)
      /\ f \in End /\ f # e
  BY EndFacts, Zenon
<1>3. /\ P2 \in PairRecord /\ P2.encoder = P.encoder /\ P2.encoder_window = P.encoder_window
      /\ P2.decoder_unknown_hashes = P.decoder_unknown_hashes /\ P2.open = P.open
      /\ P2.decoder_frame_buffer = P.decoder_frame_buffer
      /\ Answers(P, P2, TRUE, P.encoder_sent_eos_ack, P.encoder_produced_eos)
  <2>1. P2 \in PairRecord
    BY <1>2, Zenon DEF PairRecord
  <2> QED
    BY <1>2, <2>1, Zenon DEF PairRecord, Answers
<1> HIDE DEF P2
<1>4. Link(P2, Q, <<>>, chan[f], CacheOf(e), CacheOf(f), sent[f], recv[e], sent[e], recv[f], live)
  <2>1. C[1].op = "FIN"
    BY <1>1, <1>2
  <2> QED
    BY <1>1, <1>2, <1>3, <2>1, Zenon DEF ConnectionRules, TakesFin
<1>5. /\ pair'[e] = P2 /\ pair'[f] = Q /\ chan'[e] = <<>> /\ chan'[f] = chan[f]
      /\ \A g \in End : g # e /\ g # f => /\ pair'[g] = pair[g] /\ chan'[g] = chan[g]
                                          /\ sent'[g] = sent[g] /\ recv'[g] = recv[g]
  BY <1>1, <1>2, Zenon DEF LinksInv, PairTypes
<1>6. PairTypes'
  <2>1. <<>> \in Seq(AnyMessage)
    OBVIOUS
  <2>2. pair' \in [End -> PairRecord] /\ chan' \in [End -> Seq(AnyMessage)]
    BY <1>1, <1>3, <2>1, Zenon DEF LinksInv, PairTypes
  <2> QED
    BY <1>1, <2>2, Zenon DEF LinksInv, PairTypes
<1>7. CachesKept /\ CachesOK'
  BY <1>1 DEF CachesKept, SubMap, CachesOK, LinksInv
<1>8. CacheOf(e)' = CacheOf(e) /\ CacheOf(f)' = CacheOf(f)
  <2>1. /\ pair'[e].encoder = pair[e].encoder /\ pair'[f].encoder = pair[f].encoder
        /\ cache' = cache
    BY <1>1, <1>3, <1>5, Zenon
  <2> HIDE DEF f
  <2> QED
    BY <2>1, Zenon DEF CacheOf
<1>9. PairOK(e)' /\ PairOK(f)'
  <2>1. WriterOK(P2, CacheOf(e)) /\ Settled(P2)
    BY <1>2, <1>3, Zenon DEF PairOK, WriterOK, Settled
  <2>2. PairOK(e)'
    BY <1>1, <1>2, <1>3, <1>5, <1>8, <2>1, Zenon DEF PairOK
  <2>3. PairOK(f)'
    BY <1>1, <1>2, <1>5, <1>8, Zenon DEF PairOK
  <2> QED
    BY <2>2, <2>3, Zenon
<1>10. Link(pair'[e], pair'[f], chan'[e], chan'[f], CacheOf(e)', CacheOf(f)', sent'[f],
            recv'[e], sent'[e], recv'[f], e[2] \notin aborts')
  BY <1>1, <1>4, <1>5, <1>8, Zenon
<1>11. uuid' = uuid /\ \A c \in Conn : c # e[2] => (c \in aborts' <=> c \in aborts)
  BY <1>1, Zenon
<1> QED
  BY <1>5, <1>6, <1>7, <1>9, <1>10, <1>11, OneConnection, Zenon

\* encoder_consume.
LEMMA EncoderConsumeKeeps ==
  ASSUME ConnectionRules, LinksInv, NEW e \in End, NEW buf \in Seq(Segment), EncoderConsume(e, buf)
  PROVE  LinksInv'
<1> DEFINE f == Other(e)
           p == e[1]
           P == pair[e]
           Q == pair[f]
           u == uuid[p]
           mine == cache[p][u]
           s == Encode(EncodeStart(mine, P.encoder_window), buf)
           o == HelloFor(P, u) \o BodyFor(s, buf)
           P2 == [P EXCEPT !.encoder = IF @ # NoUuid THEN @ ELSE u,
                           !.encoder_window = s.window, !.encoder_sent_eos = (buf = <<>>),
                           !.bad = IF P.encoder_produced_eos THEN @ \cup {"ASSERT"} ELSE @]
           live == e[2] \notin aborts
<1>1. /\ P.open /\ ~P.encoder_sent_eos
      /\ pair' = [pair EXCEPT ![e] = P2]
      /\ cache' = [cache EXCEPT ![p][u] = s.cache]
      /\ chan' = [chan EXCEPT ![f] = Send(f, o)]
      /\ sent' = [sent EXCEPT ![e] = @ \o buf]
      /\ UNCHANGED <<uuid, caches, recv, aborts, faults>>
  BY Zenon DEF EncoderConsume, EncodeStart, HelloFor, BodyFor
<1>2. /\ Link(P, Q, chan[e], chan[f], CacheOf(e), CacheOf(f), sent[f], recv[e], sent[e], recv[f],
              live)
      /\ PairOK(e) /\ PairOK(f) /\ P \in PairRecord /\ Q \in PairRecord
      /\ f \in End /\ f # e /\ f[1] # p /\ p \in Peer /\ u \in Uuid
      /\ mine \in MapOf(Hash, Segment) /\ sent[e] \in Seq(Segment)
  BY EndFacts, Zenon
<1>3. /\ ~P.encoder_produced_eos /\ P.bad = {}
      /\ P.encoder # NoUuid => u = P.encoder
  <2>1. ~P.encoder_produced_eos
    BY <1>1, <1>2, Zenon DEF Link, Half, EosOK, AckOK
  <2>2. P.encoder # NoUuid => u = P.encoder
    BY <1>1, <1>2, Zenon DEF PairOK
  <2> QED
    BY <1>2, <2>1, <2>2, Zenon DEF PairRecord
<1>4. SubMap(CacheOf(e), mine) /\ WriterOK(P, mine)
  <2>1. SubMap(CacheOf(e), mine)
    BY <1>3, Zenon DEF CacheOf, SubMap, EmptyMap
  <2>2. \A h \in DOMAIN mine : HashOf[mine[h]] = h
    BY <1>2, Zenon DEF LinksInv, CachesOK
  <2> HIDE DEF mine
  <2>3. SubMap(P.encoder_window.segments, mine)
    BY <1>2, <2>1, Zenon DEF PairOK, WriterOK, SubMap
  <2> QED
    BY <1>2, <2>1, <2>2, <2>3, Zenon DEF PairOK, WriterOK
<1>5. s \in EncoderState /\ Encodes(P, P2, u, s.window, buf = <<>>)
  <2>1. s \in EncoderState
    <3> DEFINE w == s.window
               PX == [P EXCEPT !.encoder_window = w]
    <3>1. PX.encoder_window = s.window
      BY <1>2, Zenon DEF PairRecord
    <3>2. s = Encode(EncodeStart(mine, P.encoder_window), buf)
      OBVIOUS
    <3> HIDE DEF PX, s, mine, P
    <3> QED
      BY <1>2, <1>4, <3>1, <3>2, Zenon DEF ConnectionRules, EncodesSoundly
  <2>2. s.window \in Window /\ (buf = <<>>) \in BOOLEAN
    BY <2>1, Zenon DEF EncoderState
  <2> DEFINE P3 == [P EXCEPT !.encoder = u, !.encoder_window = s.window,
                             !.encoder_sent_eos = (buf = <<>>)]
  <2>3. P3 \in PairRecord
    <3> HIDE DEF s
    <3> QED
      BY <1>2, <2>2, Zenon DEF PairRecord
  <2>4. P2 = P3
    <3> HIDE DEF s
    <3> QED
      BY <1>2, <1>3, <2>2, Zenon DEF PairRecord
  <2>5. Encodes(P, P3, u, s.window, buf = <<>>)
    <3> DEFINE eos == buf = <<>>
               w == s.window
               P4 == [P EXCEPT !.encoder = u, !.encoder_window = w, !.encoder_sent_eos = eos]
    <3>1. eos \in BOOLEAN /\ P4 \in PairRecord
      BY <2>2, <2>3, Zenon
    <3> HIDE DEF s, eos, w
    <3>2. Encodes(P, P4, u, w, eos)
      BY <1>2, <3>1, Zenon DEF PairRecord, Encodes
    <3> QED
      BY <3>2, Zenon DEF eos, w
  <2> QED
    BY <2>1, <2>4, <2>5, Zenon
<1> HIDE DEF P2
<1>6. /\ Link(P2, Q, chan[e], To(Q, chan[f], o), s.cache, CacheOf(f), sent[f], recv[e],
              sent[e] \o buf, recv[f], live)
      /\ WriterOK(P2, s.cache) /\ SubMap(mine, s.cache)
  <2> DEFINE own == CacheOf(e)
             G == CacheOf(f)
             S == sent[f]
             V == recv[e]
             W == sent[e]
             X == recv[f]
             C == chan[e]
             R == chan[f]
  <2>1. /\ Link(P, Q, C, R, own, G, S, V, W, X, live) /\ W \in Seq(Segment)
        /\ SubMap(own, mine) /\ mine \in MapOf(Hash, Segment) /\ u \in Uuid
    BY <1>1, <1>2, <1>3, <1>4, <1>5, Zenon
  <2>2. Writes(P, P2, mine, u, buf, s)
    BY <1>1, <1>3, <1>4, <1>5, Zenon DEF Writes
  <2> HIDE DEF own, G, S, V, W, X, C, R, P, Q, mine, u, s, live
  <2>3. /\ Link(P2, Q, C, To(Q, R, HelloFor(P, u) \o BodyFor(s, buf)), s.cache, G, S, V,
                W \o buf, X, live)
        /\ WriterOK(P2, s.cache) /\ SubMap(mine, s.cache)
    BY <2>1, <2>2, Zenon DEF ConnectionRules, EncodesAll
  <2> QED
    BY <2>3, Zenon DEF G, S, V, W, X, C, R, Q
<1> HIDE DEF s, o
<1>7. /\ pair'[e] = P2 /\ pair'[f] = Q /\ chan'[e] = chan[e] /\ chan'[f] = To(Q, chan[f], o)
      /\ sent'[e] = sent[e] \o buf /\ sent'[f] = sent[f] /\ recv' = recv
      /\ \A g \in End : g # e /\ g # f => /\ pair'[g] = pair[g] /\ chan'[g] = chan[g]
                                          /\ sent'[g] = sent[g] /\ recv'[g] = recv[g]
  BY <1>1, <1>2, Zenon DEF LinksInv, PairTypes, Send, To
<1>8. /\ cache'[p][u] = s.cache
      /\ \A q \in Peer, v \in Uuid : q # p \/ v # u => cache'[q][v] = cache[q][v]
      /\ cache' \in [Peer -> [Uuid -> MapOf(Hash, Segment)]]
  <2>1. s.cache \in MapOf(Hash, Segment)
    BY <1>5, Zenon DEF EncoderState
  <2> QED
    BY <1>1, <1>2, <2>1, Zenon DEF LinksInv, PairTypes
<1>9. PairTypes'
  <2>1. P2 \in PairRecord
    BY <1>5, Zenon DEF Encodes
  <2>2. To(Q, chan[f], o) \in Seq(AnyMessage)
    BY <1>6, Zenon DEF Link, Half
  <2>3. pair' \in [End -> PairRecord]
    BY <1>1, <2>1, Zenon DEF LinksInv, PairTypes
  <2>4. chan' \in [End -> Seq(AnyMessage)]
    <3>1. Send(f, o) \in Seq(AnyMessage)
      BY <2>2, Zenon DEF Send, To
    <3> QED
      BY <1>1, <3>1, Zenon DEF LinksInv, PairTypes
  <2>5. sent' \in [End -> Seq(Segment)]
    <3>1. sent[e] \o buf \in Seq(Segment)
      BY <1>2
    <3> QED
      BY <1>1, <3>1, Zenon DEF LinksInv, PairTypes
  <2> QED
    BY <1>1, <1>8, <2>3, <2>4, <2>5, Zenon DEF LinksInv, PairTypes
<1>10. CachesKept
  <2>1. ASSUME NEW q \in Peer, NEW v \in Uuid PROVE SubMap(cache[q][v], cache'[q][v])
    <3>1. CASE q = p /\ v = u
      BY <1>6, <1>8, <3>1, Zenon
    <3>2. CASE q # p \/ v # u
      <4>1. cache'[q][v] = cache[q][v]
        BY <1>8, <3>2, Zenon
      <4> QED
        BY <4>1, Zenon DEF SubMap
    <3> QED
      BY <3>1, <3>2, Zenon
  <2> QED
    BY <2>1, Zenon DEF CachesKept
<1>11. CachesOK'
  <2>1. CachesOK
    BY Zenon DEF LinksInv
  <2>2. ASSUME NEW q \in Peer, NEW v \in Uuid, NEW h \in DOMAIN cache'[q][v]
        PROVE  HashOf[cache'[q][v][h]] = h
    <3>1. CASE q = p /\ v = u
      BY <1>6, <1>8, <2>2, <3>1, Zenon DEF WriterOK
    <3>2. CASE q # p \/ v # u
      BY <1>8, <2>1, <2>2, <3>2, Zenon DEF CachesOK
    <3> QED
      BY <3>1, <3>2, Zenon
  <2>3. ASSUME NEW a \in Peer, NEW b \in Peer, a # b, NEW v \in Uuid
        PROVE  SubMap(caches'[a][v], cache'[b][v])
    <3>1. SubMap(caches[a][v], cache[b][v]) /\ SubMap(cache[b][v], cache'[b][v])
      BY <1>10, <2>1, <2>3, Zenon DEF CachesOK, CachesKept
    <3>2. SubMap(caches[a][v], cache'[b][v])
      BY <3>1, Zenon DEF SubMap
    <3> QED
      BY <1>1, <3>2, Zenon
  <2>4. \A q \in Peer : uuid'[q] <= faults'
    BY <1>1, <2>1, Zenon DEF CachesOK
  <2> QED
    BY <2>2, <2>3, <2>4, Zenon DEF CachesOK
<1>12. CacheOf(e)' = s.cache /\ CacheOf(f)' = CacheOf(f)
  <2>1. u # NoUuid /\ P2.encoder = u
    BY <1>2, <1>5, PipeAssumption, PipePairAssumption DEF Encodes, Uuid, NoUuid
  <2>2. CacheOf(e)' = s.cache
    <3>1. CacheOf(e)' = cache'[p][u]
      BY <1>7, <2>1, Zenon DEF CacheOf
    <3> QED
      BY <1>8, <3>1, Zenon
  <2>3. CacheOf(f)' = CacheOf(f)
    <3>1. f[1] \in Peer /\ Q.encoder \in Uuid \cup {NoUuid} /\ pair'[f].encoder = Q.encoder
      BY <1>2, <1>7, OtherFacts, Zenon DEF PairRecord
    <3>2. \A v \in Uuid : cache'[f[1]][v] = cache[f[1]][v]
      BY <1>2, <1>8, <3>1, Zenon
    <3> HIDE DEF f
    <3> QED
      BY <3>1, <3>2, Zenon DEF CacheOf
  <2> QED
    BY <2>2, <2>3, Zenon
<1>13. PairOK(e)' /\ PairOK(f)'
  <2>1. Settled(P2) /\ P2.encoder = u /\ P2.open
    BY <1>1, <1>2, <1>5, Zenon DEF PairOK, Settled, Encodes
  <2>2. PairOK(e)'
    BY <1>1, <1>6, <1>7, <1>12, <2>1, Zenon DEF PairOK
  <2>3. PairOK(f)'
    BY <1>1, <1>2, <1>7, <1>12, Zenon DEF PairOK
  <2> QED
    BY <2>2, <2>3, Zenon
<1>14. Link(pair'[e], pair'[f], chan'[e], chan'[f], CacheOf(e)', CacheOf(f)', sent'[f],
            recv'[e], sent'[e], recv'[f], e[2] \notin aborts')
  BY <1>1, <1>6, <1>7, <1>12, Zenon
<1>15. uuid' = uuid /\ \A c \in Conn : c # e[2] => (c \in aborts' <=> c \in aborts)
  BY <1>1, Zenon
<1> QED
  BY <1>7, <1>9, <1>10, <1>11, <1>13, <1>14, <1>15, OneConnection, Zenon

\* A connection is torn down at one end.
LEMMA AbortKeeps ==
  ASSUME ConnectionRules, LinksInv, NEW e \in End, Abort(e)
  PROVE  LinksInv'
<1> DEFINE f == Other(e)
           P == pair[e]
           Q == pair[f]
           R2 == IF P.encoder_produced_eos THEN chan[f] ELSE To(Q, chan[f], <<[op |-> "FIN"]>>)
<1>1. /\ P.open /\ pair' = [pair EXCEPT ![e] = Destroyed(P)]
      /\ chan' = [g \in End |-> Closed(g, {e})] /\ aborts' = aborts \cup {e[2]}
      /\ UNCHANGED <<cache, uuid, caches, sent, recv>>
      /\ \/ faults' = faults
         \/ faults < MaxFaults /\ faults' = faults + 1
  BY Zenon DEF Abort
<1>2. /\ Link(P, Q, chan[e], chan[f], CacheOf(e), CacheOf(f), sent[f], recv[e], sent[e], recv[f],
              e[2] \notin aborts)
      /\ PairOK(e) /\ PairOK(f) /\ P \in PairRecord /\ f \in End /\ f # e
  BY EndFacts, Zenon
<1>3. Link(Destroyed(P), Q, <<>>, R2, CacheOf(e), CacheOf(f), sent[f], recv[e], sent[e],
           recv[f], FALSE)
  BY <1>1, <1>2, Zenon DEF ConnectionRules, TearsDown
<1>4. /\ chan'[e] = <<>> /\ chan'[f] = R2
      /\ \A g \in End : g # e /\ g # f => chan'[g] = chan[g]
  <2>1. Other(f) = e /\ \A g \in End : g # f => Other(g) # e
    BY OtherFacts, Zenon
  <2> QED
    BY <1>1, <1>2, <2>1, Zenon DEF Closed, Send, To
<1>5. /\ pair'[e] = Destroyed(P) /\ pair'[f] = Q
      /\ \A g \in End : g # e /\ g # f => /\ pair'[g] = pair[g] /\ chan'[g] = chan[g]
                                          /\ sent'[g] = sent[g] /\ recv'[g] = recv[g]
  BY <1>1, <1>2, <1>4, Zenon DEF LinksInv, PairTypes
<1>6. /\ Destroyed(P).encoder = P.encoder /\ Destroyed(P).encoder_window = EmptyWindow
      /\ Destroyed(P).open = FALSE /\ Destroyed(P).decoder_frame_buffer = <<>>
  BY <1>2, Zenon DEF Destroyed, PairRecord
<1> HIDE DEF R2
<1>7. PairTypes'
  <2>1. Destroyed(P) \in PairRecord /\ R2 \in Seq(AnyMessage) /\ <<>> \in Seq(AnyMessage)
    BY <1>3, Zenon DEF Link, Half
  <2>2. pair' \in [End -> PairRecord]
    BY <1>1, <2>1, Zenon DEF LinksInv, PairTypes
  <2>3. chan' \in [End -> Seq(AnyMessage)]
    <3>1. \A g \in End : chan'[g] \in Seq(AnyMessage)
      BY <1>4, <2>1, Zenon DEF LinksInv, PairTypes
    <3>2. chan' = [g \in End |-> chan'[g]]
      BY <1>1, Zenon
    <3> QED
      BY <3>1, <3>2, Zenon
  <2>4. aborts' \subseteq Conn /\ faults' \in 0..MaxFaults
    <3>1. e[2] \in Conn
      BY OtherFacts, Zenon
    <3> QED
      BY <1>1, <3>1, PipeAssumption, PipePairAssumption DEF LinksInv, PairTypes
  <2> QED
    BY <1>1, <2>2, <2>3, <2>4, Zenon DEF LinksInv, PairTypes
<1>8. CachesKept /\ CachesOK'
  <2>1. CachesOK /\ faults \in Nat /\ \A p \in Peer : uuid[p] \in Nat
    BY DEF LinksInv, PairTypes, Uuid
  <2>2. \A p \in Peer : uuid'[p] <= faults'
    BY <1>1, <2>1 DEF CachesOK
  <2> QED
    BY <1>1, <2>1, <2>2 DEF CachesKept, SubMap, CachesOK
<1>9. CacheOf(e)' = CacheOf(e) /\ CacheOf(f)' = CacheOf(f)
  <2>1. /\ pair'[e].encoder = pair[e].encoder /\ pair'[f].encoder = pair[f].encoder
        /\ cache' = cache
    BY <1>1, <1>5, <1>6, Zenon
  <2> HIDE DEF f
  <2> QED
    BY <2>1, Zenon DEF CacheOf
<1>10. PairOK(e)' /\ PairOK(f)'
  <2>1. WriterOK(Destroyed(P), CacheOf(e)) /\ Settled(Destroyed(P))
    <3>1. SubMap(EmptyWindow.segments, CacheOf(e))
      BY Zenon DEF SubMap, EmptyWindow, EmptyMap
    <3> QED
      BY <1>2, <1>6, <3>1, Zenon DEF PairOK, WriterOK, Settled, ConnectionRules, MapsSound
  <2>2. PairOK(e)'
    BY <1>1, <1>5, <1>6, <1>9, <2>1, Zenon DEF PairOK
  <2>3. PairOK(f)'
    BY <1>1, <1>2, <1>5, <1>9, Zenon DEF PairOK
  <2> QED
    BY <2>2, <2>3, Zenon
<1>11. Link(pair'[e], pair'[f], chan'[e], chan'[f], CacheOf(e)', CacheOf(f)', sent'[f],
            recv'[e], sent'[e], recv'[f], e[2] \notin aborts')
  <2>1. (e[2] \notin aborts') = FALSE
    BY <1>1, Zenon
  <2> QED
    BY <1>1, <1>3, <1>4, <1>5, <1>9, <2>1, Zenon
<1>12. uuid' = uuid /\ \A c \in Conn : c # e[2] => (c \in aborts' <=> c \in aborts)
  BY <1>1, Zenon
<1> QED
  BY <1>5, <1>7, <1>8, <1>10, <1>11, <1>12, OneConnection, Zenon

\* A process dies and starts again.
LEMMA RestartKeeps ==
  ASSUME ConnectionRules, LinksInv, NEW p \in Peer, Restart(p)
  PROVE  LinksInv'
<1> DEFINE used == {e \in End : /\ e[1] = p /\ pair[e].open
                                /\ \/ pair[e].encoder # NoUuid
                                   \/ pair[Other(e)].encoder # NoUuid}
<1>1. /\ faults < MaxFaults /\ faults' = faults + 1
      /\ uuid' = [uuid EXCEPT ![p] = @ + 1]
      /\ caches' = [caches EXCEPT ![p] = [u \in Uuid |-> EmptyMap]]
      /\ pair' = [e \in End |-> IF e \in used THEN Destroyed(pair[e]) ELSE pair[e]]
      /\ chan' = [f \in End |-> Closed(f, used)]
      /\ aborts' = aborts \cup {e[2] : e \in used}
      /\ UNCHANGED <<cache, sent, recv>>
  BY Zenon DEF Restart
<1>2. \A e \in used : e \in End /\ e[1] = p /\ pair[e].open
  OBVIOUS
<1>3. \A e \in End : e[1] = p /\ pair[e].open /\ e \notin used => pair[e].encoder = NoUuid
  OBVIOUS
<1> HIDE DEF used
<1>4. ASSUME NEW e \in End, e[1] = p
      PROVE  LET f == Other(e) IN
             /\ Received(e)' /\ Received(f)' /\ PairOK(e)' /\ PairOK(f)'
             /\ pair'[e] \in PairRecord /\ pair'[f] \in PairRecord
             /\ chan'[e] \in Seq(AnyMessage) /\ chan'[f] \in Seq(AnyMessage)
  <2> DEFINE f == Other(e)
             P == pair[e]
             Q == pair[f]
  <2>1. /\ Link(P, Q, chan[e], chan[f], CacheOf(e), CacheOf(f), sent[f], recv[e], sent[e],
                recv[f], e[2] \notin aborts)
        /\ PairOK(e) /\ PairOK(f) /\ P \in PairRecord /\ Q \in PairRecord
        /\ f \in End /\ f # e /\ f[1] # p /\ f[2] = e[2]
        /\ chan[e] \in Seq(AnyMessage) /\ chan[f] \in Seq(AnyMessage) /\ f[1] \in Peer
    BY <1>4, EndFacts, Zenon
  <2>2. /\ f \notin used /\ Other(f) = e /\ \A g \in used : g[2] = e[2] => g = e
    BY <1>2, <1>4, <2>1, OtherFacts, Zenon
  <2>3. uuid'[f[1]] = uuid[f[1]]
    BY <1>1, <2>1, Zenon DEF LinksInv, PairTypes
  <2>4. pair'[f] = Q
    BY <1>1, <2>1, <2>2, Zenon
  <2>5. CASE e \notin used
    <3>1. pair'[e] = P /\ chan'[e] = chan[e] /\ chan'[f] = chan[f]
      BY <1>1, <2>1, <2>2, <2>5, Zenon DEF Closed
    <3>2. (e[2] \notin aborts') = (e[2] \notin aborts)
      BY <1>1, <2>2, <2>5, Zenon
    <3>3. CacheOf(e)' = CacheOf(e) /\ CacheOf(f)' = CacheOf(f)
      <4> HIDE DEF f
      <4> QED
        BY <1>1, <2>4, <3>1 DEF CacheOf, Q, P
    <3>4. Received(e)' /\ Received(f)'
      <4>1. Link(pair'[e], pair'[f], chan'[e], chan'[f], CacheOf(e)', CacheOf(f)', sent'[f],
                 recv'[e], sent'[e], recv'[f], e[2] \notin aborts')
        BY <1>1, <2>1, <2>4, <3>1, <3>2, <3>3, Zenon
      <4> QED
        BY <4>1, LinkOf, Zenon
    <3>5. PairOK(e)'
      <4>1. P.open => P.encoder = NoUuid
        BY <1>3, <1>4, <2>5, Zenon
      <4> QED
        BY <1>1, <2>1, <3>1, <3>2, <3>3, <4>1, Zenon DEF PairOK
    <3>6. PairOK(f)'
      BY <1>1, <2>1, <2>3, <2>4, <3>3, Zenon DEF PairOK
    <3> QED
      BY <2>1, <2>4, <3>1, <3>4, <3>5, <3>6, Zenon
  <2>6. CASE e \in used
    <3> DEFINE R2 == IF P.encoder_produced_eos THEN chan[f]
                     ELSE To(Q, chan[f], <<[op |-> "FIN"]>>)
    <3>1. Link(Destroyed(P), Q, <<>>, R2, CacheOf(e), CacheOf(f), sent[f], recv[e], sent[e],
               recv[f], FALSE)
      BY <1>2, <2>1, <2>6, Zenon DEF ConnectionRules, TearsDown
    <3>2. pair'[e] = Destroyed(P) /\ chan'[e] = <<>> /\ chan'[f] = R2
      BY <1>1, <2>1, <2>2, <2>6, Zenon DEF Closed, Send, To
    <3>3. (e[2] \notin aborts') = FALSE
      BY <1>1, <2>6, Zenon
    <3>4. /\ Destroyed(P).encoder = P.encoder /\ Destroyed(P).encoder_window = EmptyWindow
          /\ Destroyed(P).open = FALSE /\ Destroyed(P).decoder_frame_buffer = <<>>
      BY <2>1, Zenon DEF Destroyed, PairRecord
    <3>5. CacheOf(e)' = CacheOf(e) /\ CacheOf(f)' = CacheOf(f)
      <4>1. /\ pair'[e].encoder = pair[e].encoder /\ pair'[f].encoder = pair[f].encoder
            /\ cache' = cache
        BY <1>1, <2>4, <3>2, <3>4, Zenon
      <4> HIDE DEF f
      <4> QED
        BY <4>1, Zenon DEF CacheOf
    <3> HIDE DEF R2
    <3>6. Received(e)' /\ Received(f)'
      <4>1. Link(pair'[e], pair'[f], chan'[e], chan'[f], CacheOf(e)', CacheOf(f)', sent'[f],
                 recv'[e], sent'[e], recv'[f], e[2] \notin aborts')
        BY <1>1, <2>4, <3>1, <3>2, <3>3, <3>5, Zenon
      <4> QED
        BY <4>1, LinkOf, Zenon
    <3>7. PairOK(e)'
      <4>1. SubMap(EmptyWindow.segments, CacheOf(e))
        BY Zenon DEF SubMap, EmptyWindow, EmptyMap
      <4>2. WriterOK(Destroyed(P), CacheOf(e)) /\ Settled(Destroyed(P))
        BY <2>1, <3>4, <4>1, Zenon DEF PairOK, WriterOK, Settled, ConnectionRules, MapsSound
      <4> QED
        BY <3>2, <3>3, <3>4, <3>5, <4>2, Zenon DEF PairOK
    <3>8. PairOK(f)'
      BY <1>1, <2>1, <2>3, <2>4, <3>5, Zenon DEF PairOK
    <3>9. Destroyed(P) \in PairRecord /\ R2 \in Seq(AnyMessage) /\ <<>> \in Seq(AnyMessage)
      BY <3>1, Zenon DEF Link, Half
    <3> QED
      BY <2>1, <2>4, <3>2, <3>6, <3>7, <3>8, <3>9, Zenon
  <2> QED
    BY <2>5, <2>6, Zenon
<1>5. ASSUME NEW g \in End
      PROVE  Received(g)' /\ PairOK(g)' /\ pair'[g] \in PairRecord /\ chan'[g] \in Seq(AnyMessage)
  <2>1. CASE g[1] = p
    BY <1>4, <2>1, Zenon
  <2>2. CASE g[1] # p
    <3>1. Other(g) \in End /\ Other(g)[1] = p /\ Other(Other(g)) = g
      BY <2>2, OtherFacts, Zenon
    <3> QED
      BY <1>4, <3>1, Zenon
  <2> QED
    BY <2>1, <2>2, Zenon
<1>6. CachesOK'
  <2>1. CachesOK /\ faults \in Nat /\ \A q \in Peer : uuid[q] \in Nat
    BY DEF LinksInv, PairTypes, Uuid
  <2>2. \A q \in Peer : uuid'[q] <= faults'
    <3>1. \A q \in Peer : uuid'[q] = IF q = p THEN uuid[q] + 1 ELSE uuid[q]
      BY <1>1, Zenon DEF LinksInv, PairTypes
    <3> QED
      BY <1>1, <2>1, <3>1 DEF CachesOK
  <2>3. ASSUME NEW a \in Peer, NEW b \in Peer, a # b, NEW u \in Uuid
        PROVE  SubMap(caches'[a][u], cache'[b][u])
    <3>1. CASE a = p
      <4>1. caches'[a][u] = EmptyMap
        BY <1>1, <3>1, Zenon DEF LinksInv, PairTypes
      <4> QED
        BY <4>1, Zenon DEF SubMap, EmptyMap
    <3>2. CASE a # p
      <4>1. caches'[a] = caches[a]
        BY <1>1, <3>2, Zenon DEF LinksInv, PairTypes
      <4> QED
        BY <1>1, <2>1, <2>3, <4>1, Zenon DEF CachesOK
    <3> QED
      BY <3>1, <3>2, Zenon
  <2> QED
    BY <1>1, <2>1, <2>2, <2>3, Zenon DEF CachesOK
<1>7. PairTypes'
  <2>1. pair' \in [End -> PairRecord] /\ chan' \in [End -> Seq(AnyMessage)]
    <3>1. pair' = [g \in End |-> pair'[g]] /\ chan' = [g \in End |-> chan'[g]]
      BY <1>1, Zenon
    <3> QED
      BY <1>5, <3>1, Zenon
  <2>2. caches' \in [Peer -> [Uuid -> MapOf(Hash, Segment)]]
    BY <1>1, Zenon DEF LinksInv, PairTypes, ConnectionRules, MapsSound
  <2>3. uuid' \in [Peer -> Uuid] /\ faults' \in 0..MaxFaults
    BY <1>1, PipeAssumption, PipePairAssumption DEF LinksInv, PairTypes, CachesOK, Uuid
  <2>4. aborts' \subseteq Conn
    <3>1. \A e \in used : e[2] \in Conn
      BY <1>2, OtherFacts, Zenon
    <3> QED
      BY <1>1, <3>1, Zenon DEF LinksInv, PairTypes
  <2> QED
    BY <1>1, <2>1, <2>2, <2>3, <2>4, Zenon DEF LinksInv, PairTypes
<1> QED
  BY <1>5, <1>6, <1>7, Zenon DEF LinksInv

\* The inductive invariant holds at first.
LEMMA InitKeeps == ConnectionRules /\ Init => LinksInv
<1> SUFFICES ASSUME ConnectionRules, Init PROVE LinksInv
  OBVIOUS
<1>1. NewPair \in PairRecord /\ EmptyMap \in MapOf(Hash, Segment)
  BY Zenon DEF Half, ConnectionRules, StartsSound
<1>2. 0 \in Uuid /\ faults \in 0..MaxFaults /\ faults = 0
  BY PipeAssumption, PipePairAssumption DEF Init, Uuid
<1>3. PairTypes
  BY <1>1, <1>2 DEF Init, PairTypes
<1>4. CachesOK
  <2>1. /\ \A p \in Peer : uuid[p] = 0
        /\ \A p \in Peer, u \in Uuid : cache[p][u] = EmptyMap /\ caches[p][u] = EmptyMap
    BY Zenon DEF Init
  <2>2. SubMap(EmptyMap, EmptyMap) /\ DOMAIN EmptyMap = {}
    BY Zenon DEF SubMap, EmptyMap
  <2> QED
    BY <1>2, <2>1, <2>2 DEF CachesOK
<1>5. ASSUME NEW e \in End PROVE Received(e) /\ PairOK(e)
  <2>1. Other(e) \in End
    BY OtherFacts, Zenon
  <2>2. /\ \A g \in End : pair[g] = NewPair /\ chan[g] = <<>> /\ sent[g] = <<>> /\ recv[g] = <<>>
        /\ aborts = {}
    BY Zenon DEF Init
  <2>3. \A g \in End : CacheOf(g) = EmptyMap
    BY <2>2 DEF CacheOf, NewPair
  <2>4. (e[2] \notin aborts) = TRUE
    BY <2>2, Zenon
  <2>5. Received(e)
    BY <2>1, <2>2, <2>3, <2>4, Zenon DEF Received, ConnectionRules, StartsSound
  <2>6. Settled(pair[e]) /\ WriterOK(pair[e], CacheOf(e))
    <3>1. WindowInv(EmptyWindow)
      BY Zenon DEF ConnectionRules, MapsSound
    <3>2. SubMap(EmptyWindow.segments, EmptyMap) /\ DOMAIN EmptyMap = {}
      BY Zenon DEF EmptyWindow, SubMap, EmptyMap
    <3> QED
      BY <2>2, <2>3, <3>1, <3>2 DEF Settled, WriterOK, NewPair
  <2> QED
    BY <2>2, <2>5, <2>6 DEF PairOK, NewPair
<1> QED
  BY <1>3, <1>4, <1>5, Zenon DEF LinksInv

\* Every step preserves the invariant.
LEMMA NextKeeps == ConnectionRules /\ LinksInv /\ [Next]_vars => LinksInv'
<1> SUFFICES ASSUME ConnectionRules, LinksInv, [Next]_vars PROVE LinksInv'
  OBVIOUS
<1>1. ASSUME NEW e \in End, Consume(e) PROVE LinksInv'
  BY <1>1, DecoderConsumeKeeps, Zenon DEF Consume
<1>2. ASSUME NEW e \in End, ConsumeFin(e) PROVE LinksInv'
  BY <1>2, ConsumeFinKeeps, Zenon
<1>3. ASSUME NEW e \in End, Write(e) PROVE LinksInv'
  <2>1. PICK buf \in Inputs : EncoderConsume(e, buf)
    BY <1>3, Zenon DEF Write
  <2>2. buf \in Seq(Segment)
    BY PipeAssumption, PipePairAssumption, Zenon
  <2> QED
    BY <2>1, <2>2, EncoderConsumeKeeps, Zenon
<1>4. ASSUME NEW e \in End, WriteEos(e) PROVE LinksInv'
  <2>1. <<>> \in Seq(Segment)
    OBVIOUS
  <2> QED
    BY <1>4, <2>1, EncoderConsumeKeeps, Zenon DEF WriteEos
<1>5. ASSUME NEW e \in End, Abort(e) PROVE LinksInv'
  BY <1>5, AbortKeeps, Zenon
<1>6. ASSUME NEW p \in Peer, Restart(p) PROVE LinksInv'
  BY <1>6, RestartKeeps, Zenon
<1>7. CASE UNCHANGED vars
  BY <1>7, Zenon DEF vars, LinksInv, PairTypes, CachesOK, Received, PairOK, CacheOf
<1> QED
  BY <1>1, <1>2, <1>3, <1>4, <1>5, <1>6, <1>7, Zenon DEF Next
-----------------------------------------------------------------------------
(***************************************************************************)
(* What it says.                                                           *)
(***************************************************************************)

\* What the invariant says of one end: its pair has its members' types, the pieces of the
\* invariant hold for it.
LEMMA AtEnd ==
  ASSUME LinksInv, NEW e \in End
  PROVE  /\ Other(e) \in End /\ Other(Other(e)) = e /\ pair[e] \in PairRecord
         /\ chan[e] \in Seq(AnyMessage)
         /\ EosOK(pair[e], pair[Other(e)], chan[e])
         /\ AckOK(pair[e], pair[Other(e)], chan[e], sent[Other(e)], recv[e])
         /\ FinOK(pair[e], pair[Other(e)], chan[e])
         /\ e[2] \notin aborts => Asked(pair[e], chan[e], chan[Other(e)])
  BY OtherFacts, Zenon DEF LinksInv, PairTypes, Received, Half

\* No ASSERT fails, decoder_error is never called, and the caches agree.
LEMMA NothingBad == LinksInv => PairAssertsHold /\ NoProtocolError /\ CachesAgree
<1> SUFFICES ASSUME LinksInv PROVE PairAssertsHold /\ NoProtocolError /\ CachesAgree
  OBVIOUS
<1>1. \A e \in End : pair[e].bad = {}
  BY Zenon DEF LinksInv, PairTypes, PairRecord
<1>2. CachesAgree
  BY Zenon DEF LinksInv, CachesOK, PairTypes, CachesAgree
<1> QED
  BY <1>1, <1>2, Zenon DEF PairAssertsHold, NoProtocolError

\* <EOS_ACK> and the shutdown of a channel come after everything is delivered.
LEMMA AckAndShutdown == LinksInv => AckedIsDelivered /\ ShutdownIsClean
<1> SUFFICES ASSUME LinksInv PROVE AckedIsDelivered /\ ShutdownIsClean
  OBVIOUS
<1>1. ASSUME NEW e \in End, pair[e].encoder_sent_eos_ack
      PROVE  recv[e] = sent[Other(e)] /\ pair[Other(e)].encoder_sent_eos
  BY <1>1, AtEnd, Zenon DEF AckOK, EosOK
<1>2. ASSUME NEW e \in End, pair[e].encoder_produced_eos
      PROVE  /\ pair[e].encoder_sent_eos /\ pair[Other(e)].encoder_sent_eos
             /\ recv[e] = sent[Other(e)] /\ recv[Other(e)] = sent[e]
  <2>1. /\ pair[e].encoder_sent_eos_ack /\ pair[Other(e)].encoder_sent_eos_ack
        /\ Other(e) \in End /\ Other(Other(e)) = e
    BY <1>2, AtEnd, Zenon DEF AckOK
  <2> QED
    BY <1>1, <2>1, Zenon
<1> QED
  BY <1>1, <1>2, Zenon DEF AckedIsDelivered, ShutdownIsClean

\* The types of the variables, and what is waited for.
LEMMA TypesAndAsks == LinksInv => PairTypeOK /\ UnknownIsAsked
<1> SUFFICES ASSUME LinksInv PROVE PairTypeOK /\ UnknownIsAsked
  OBVIOUS
<1>1. ASSUME NEW e \in End
      PROVE  /\ pair[e].decoder \in Uuid \cup {NoUuid}
             /\ pair[e].decoder_window \in Window /\ pair[e].encoder_window \in Window
             /\ pair[e].decoder_unknown_hashes \subseteq Hash
             /\ pair[e].decoder_frame_buffer \in Seq(Unit)
  BY AtEnd, Zenon DEF PairRecord
<1>2. ASSUME NEW e \in End, NEW i \in DOMAIN chan[e]
      PROVE  \/ chan[e][i] \in Message
             \/ chan[e][i].op = "FRAME" /\ Len(chan[e][i].units) \in 1..MAX_FRAME
  <2>1. chan[e][i] \in AnyMessage
    BY AtEnd
  <2> QED
    BY <2>1, Zenon DEF AnyMessage
<1>3. ASSUME NEW e \in End, NEW i \in DOMAIN pair[e].decoder_frame_buffer
      PROVE  pair[e].decoder_frame_buffer[i] \in Unit
  BY <1>1
<1>4. PairTypeOK
  BY <1>1, <1>2, <1>3, Zenon DEF LinksInv, PairTypes, PairTypeOK
<1>5. ASSUME NEW e \in End, NEW h \in pair[e].decoder_unknown_hashes, e[2] \notin aborts,
             ~\E i \in DOMAIN chan[e] : chan[e][i].op = "LEARN" /\ HashOf[chan[e][i].seg] = h
      PROVE  \E i \in DOMAIN chan[Other(e)] : chan[Other(e)][i] = [op |-> "ASK", hash |-> h]
  <2> DEFINE R == chan[Other(e)]
             C == chan[e]
  <2>1. R \in Seq(AnyMessage) /\ C \in Seq(AnyMessage) /\ Asked(pair[e], C, R)
    BY <1>5, AtEnd, Zenon
  <2>2. ~\E i \in 1..Len(C) : C[i].op = "LEARN" /\ HashOf[C[i].seg] = h
    BY <1>5, <2>1
  <2> HIDE DEF R, C
  <2>3. PICK i \in 1..Len(R) : R[i].op = "ASK" /\ R[i].hash = h
    BY <1>5, <2>1, <2>2, Zenon DEF Asked
  <2>4. R[i] \in AnyMessage /\ i \in DOMAIN R
    BY <2>1
  <2>5. R[i] = [op |-> "ASK", hash |-> h]
    BY <2>3, <2>4, Zenon DEF AnyMessage, Message
  <2> QED
    BY <2>4, <2>5, Zenon DEF R
<1> QED
  BY <1>4, <1>5, Zenon DEF UnknownIsAsked

\* At an open end, what has been delivered is a first part of what was written.
LEMMA DeliveredSoFar ==
  ASSUME ConnectionRules, LinksInv, NEW e \in End, pair[e].open
  PROVE  /\ recv[e] \in Seq(Segment) /\ sent[Other(e)] \in Seq(Segment)
         /\ StartsWith(sent[Other(e)], recv[e])
<1>1. Other(e) \in End
  BY AtEnd, Zenon
<1>2. recv[e] \in Seq(Segment) /\ sent[Other(e)] \in Seq(Segment)
  BY <1>1, Zenon DEF LinksInv, PairTypes
<1>3. Delivers(pair[e], pair[Other(e)], chan[e], CacheOf(Other(e)), sent[Other(e)], recv[e])
  BY Zenon DEF LinksInv, Received, Half
<1>4. PICK U, pos, T : Carries(pair[e], pair[Other(e)], chan[e], CacheOf(Other(e)),
                               sent[Other(e)], recv[e], U, pos, T)
  BY <1>3, Zenon DEF Delivers
<1>5. /\ IsTrace(CacheOf(Other(e)), U, T) /\ U \in Seq(Unit)
      /\ T[Len(U)].out = sent[Other(e)] /\ T[0].out = recv[e]
  BY <1>4, Zenon DEF Carries, Flat
<1>6. StartsWith(T[Len(U)].out, T[0].out)
  BY <1>5, Zenon DEF ConnectionRules, OutputGrows
<1> QED
  BY <1>2, <1>5, <1>6, Zenon

\* Everything the client at the other end wrote has been delivered, and it has closed.
Whole(e) == recv[e] = sent[Other(e)] /\ pair[Other(e)].encoder_sent_eos

\* An open end passes EOS on when all is delivered, or the connection is broken.
LEMMA EndedIsWhole ==
  ASSUME ConnectionRules, LinksInv, NEW e \in End, pair[e].open, pair[e].decoder_sent_eos
  PROVE  /\ Whole(e) \/ e[2] \in aborts
         /\ chan[e] # <<>> => Whole(e)
<1> DEFINE P == pair[e]
           Q == pair[Other(e)]
           C == chan[e]
<1>1. CASE P.decoder_received_eos /\ P.decoder_frame_buffer = <<>>
  <2>1. Q.encoder_sent_eos /\ None(C, "FRAME") /\ P \in PairRecord /\ C \in Seq(AnyMessage)
    BY <1>1, AtEnd, Zenon DEF EosOK
  <2>2. Delivers(P, Q, C, CacheOf(Other(e)), sent[Other(e)], recv[e])
    BY Zenon DEF LinksInv, Received, Half
  <2>3. recv[e] = sent[Other(e)]
    <3> HIDE DEF P, Q, C
    <3> QED
      BY <1>1, <2>1, <2>2 DEF ConnectionRules, DecodesAll
  <2> QED
    BY <2>1, <2>3, Zenon DEF Whole
<1>2. CASE C = <<>> /\ Q.encoder_produced_eos
  <2>1. ShutdownIsClean /\ Other(e) \in End /\ Other(Other(e)) = e
    BY AtEnd, AckAndShutdown, Zenon
  <2> QED
    BY <1>2, <2>1, Zenon DEF ShutdownIsClean, Whole
<1>3. CASE C = <<>> /\ ~Q.open
  <2>1. Other(e) \in End /\ Other(e)[2] = e[2]
    BY OtherFacts, Zenon
  <2>2. e[2] \in aborts
    BY <1>3, <2>1, Zenon DEF LinksInv, PairOK
  <2> QED
    BY <1>3, <2>2, Zenon
<1> QED
  BY <1>1, <1>2, <1>3, AtEnd, Zenon DEF FinOK

\* What the invariant says of the streams: an open end has delivered a first part of what
\* was written, and passes EOS on when that is all, or the connection is broken.
StreamOK ==
    \A e \in End : pair[e].open =>
      /\ recv[e] \in Seq(Segment) /\ sent[Other(e)] \in Seq(Segment)
      /\ StartsWith(sent[Other(e)], recv[e])
      /\ pair[e].decoder_sent_eos => /\ Whole(e) \/ e[2] \in aborts
                                     /\ chan[e] # <<>> => Whole(e)

\* Every connection is in a state of a reliable stream.
LEMMA StreamsSound == ConnectionRules /\ LinksInv => StreamOK
  BY DeliveredSoFar, EndedIsWhole, Zenon DEF StreamOK
-----------------------------------------------------------------------------
(***************************************************************************)
(* Every step is one of the abstract stream.                               *)
(***************************************************************************)

\* A step that delivers is a step of the abstract stream.
LEMMA ReadStep ==
  ASSUME StreamOK, StreamOK', NEW e \in End, Reads(e), chan[e] # <<>>, Other(e) \in End,
         Other(e) # e, recv \in [End -> Seq(Segment)]
  PROVE  Stream!Read(e) \/ UNCHANGED Stream!vars
<1> DEFINE f == Other(e)
           S == sent[f]
           V == recv[e]
           V2 == recv'[e]
<1>1. /\ V \in Seq(Segment) /\ S \in Seq(Segment) /\ StartsWith(S, V)
      /\ V2 \in Seq(Segment) /\ StartsWith(S, V2) /\ Len(V) <= Len(V2)
      /\ sent'[f] = S /\ pair'[f] = pair[f]
  BY Zenon DEF StreamOK, StartsWith, Reads
<1>2. /\ \A g \in End : /\ pair'[g].encoder_sent_eos = pair[g].encoder_sent_eos
                        /\ g # e => pair'[g].decoder_sent_eos = pair[g].decoder_sent_eos
      /\ pair[e].decoder_sent_eos => pair'[e].decoder_sent_eos
      /\ recv' = [recv EXCEPT ![e] = V2] /\ sent' = sent /\ aborts' = aborts
  BY Zenon DEF Reads, EncoderKept
<1>3. /\ {g \in End : pair'[g].encoder_sent_eos} = {g \in End : pair[g].encoder_sent_eos}
      /\ {g \in End : g[2] \in aborts'} = {g \in End : g[2] \in aborts}
  BY <1>2, Zenon
<1>4. CASE pair[e].decoder_sent_eos
  <2>1. V = S
    BY <1>4, Zenon DEF StreamOK, Reads, Whole
  <2>2. V2 = V
    <3> HIDE DEF V, V2, S
    <3> QED
      BY <1>1, <2>1 DEF StartsWith
  <2>3. recv' = recv
    BY <1>2, <2>2, Zenon
  <2>4. {g \in End : pair'[g].decoder_sent_eos} = {g \in End : pair[g].decoder_sent_eos}
    BY <1>2, <1>4, Zenon
  <2> QED
    BY <1>2, <1>3, <2>3, <2>4, Zenon DEF Stream!vars
<1>5. CASE ~pair[e].decoder_sent_eos
  <2>1. Len(V2) \in Len(V)..Len(S) /\ V2 = SubSeq(S, 1, Len(V2))
    <3> HIDE DEF V, V2, S
    <3>1. Len(V) \in Nat /\ Len(V2) \in Nat /\ Len(S) \in Nat /\ Len(V2) <= Len(S)
      BY <1>1 DEF StartsWith
    <3>2. /\ SubSeq(S, 1, Len(V2)) \in Seq(Segment) /\ Len(SubSeq(S, 1, Len(V2))) = Len(V2)
          /\ \A i \in 1..Len(V2) : SubSeq(S, 1, Len(V2))[i] = S[i]
      BY <1>1, <3>1
    <3> QED
      BY <1>1, <3>1, <3>2 DEF StartsWith
  <2>2. CASE ~pair'[e].decoder_sent_eos
    <3>1. {g \in End : pair'[g].decoder_sent_eos} = {g \in End : pair[g].decoder_sent_eos}
      BY <1>2, <1>5, <2>2, Zenon
    <3> QED
      BY <1>2, <1>3, <1>5, <2>1, <3>1, Zenon DEF Stream!Read
  <2>3. CASE pair'[e].decoder_sent_eos
    <3>1. {g \in End : pair'[g].decoder_sent_eos}
             = {g \in End : pair[g].decoder_sent_eos} \cup {e}
      BY <1>2, <1>5, <2>3, Zenon
    <3>2. Whole(e)' \/ e[2] \in aborts'
      BY <2>3, Zenon DEF StreamOK, Reads
    <3>3. \/ f \in {g \in End : pair[g].encoder_sent_eos} /\ V2 = S
          \/ e \in {g \in End : g[2] \in aborts}
      BY <1>1, <1>2, <3>2, Zenon DEF Whole
    <3> QED
      BY <1>2, <1>3, <1>5, <2>1, <3>1, <3>3, Zenon DEF Stream!Read, Stream!Complete
  <2> QED
    BY <2>2, <2>3, Zenon
<1> QED
  BY <1>4, <1>5, Zenon

\* A client writes or closes.
LEMMA WriteStep ==
  ASSUME LinksInv, NEW e \in End, NEW buf \in Seq(Segment), EncoderConsume(e, buf)
  PROVE  Stream!Write(e)
<1>1. /\ sent \in [End -> Seq(Segment)] /\ pair \in [End -> PairRecord]
      /\ sent[e] \in Seq(Segment) /\ pair[e] \in PairRecord
  BY Zenon DEF LinksInv, PairTypes
<1>2. /\ ~pair[e].encoder_sent_eos /\ sent' = [sent EXCEPT ![e] = @ \o buf]
      /\ recv' = recv /\ aborts' = aborts
  BY Zenon DEF EncoderConsume
<1>3. /\ pair'[e].encoder_sent_eos = (buf = <<>>)
      /\ pair'[e].decoder_sent_eos = pair[e].decoder_sent_eos
      /\ \A g \in End : g # e => pair'[g] = pair[g]
  BY <1>1, Zenon DEF EncoderConsume, PairRecord
<1>4. /\ {g \in End : pair'[g].decoder_sent_eos} = {g \in End : pair[g].decoder_sent_eos}
      /\ {g \in End : g[2] \in aborts'} = {g \in End : g[2] \in aborts}
  BY <1>2, <1>3, Zenon
<1>5. CASE buf = <<>>
  <2>1. sent' = sent
    BY <1>1, <1>2, <1>5
  <2>2. {g \in End : pair'[g].encoder_sent_eos} = {g \in End : pair[g].encoder_sent_eos} \cup {e}
    BY <1>3, <1>5, Zenon
  <2> QED
    BY <1>2, <1>4, <2>1, <2>2, Zenon DEF Stream!Write
<1>6. CASE buf # <<>>
  <2>1. {g \in End : pair'[g].encoder_sent_eos} = {g \in End : pair[g].encoder_sent_eos}
    BY <1>2, <1>3, <1>6, Zenon
  <2>2. sent'[e] = sent[e] \o buf /\ sent' = [sent EXCEPT ![e] = sent'[e]]
    BY <1>1, <1>2, Zenon
  <2>3. sent[e] = SubSeq(sent[e] \o buf, 1, Len(sent[e]))
    BY <1>1
  <2> QED
    BY <1>2, <1>4, <2>1, <2>2, <2>3, Zenon DEF Stream!Write
<1> QED
  BY <1>5, <1>6, Zenon

\* A connection breaks.
LEMMA BreakStep ==
  ASSUME LinksInv, aborts \subseteq aborts', UNCHANGED <<sent, recv>>,
         \A g \in End : pair'[g] = pair[g] \/ pair'[g] = Destroyed(pair[g])
  PROVE  Stream!Break
<1>1. pair \in [End -> PairRecord]
  BY Zenon DEF LinksInv, PairTypes
<1>2. \A g \in End : /\ pair'[g].encoder_sent_eos = pair[g].encoder_sent_eos
                     /\ pair'[g].decoder_sent_eos = pair[g].decoder_sent_eos
  <2>1. ASSUME NEW P \in PairRecord
        PROVE  /\ Destroyed(P).encoder_sent_eos = P.encoder_sent_eos
               /\ Destroyed(P).decoder_sent_eos = P.decoder_sent_eos
    BY Zenon DEF Destroyed, PairRecord
  <2> QED
    BY <1>1, <2>1, Zenon
<1> QED
  BY <1>2, Zenon DEF Stream!Break

\* Every step is a step of the abstract stream, or none.
LEMMA StepSimulates ==
  ConnectionRules /\ LinksInv /\ LinksInv' /\ StreamOK /\ StreamOK' /\ [Next]_vars
     => [Stream!Next]_(Stream!vars)
<1> SUFFICES ASSUME ConnectionRules, LinksInv, LinksInv', StreamOK, StreamOK', [Next]_vars
             PROVE  Stream!Next \/ UNCHANGED Stream!vars
  OBVIOUS
<1>1. ASSUME NEW e \in End, Consume(e) \/ ConsumeFin(e)
      PROVE  Stream!Next \/ UNCHANGED Stream!vars
  <2>1. /\ Other(e) \in End /\ Other(e) # e /\ chan[e] \in Seq(AnyMessage)
        /\ pair[e] \in PairRecord /\ recv \in [End -> Seq(Segment)]
    BY OtherFacts, Zenon DEF LinksInv, PairTypes
  <2>2. CASE Consume(e)
    <3>1. PICK n \in 1..Len(chan[e]), partial \in BOOLEAN : DecoderConsume(e, n, partial)
      BY <2>2, Zenon DEF Consume
    <3>2. Reads(e)
      BY <3>1, DecoderConsumeKeeps, Zenon
    <3>3. chan[e] # <<>>
      BY <2>1
    <3> QED
      BY <2>1, <3>2, <3>3, ReadStep, Zenon DEF Stream!Next
  <2>3. CASE ConsumeFin(e)
    <3>1. chan[e] # <<>> /\ recv' = recv
      BY <2>3, Zenon DEF ConsumeFin
    <3>2. recv[e] \in Seq(Segment) /\ recv \in [End -> Seq(Segment)] /\ pair \in [End -> PairRecord]
      BY Zenon DEF LinksInv, PairTypes
    <3>3. pair'[e] = [pair[e] EXCEPT !.decoder_sent_eos = TRUE] /\ pair[e].open
      BY <2>3, <3>2, Zenon DEF ConsumeFin
    <3>4. pair'[e].open /\ EncoderKept(pair[e], pair'[e])
      BY <2>1, <3>3, Zenon DEF PairRecord, EncoderKept
    <3>5. Reads(e)
      BY <2>3, <3>1, <3>2, <3>3, <3>4 DEF Reads, ConsumeFin
    <3> QED
      BY <2>1, <3>1, <3>5, ReadStep, Zenon DEF Stream!Next
  <2> QED
    BY <1>1, <2>2, <2>3, Zenon
<1>2. ASSUME NEW e \in End, Write(e) \/ WriteEos(e) PROVE Stream!Next
  <2>1. PICK buf \in Seq(Segment) : EncoderConsume(e, buf)
    <3>1. <<>> \in Seq(Segment) /\ Inputs \subseteq Seq(Segment)
      BY PipeAssumption, PipePairAssumption
    <3> QED
      BY <1>2, <3>1, Zenon DEF Write, WriteEos
  <2> QED
    BY <2>1, WriteStep, Zenon DEF Stream!Next
<1>3. ASSUME NEW e \in End, Abort(e) PROVE Stream!Next
  <2>1. pair \in [End -> PairRecord]
    BY Zenon DEF LinksInv, PairTypes
  <2>2. /\ aborts \subseteq aborts' /\ UNCHANGED <<sent, recv>>
        /\ \A g \in End : pair'[g] = pair[g] \/ pair'[g] = Destroyed(pair[g])
    BY <1>3, <2>1, Zenon DEF Abort
  <2> QED
    BY <2>2, BreakStep, Zenon DEF Stream!Next
<1>4. ASSUME NEW p \in Peer, Restart(p) PROVE Stream!Next
  <2>1. /\ aborts \subseteq aborts' /\ UNCHANGED <<sent, recv>>
        /\ \A g \in End : pair'[g] = pair[g] \/ pair'[g] = Destroyed(pair[g])
    BY <1>4, Zenon DEF Restart
  <2> QED
    BY <2>1, BreakStep, Zenon DEF Stream!Next
<1>5. CASE UNCHANGED vars
  BY <1>5, Zenon DEF vars, Stream!vars
<1> QED
  BY <1>1, <1>2, <1>3, <1>4, <1>5, Zenon DEF Next

\* At first nothing is written, read, closed or broken.
LEMMA InitSimulates == Init => Stream!Init
<1> SUFFICES ASSUME Init PROVE Stream!Init
  OBVIOUS
<1>1. \A e \in End : ~pair[e].encoder_sent_eos /\ ~pair[e].decoder_sent_eos
  BY Zenon DEF Init, NewPair
<1> QED
  BY <1>1, Zenon DEF Init, Stream!Init
=============================================================================
