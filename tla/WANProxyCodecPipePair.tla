----------------------- MODULE WANProxyCodecPipePair -----------------------
(***************************************************************************)
(* The Pipes of a proxy: WANProxyCodecPipePair makes two chains of them,   *)
(* incoming for what goes from the listening side to the remote side and   *)
(* outgoing for what comes back, from the codecs that are configured for   *)
(* the two sides.                                                          *)
(*                                                                         *)
(* A codec says whether there is an XCodec and whether there is a          *)
(* compressor; NoCodec is none at all.                                     *)
(***************************************************************************)
EXTENDS Naturals, SequencesExt

Codec == [xcodec : BOOLEAN, compressor : BOOLEAN]
NoCodec == [none |-> TRUE]

When(holds, pipes) == IF holds THEN <<pipes>> ELSE <<>>

\* The Pipes for the codec of the listening side: each with its place in the
\* incoming chain and in the outgoing chain, in the order in which they are made.
\* An XCodecPipePair of the server type decodes what comes in.
IncomingCodec(c) ==
    <<<<"count", "count">>>>
      \o When(c.compressor, <<"inflate", "deflate">>)
      \o When(c.xcodec, <<"decode", "encode">>)
      \o <<<<"count", "count">>>>

\* Mutant: the compressor comes before the XCodec on this side too.
OutgoingCodecSame(c) ==
    <<<<"count", "count">>>>
      \o When(c.compressor, <<"deflate", "inflate">>)
      \o When(c.xcodec, <<"encode", "decode">>)
      \o <<<<"count", "count">>>>

\* The same for the codec of the remote side.
OutgoingCodec(c) ==
    <<<<"count", "count">>>>
      \o When(c.xcodec, <<"encode", "decode">>)
      \o When(c.compressor, <<"deflate", "inflate">>)
      \o <<<<"count", "count">>>>

Pipes(incoming, outgoing) ==
    (IF incoming = NoCodec THEN <<>> ELSE IncomingCodec(incoming))
      \o (IF outgoing = NoCodec THEN <<>> ELSE OutgoingCodec(outgoing))

\* The chains of PipeLinks: the one list is filled at its end, the other at its
\* front.
IncomingChain(incoming, outgoing) ==
    LET p == Pipes(incoming, outgoing) IN [i \in DOMAIN p |-> p[i][1]]
OutgoingChain(incoming, outgoing) ==
    LET p == Pipes(incoming, outgoing) IN Reverse([i \in DOMAIN p |-> p[i][2]])
-----------------------------------------------------------------------------
\* What undoes what a Pipe does to the data.
Undoes == [count |-> "count", inflate |-> "deflate", deflate |-> "inflate",
           encode |-> "decode", decode |-> "encode"]

\* The chain second undoes the chain first, Pipe by Pipe.
Inverts(second, first) ==
    /\ Len(second) = Len(first)
    /\ \A i \in DOMAIN first : second[Len(first) + 1 - i] = Undoes[first[i]]

\* Two proxies with the same codec between them, c, undo what the other does to
\* the data, in both directions; and a proxy that has codecs i and o on its two
\* sides sends back what is the inverse of what it passes on.
ChainsInvert ==
    /\ \A c \in Codec :
         /\ Inverts(IncomingChain(c, NoCodec), IncomingChain(NoCodec, c))
         /\ Inverts(OutgoingChain(NoCodec, c), OutgoingChain(c, NoCodec))
    /\ \A i, o \in Codec \cup {NoCodec} : Inverts(OutgoingChain(i, o), IncomingChain(i, o))
=============================================================================
