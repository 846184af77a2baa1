------------------------------ MODULE MCCodecs ------------------------------
(***************************************************************************)
(* What takes a stream apart that comes in pieces: the decoder of an       *)
(* XCodec stream, the HTTP server with which a proxy is monitored, and the *)
(* transport of a proxy over SSH.  In a behaviour one of them runs, as     *)
(* which says, and the others stay as they are.                            *)
(*                                                                         *)
(* For the XCodec, segments have two bytes over an alphabet of three, one  *)
(* of them the magic byte.  Hashes are taken modulo a small number, so     *)
(* that there are collisions and hash 0; the window has one slot.          *)
(***************************************************************************)
EXTENDS XCodecCodec

VARIABLES
    which,
    text, arrived, over, pipe, asked, output, answers, told, shut, events, handler, httpBad,
    role, script, cipher, received, state, front, first, active, keyed, number, receiver, passed,
    answered, ready, sshBad

httpVars ==
    <<text, arrived, over, pipe, asked, output, answers, told, shut, events, handler, httpBad>>
sshVars ==
    <<role, script, cipher, received, state, front, first, active, keyed, number, receiver, passed,
      answered, ready, sshBad>>

MCSegment == [1..SEGMENT_LENGTH -> Byte]
MCHash == 0..(HASH_MOD - 1)

\* What is sent to the monitor: requests of both kinds, with and without something
\* behind them, and what is not a request.
CrLf == <<"CR", "LF">>
Lf == <<"LF">>
MCTexts ==
    {<<"GET", "/">> \o Lf, <<"GET", "x">> \o CrLf \o <<"PUT">>,
     <<"GET", "/object/x", "HTTP/1.1">> \o CrLf \o <<"Host:", "a">> \o CrLf
       \o <<" ", "b">> \o CrLf \o <<"Accept:">> \o CrLf \o CrLf,
     <<"PUT", "/", "HTTP/1.1">> \o Lf \o Lf \o <<"x">>,
     <<"GET", "/", "HTTP/2">> \o Lf \o <<"Host:">> \o Lf \o Lf,
     <<"GET", "%x", "HTTP/1.1">> \o Lf \o Lf,
     <<"GET", "/", "HTTP/1.1">> \o Lf \o <<" ">> \o Lf \o Lf,
     <<"GET", "/", "HTTP/1.1">> \o Lf \o <<"Host">> \o Lf \o Lf,
     <<"GET", "/", "CR", "x">> \o Lf, <<"GET">> \o Lf, Lf}

Http == INSTANCE HTTPServer WITH Texts <- MCTexts, bad <- httpBad

\* What SSH peers send, with packets of one block and of more, and with a message
\* amid the key exchange; two of them negotiate a second time, under the new keys.
\* The blocks are those of AES, of the other block ciphers and of RC4; the MACs, of
\* MD5 and SHA1, are as long as a block or longer.  A MAC of 12 bytes does not
\* occur, as MAC::clone makes it one of full size.
Message(kind, length) == [kind |-> kind, length |-> length]
MCScripts ==
    {[role |-> "client", messages |->
        <<Message("kexinit", 7), Message("group", 3), Message("reply", 6), Message("newkeys", 1),
          Message("data", 1), Message("data", 7), Message("data", 23), Message("kexinit", 7)>>],
     [role |-> "server", messages |->
        <<Message("kexinit", 15), Message("request", 6), Message("data", 1),
          Message("initialize", 2), Message("newkeys", 1), Message("data", 6),
          Message("data", 2)>>],
     [role |-> "server", messages |->
        <<Message("kexinit", 15), Message("request", 6), Message("initialize", 2),
          Message("newkeys", 1), Message("kexinit", 7), Message("data", 2)>>]}
MCCiphers ==
    {[block |-> 16, mac |-> 20], [block |-> 16, mac |-> 16], [block |-> 8, mac |-> 16],
     [block |-> 1, mac |-> 20]}

Ssh == INSTANCE SSHTransportPipe
       WITH Scripts <- MCScripts, Ciphers <- MCCiphers, Chunks <- {1, 16}, arrived <- received,
            sent <- answered, bad <- sshBad

MCInit ==
    /\ which \in {"xcodec", "http", "ssh"}
    /\ Init /\ Http!Init /\ Ssh!Init
    /\ which # "xcodec" => enc.cache = EmptyMap
    /\ which # "http" => text = Lf
    /\ which # "ssh" => role = "client" /\ cipher = [block |-> 8, mac |-> 16]

MCNext ==
    /\ \/ which = "xcodec" /\ Next /\ UNCHANGED <<httpVars, sshVars>>
       \/ which = "http" /\ Http!Next /\ UNCHANGED <<vars, sshVars>>
       \/ which = "ssh" /\ Ssh!Next /\ UNCHANGED <<vars, httpVars>>
    /\ UNCHANGED which

\* The fairness of HTTPServer; the others need none.
MCSpec ==
    /\ MCInit /\ [][MCNext]_<<which, vars, httpVars, sshVars>>
    /\ WF_httpVars(which = "http" /\ Http!Step)
    /\ WF_httpVars(which = "http" /\ Http!Transfers)

\* XCodecEncoder, XCodecDecoder, HTTPServerPipe, its handler and TransportPipe
\* keep their types and their assertions, in whatever pieces their input comes: the
\* rolling hash is that of the segment, output ends once, and packets are found
\* where they start.
CodecsInv ==
    /\ which = "xcodec" => CodecInv
    /\ which = "http" => Http!HTTPTypeOK /\ Http!HTTPAsserts
    /\ which = "ssh" => Ssh!TransportTypeOK /\ Ssh!PacketsAreFound

\* Out comes what was sent, however it was cut: decode() inverts encode(); an HTTP
\* request is answered once, and for what it is; and the messages that have come
\* over SSH are passed on in order, and none is held back from who waits for it,
\* but for a packet of one block, and for a peer that negotiates under keys.
DecodedAsSent ==
    /\ which = "xcodec" => DecodeInvertsEncode
    /\ which = "http" => Http!AnsweredOnce
    /\ which = "ssh" => Ssh!PassedInOrder /\ Ssh!NothingIsKept

\* A client of the monitor gets its answer, and its handler is deleted.
MonitorProgress == which = "http" => Http!HTTPProgress
=============================================================================
