-------------------------- MODULE SSHTransportPipe --------------------------
(***************************************************************************)
(* The receiving side of an SSH::TransportPipe: it takes the bytes of a    *)
(* peer as they come, in whatever pieces, finds the packets in them,       *)
(* decrypts them from when the peer says NEWKEYS, gives the messages of    *)
(* the negotiation and the key exchange to those, which answer through     *)
(* send, and passes the others to the callback of receive, one for each    *)
(* call.                                                                   *)
(*                                                                         *)
(* A byte is its position in the peer's stream, which is an identification *)
(* line of IdLength bytes and the packets that send makes of a script of   *)
(* messages; what input_buffer_ holds is then given by where it starts and *)
(* how much has arrived.  The numbers in a packet are right for whoever    *)
(* reads them where the packet starts, and with the peer's algorithms and  *)
(* sequence number.  What a cipher without keys makes of a packet is not   *)
(* said, and a pipe that has used one is not followed any further.  The    *)
(* end of the peer's stream, of which the code tells no one who waits to   *)
(* receive, is not modelled.                                               *)
(***************************************************************************)
EXTENDS Naturals, Sequences, SequencesExt

CONSTANTS Scripts,    \* what a peer sends: sequences of messages, a kind and a length
          Ciphers,    \* what the negotiation chooses: a block size and the size of a MAC
          Chunks      \* the sizes of the pieces in which bytes arrive

IdLength == 2

VARIABLES
    role,      \* of the session
    script,    \* the peer's messages
    cipher,    \* chosen_algorithms_.remote_to_local_
    arrived,   \* how many bytes have arrived
    state,     \* state_
    front,     \* the position of the first byte of input_buffer_
    first,     \* first_block_ holds the block before that, decrypted
    active,    \* active_algorithms_ are the chosen ones, and point to them
    keyed,     \* these have their keys
    number,    \* remote_sequence_number_
    receiver,  \* receive_callback_ is "set", receive_action_ "scheduled", or "none"
    passed,    \* the messages passed to the callback, by their places in the script
    sent,      \* the messages that send was given
    ready,     \* ready_
    bad        \* the checks that failed, and the errors produced

input == <<front, first, active, keyed, number, receiver, passed, sent, ready, bad>>
vars == <<role, script, cipher, arrived, state, input>>
-----------------------------------------------------------------------------
(***************************************************************************)
(* TransportPipe::send: the lengths of a packet.  Without encryption a     *)
(* block is 8 bytes and there is no MAC.                                   *)
(***************************************************************************)
Plain == [block |-> 8, mac |-> 0]
Max8(n) == IF n < 8 THEN 8 ELSE n

\* Mutant: the padding alone makes the packet a number of blocks.
PaddingLengthShort(length, c) == 4 + (Max8(c.block) - ((1 + length) % Max8(c.block)))

PaddingLength(length, c) ==
    4 + (Max8(c.block) - ((4 + 1 + length + 4) % Max8(c.block)))

PacketLength(length, c) == 1 + length + PaddingLength(length, c)

\* The peer sends with the chosen algorithms after its NEWKEYS.
CipherOf(i) ==
    IF \E j \in 1..(i - 1) : script[j].kind = "newkeys" THEN cipher ELSE Plain
Wire(i) == 4 + PacketLength(script[i].length, CipherOf(i)) + CipherOf(i).mac
StartOf(i) == FoldLeft(+, IdLength, [j \in 1..(i - 1) |-> Wire(j)])
Total == StartOf(Len(script) + 1)
-----------------------------------------------------------------------------
(***************************************************************************)
(* AlgorithmNegotiation::input and DiffieHellmanGroupExchange::input: what *)
(* is sent in answer to a message.                                         *)
(***************************************************************************)
Answer(kind) ==
    CASE kind = "kexinit" -> IF role = "client" THEN <<"request">> ELSE <<>>
      [] kind = "request" -> <<"group">>
      [] kind = "group" -> <<"initialize">>
      [] kind = "initialize" -> <<"reply">>
      [] kind = "newkeys" -> <<"newkeys">>
      [] OTHER -> <<>>

Failed(p) == [p EXCEPT !.bad = @ \cup {"error"}]
Unkeyed(p) == [p EXCEPT !.bad = @ \cup {"unkeyed"}]

\* Handled by them.  A negotiation replaces the chosen algorithms by clones without
\* keys.  NEWKEYS gives these their keys and makes them the active ones; but what
\* is copied then are pointers to the chosen ones, so that the next negotiation
\* replaces the algorithms in use, and its answer is sent with them.  With the
\* last message of a key exchange the pipe is ready.
Handle(p, kind) ==
    LET q == [p EXCEPT !.sent = @ \o Answer(kind), !.active = @ \/ kind = "newkeys",
                       !.keyed = kind = "newkeys" \/ (@ /\ kind # "kexinit"),
                       !.ready = @ \/ kind \in {"initialize", "reply"}]
    IN  IF q.active /\ ~q.keyed /\ Answer(kind) # <<>> THEN Unkeyed(q) ELSE q

\* A packet, of which all is there, is taken out: i is its place in the script.
\* Decryption is of whole blocks, and the MAC is compared.
Take(p, i, c) ==
    LET length == 4 + PacketLength(script[i].length, c)
        q == [p EXCEPT !.front = StartOf(i) + length + c.mac, !.first = FALSE, !.number = @ + 1]
    IN  IF p.active /\ (length % Max8(c.block) # 0 \/ p.number # i - 1) THEN Failed(p)
        ELSE IF script[i].kind # "data" THEN Handle(q, script[i].kind)
        ELSE [q EXCEPT !.passed = Append(@, i), !.receiver = "scheduled"]

\* Mutant: a first block is decrypted each time.
ReceiveBlockAgain(p, c) ==
    IF p.active THEN [p EXCEPT !.front = @ + Max8(c.block), !.first = TRUE] ELSE p

\* The first block of a packet that is encrypted is decrypted, once.
ReceiveBlock(p, c) ==
    LET q == [p EXCEPT !.front = @ + Max8(c.block), !.first = TRUE]
    IN  IF ~p.active \/ p.first THEN p ELSE IF p.keyed THEN q ELSE Unkeyed(q)

\* TransportPipe::receive_do, from what p says of the pipe, with what has arrived up
\* to end: packets are taken out until one goes to the receiver, or one has not
\* arrived completely.
RECURSIVE ReceiveDo(_, _)
ReceiveDo(p, end) ==
    LET c == IF p.active THEN cipher ELSE Plain
        block == Max8(c.block)
        q == ReceiveBlock(p, c)
        at == IF q.first THEN q.front - block ELSE q.front
        here == {i \in DOMAIN script : StartOf(i) = at}
    IN  IF p.bad # {} \/ end - p.front <= block THEN p
        ELSE IF q.bad # {} THEN q
        ELSE IF here = {} THEN Failed(q)
        ELSE LET i == CHOOSE j \in here : TRUE
                 next == Take(q, i, c)
             IN  IF end - at < 4 + PacketLength(script[i].length, c) + c.mac THEN q
                 ELSE IF next.receiver = "set" /\ next.bad = {} THEN ReceiveDo(next, end)
                 ELSE next

\* The pipe is as p says.
Becomes(p) ==
    /\ front' = p.front /\ first' = p.first /\ active' = p.active /\ keyed' = p.keyed
    /\ number' = p.number
    /\ receiver' = p.receiver /\ passed' = p.passed /\ sent' = p.sent /\ ready' = p.ready
    /\ bad' = p.bad
-----------------------------------------------------------------------------
Init ==
    /\ \E s \in Scripts : role = s.role /\ script = s.messages
    /\ cipher \in Ciphers
    /\ arrived = 0 /\ state = "GetIdentificationString" /\ front = 0 /\ first = FALSE
    /\ active = FALSE /\ keyed = FALSE /\ number = 0 /\ receiver = "none" /\ passed = <<>> /\ sent = <<>>
    /\ ready = FALSE /\ bad = {}

Now ==
    [front |-> front, first |-> first, active |-> active, keyed |-> keyed, number |-> number,
     receiver |-> receiver, passed |-> passed, sent |-> sent, ready |-> ready, bad |-> bad]

\* TransportPipe::consume: with the identification line of the peer, the
\* negotiation is begun.
Consume ==
    \E n \in Chunks \cup {Total - arrived} :
        /\ 0 < n /\ arrived + n <= Total
        /\ arrived' = arrived + n
        /\ LET known == state = "GetIdentificationString" /\ arrived' >= IdLength
               p == IF known THEN [Now EXCEPT !.front = IdLength, !.sent = <<"kexinit">>] ELSE Now
           IN  /\ state' = IF known THEN "GetPacket" ELSE state
               /\ Becomes(IF state' = "GetPacket" /\ receiver = "set"
                          THEN ReceiveDo(p, arrived') ELSE p)
        /\ UNCHANGED <<role, script, cipher>>

\* TransportPipe::receive
Receive ==
    /\ receiver = "none"
    /\ LET p == [Now EXCEPT !.receiver = "set"] IN
       Becomes(IF state = "GetPacket" THEN ReceiveDo(p, arrived) ELSE p)
    /\ UNCHANGED <<role, script, cipher, arrived, state>>

\* The callback is called, and cancels its Action; or the Action is cancelled
\* earlier: receive_cancel.
ReceiveOver ==
    /\ receiver # "none" /\ receiver' = "none"
    /\ UNCHANGED <<role, script, cipher, arrived, state, front, first, active, keyed,
                   number, passed, sent, ready, bad>>

Next == Consume \/ Receive \/ ReceiveOver

Spec == Init /\ [][Next]_vars
-----------------------------------------------------------------------------
\* The types of the members of TransportPipe.
TransportTypeOK ==
    /\ state \in {"GetIdentificationString", "GetPacket"}
    /\ arrived \in 0..Total /\ front \in 0..Total /\ receiver \in {"set", "scheduled", "none"}

\* The peer has begun a negotiation under keys, and the algorithms in use have none.
Renegotiated ==
    \E k \in 1..number : /\ script[k].kind = "kexinit"
                         /\ \E j \in 1..(k - 1) : script[j].kind = "newkeys"
                         /\ \A j \in (k + 1)..number : script[j].kind # "newkeys"

\* The packets of a peer are found where they start, whole and with the number they
\* were sent with, across the change of keys too: nothing is taken for a
\* wrong packet, and what the pipe has answered is what it was asked.  A cipher
\* without keys is used after a negotiation under keys, and only then: by the
\* answer of a client, and for the next packet.
PacketsAreFound ==
    /\ "error" \notin bad /\ front <= arrived
    /\ "unkeyed" \in bad <=> Renegotiated /\ (role = "client" \/ first)
    /\ state = "GetPacket" =>
         /\ front = StartOf(number + 1) + (IF first THEN Max8(cipher.block) ELSE 0)
         /\ active = (\E j \in 1..number : script[j].kind = "newkeys")
         /\ sent = FoldLeft(LAMBDA s, m : s \o Answer(m.kind), <<"kexinit">>,
                            SubSeq(script, 1, number))

\* The messages that are not of the transport are passed on in the order in which
\* the peer sent them, each once.
PassedInOrder ==
    passed = SelectSeq([i \in 1..number |-> i], LAMBDA i : script[i].kind = "data")

\* A packet of a single block with a MAC no longer than that, whose first block
\* was decrypted before the MAC had arrived.  What remains is not more than a
\* block, which receive_do takes for less than one, and it waits for the next packet.
OneBlock ==
    /\ first /\ 4 + PacketLength(script[number + 1].length, cipher) = Max8(cipher.block)
    /\ arrived - front <= Max8(cipher.block)

\* Whoever waits to receive waits for bytes that have not arrived, but for that
\* case and for a peer that has negotiated anew.
NothingIsKept ==
    /\ receiver = "set" /\ state = "GetPacket" /\ number < Len(script)
    => arrived < StartOf(number + 2) \/ OneBlock \/ Renegotiated
=============================================================================
