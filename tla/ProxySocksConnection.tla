------------------------ MODULE ProxySocksConnection ------------------------
(***************************************************************************)
(* A ProxySocksConnection reads the request of a SOCKS4 or SOCKS5 client   *)
(* a field at a time, answers it, and hands the socket to a ProxyConnector *)
(* for the address asked for, or closes it.  It runs in the EventThread,   *)
(* with one read, write or close outstanding at a time; a read is here     *)
(* what module IOHandle shows it to be: it completes with the number of    *)
(* bytes that was asked for, or, if that is 0, with whatever there is.     *)
(*                                                                         *)
(* The client sends its request in parts, the next one when the one before *)
(* was answered, and then data of its own.  Names and users are sequences  *)
(* of bytes; an empty list of methods or an empty name, which SOCKS5 does  *)
(* not have, are not sent.                                                 *)
(***************************************************************************)
EXTENDS Naturals, Sequences

\* What clients want, and how they go about it: records of the version, extra,
\* which is the user for version 4 and the methods that are offered for version
\* 5, the command and the target.
CONSTANT Client

\* A target is an address or a name, and a port.
Target(address, name, port) == [address |-> address, name |-> name, port |-> port]

BigEndian16(n) == <<n \div 256, n % 256>>
BigEndian32(n) == <<n \div 16777216, (n \div 65536) % 256, (n \div 256) % 256, n % 256>>
Data == <<7, 7>>

\* What the client sends: its parts, by the protocols.
Parts(w) ==
    LET t == w.target IN
    IF w.version = 4
    THEN <<<<4, w.command>> \o BigEndian16(t.port) \o BigEndian32(t.address) \o w.extra \o <<0>>,
           Data>>
    ELSE <<<<5, Len(w.extra)>> \o w.extra,
           <<5, w.command, 0>>
             \o (IF t.name = <<>> THEN <<1>> \o BigEndian32(t.address)
                 ELSE <<3, Len(t.name)>> \o t.name)
             \o BigEndian16(t.port),
           Data>>

\* The requests that are granted: to connect, and without authentication.
Granted(w) ==
    /\ w.command = 1
    /\ w.version = 5 => \E i \in DOMAIN w.extra : w.extra[i] = 0

VARIABLES
    wish,     \* what this client asks for
    part,     \* the part the client is sending
    buffer,   \* the bytes that have arrived and were not read
    sent,     \* how many bytes of the part were sent
    failed,   \* the client has closed its end, or the socket has failed
    action,   \* action_: "read", "write", "close" or "none"
    amount,   \* the number of bytes read for
    state,    \* state_
    port,     \* network_port_
    address,  \* network_address_
    authed,   \* socks5_authenticated_
    name,     \* socks5_remote_name_
    replies,  \* the responses that were written
    to,       \* the target of the ProxyConnector that took the socket, if one did
    bad       \* the checks that failed

clientVars == <<wish, part, sent>>
fields == <<port, address, authed, name>>
vars == <<clientVars, buffer, failed, action, amount, state, fields, replies, to, bad>>

Init ==
    /\ wish \in Client /\ part = 1 /\ sent = 0 /\ buffer = <<>> /\ failed = FALSE
    /\ action = "read" /\ amount = 1 /\ state = "Version"
    /\ port = 0 /\ address = 0 /\ authed = FALSE /\ name = <<>>
    /\ replies = <<>> /\ to = <<>> /\ bad = {}
-----------------------------------------------------------------------------
(***************************************************************************)
(* The client, who sends the next part when the one before is answered,    *)
(* and the socket.                                                         *)
(***************************************************************************)
Send ==
    /\ ~failed
    /\ LET p == Parts(wish)
           now == IF sent = Len(p[part]) THEN part + 1 ELSE part
           from == IF now = part THEN sent ELSE 0
       IN  /\ now <= Len(p) /\ now <= Len(replies) + 1
           /\ \E n \in {1, Len(p[now]) - from} :
                /\ buffer' = buffer \o SubSeq(p[now], from + 1, from + n)
                /\ sent' = from + n
           /\ part' = now
    /\ UNCHANGED <<wish, failed, action, amount, state, fields, replies, to, bad>>

Fail ==
    /\ ~failed /\ failed' = TRUE
    /\ UNCHANGED <<clientVars, buffer, action, amount, state, fields, replies, to, bad>>
-----------------------------------------------------------------------------
ScheduleRead(n) == action' = "read" /\ amount' = n
ScheduleClose == action' = "close" /\ UNCHANGED amount
Value(bytes) == IF Len(bytes) = 2 THEN 256 * bytes[1] + bytes[2]
                ELSE 16777216 * bytes[1] + 65536 * bytes[2] + 256 * bytes[3] + bytes[4]

\* ProxySocksConnection::schedule_write: the response is of the state; that to
\* a SOCKS5 request repeats what was asked for, as a name if there is no address.
ScheduleWrite(p) ==
    /\ action' = "write" /\ UNCHANGED amount
    /\ replies' = Append(replies,
         IF state # "5Port" THEN <<state>>
         ELSE IF name # <<>> \/ address = 0 THEN <<state, 3, name, p>>
         ELSE <<state, 1, address, p>>)

\* read_complete where one byte decides: it goes on in state to with a read of
\* n bytes, or closes.
Decide(good, to_, n) ==
    /\ IF good THEN state' = to_ /\ ScheduleRead(n) ELSE ScheduleClose /\ UNCHANGED state
    /\ UNCHANGED <<fields, replies>>

\* GetSOCKSVersion
Version(b) ==
    Decide(b[1] \in {4, 5},
           IF b[1] = 4 THEN "4Command" ELSE IF authed THEN "5Command" ELSE "5AuthLength", 1)

\* GetSOCKS4Command to GetSOCKS4User
Socks4(b) ==
    \/ state = "4Command" /\ Decide(b[1] = 1, "4Port", 2)
    \/ /\ state = "4Port" /\ port' = Value(b) /\ state' = "4Address" /\ ScheduleRead(4)
       /\ UNCHANGED <<address, authed, name, replies>>
    \/ /\ state = "4Address" /\ address' = Value(b) /\ state' = "4User" /\ ScheduleRead(1)
       /\ UNCHANGED <<port, authed, name, replies>>
    \/ /\ state = "4User" /\ UNCHANGED <<state, fields>>
       /\ IF b[1] = 0 THEN ScheduleWrite(port) ELSE ScheduleRead(1) /\ UNCHANGED replies

\* Mutant: only the first method is looked at.
Socks5AuthFirst(b) ==
    \/ state = "5AuthLength" /\ Decide(TRUE, "5Auth", b[1])
    \/ /\ state = "5Auth" /\ UNCHANGED <<state, fields>>
       /\ IF b[1] = 0 THEN ScheduleWrite(port) ELSE ScheduleClose /\ UNCHANGED replies

\* GetSOCKS5AuthLength and GetSOCKS5Auth, which looks for the method 0
Socks5Auth(b) ==
    \/ state = "5AuthLength" /\ Decide(TRUE, "5Auth", b[1])
    \/ /\ state = "5Auth" /\ UNCHANGED <<state, fields>>
       /\ IF \E i \in DOMAIN b : b[i] = 0 THEN ScheduleWrite(port)
          ELSE ScheduleClose /\ UNCHANGED replies

\* GetSOCKS5Command to GetSOCKS5Port
Socks5(b) ==
    \/ state = "5Command" /\ Decide(b[1] = 1, "5Reserved", 1)
    \/ state = "5Reserved" /\ Decide(b[1] = 0, "5AddressType", 1)
    \/ /\ state = "5AddressType"
       /\ IF b[1] = 1 THEN Decide(TRUE, "5Address", 4) ELSE Decide(b[1] = 3, "5NameLength", 1)
    \/ /\ state = "5Address" /\ address' = Value(b) /\ state' = "5Port" /\ ScheduleRead(2)
       /\ UNCHANGED <<port, authed, name, replies>>
    \/ state = "5NameLength" /\ Decide(TRUE, "5Name", b[1])
    \/ /\ state = "5Name" /\ name' = name \o b /\ state' = "5Port" /\ ScheduleRead(2)
       /\ UNCHANGED <<port, address, authed, replies>>
    \/ /\ state = "5Port" /\ port' = Value(b) /\ ScheduleWrite(port')
       /\ UNCHANGED <<state, address, authed, name>>

\* ProxySocksConnection::read_complete with the bytes asked for
ReadComplete ==
    /\ action = "read" /\ buffer # <<>> /\ Len(buffer) >= amount
    /\ LET n == IF amount = 0 THEN Len(buffer) ELSE amount
           got == SubSeq(buffer, 1, n) IN
       /\ buffer' = SubSeq(buffer, n + 1, Len(buffer))
       /\ \/ state = "Version" /\ Version(got)
          \/ Socks4(got) \/ Socks5Auth(got) \/ Socks5(got)
    /\ UNCHANGED <<clientVars, failed, to, bad>>

\* read_complete or write_complete with the end of the stream or an error
Broken ==
    /\ failed /\ action \in {"read", "write"}
    /\ action = "read" => buffer = <<>> \/ Len(buffer) < amount
    /\ ScheduleClose
    /\ UNCHANGED <<clientVars, buffer, failed, state, fields, replies, to, bad>>

\* ProxySocksConnection::write_complete: the version comes once more after the
\* methods, or the ProxyConnector takes the socket.
WriteComplete ==
    /\ action = "write"
    /\ IF state = "5Auth"
       THEN /\ authed' = TRUE /\ state' = "Version" /\ ScheduleRead(1)
            /\ bad' = IF ~authed /\ name = <<>> /\ address = 0 /\ port = 0 THEN bad
                      ELSE bad \cup {"assert"}
            /\ UNCHANGED <<port, address, name, to>>
       ELSE LET named == state = "5Port" /\ name # <<>> IN
            /\ to' = <<IF named THEN Target(0, name, port) ELSE Target(address, <<>>, port)>>
            /\ bad' = IF named => authed /\ address = 0 THEN bad ELSE bad \cup {"assert"}
            /\ action' = "none" /\ UNCHANGED <<amount, state, fields>>
    /\ UNCHANGED <<clientVars, buffer, failed, replies>>

\* ProxySocksConnection::close_complete
CloseComplete ==
    /\ action = "close" /\ action' = "none"
    /\ UNCHANGED <<clientVars, buffer, failed, amount, state, fields, replies, to, bad>>

Step == ReadComplete \/ Broken \/ WriteComplete \/ CloseComplete
Next == Send \/ Fail \/ Step
Spec == Init /\ [][Next]_vars

\* The EventThread runs, and a client goes on until it has sent what it has to
\* send, or closes: no timeout ends a handshake.
FairSpec == Spec /\ WF_vars(Step) /\ WF_vars(Send)
-----------------------------------------------------------------------------
\* The types of the members.
SocksTypeOK ==
    /\ action \in {"read", "write", "close", "none"} /\ amount \in 0..255
    /\ port \in 0..65535 /\ address \in Nat /\ authed \in BOOLEAN
    /\ state \in {"Version", "4Command", "4Port", "4Address", "4User", "5AuthLength", "5Auth",
                  "5Command", "5Reserved", "5AddressType", "5Address", "5NameLength", "5Name",
                  "5Port"}

\* The assertions of ProxySocksConnection hold.
SocksAsserts == bad = {}

\* The ProxyConnector connects to what the client asked for, whatever way the
\* request is cut up, and finds in the socket what the client has sent behind
\* the request; a request that is to be refused does not get that far, and
\* one that is not refused is not lost unless the client or the socket fails.
SocksConnects ==
    /\ to # <<>> => /\ Granted(wish) /\ to = <<wish.target>>
                    /\ buffer = SubSeq(Data, 1, IF part = Len(Parts(wish)) THEN sent ELSE 0)
    /\ action = "none" /\ to = <<>> => failed \/ ~Granted(wish)

\* A SOCKS5 client is told of the target it asked for; an address of zeros comes
\* back as an empty name.
ReplyRepeats ==
    \A i \in DOMAIN replies : replies[i][1] = "5Port" =>
        LET t == wish.target IN
        replies[i] = IF t.name # <<>> THEN <<"5Port", 3, t.name, t.port>>
                     ELSE IF t.address = 0 THEN <<"5Port", 3, <<>>, t.port>>
                     ELSE <<"5Port", 1, t.address, t.port>>

\* The connection comes to an end.
SocksEnds == <>(action = "none")
=============================================================================
