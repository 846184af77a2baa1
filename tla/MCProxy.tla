------------------------------ MODULE MCProxy ------------------------------
(***************************************************************************)
(* What a proxy is made of, from a connection to its end: a SimpleServer   *)
(* that accepts it, a ProxySocksConnection that reads what is asked for, a *)
(* ProxyConnector, and the Splices it makes.  Each of these models reduces *)
(* its neighbours to the events they schedule, so they share no state: in  *)
(* a behaviour one of them runs, as which says, and the others stay as     *)
(* they are.                                                               *)
(***************************************************************************)
EXTENDS Splice, WANProxyCodecPipePair

CONSTANTS a, b, c, Conn, None

VARIABLES
    which,
    socket, client, pair, stopAct, localAct, remoteAct, spliceAct, mine, gone,
    connectorEvents, ended, stopped, lasting, connectorBad,
    fate, backlog, polling, handle, actions, serverEvents, serverStopped, serverGone, serverBad,
    wish, part, buffer, sent, failed, action, amount, state, port, address, authed, name,
    replies, to, socksBad

connectorVars ==
    <<socket, client, pair, stopAct, localAct, remoteAct, spliceAct, mine, gone,
      connectorEvents, ended, stopped, lasting, connectorBad>>
serverVars ==
    <<fate, backlog, polling, handle, actions, serverEvents, serverStopped, serverGone,
      serverBad>>
socksVars ==
    <<wish, part, buffer, sent, failed, action, amount, state, port, address, authed, name,
      replies, to, socksBad>>

Connector == INSTANCE ProxyConnector WITH events <- connectorEvents, bad <- connectorBad
Server == INSTANCE SimpleServer WITH events <- serverEvents, stopped <- serverStopped,
                                     gone <- serverGone, bad <- serverBad

\* A target and what clients ask for.  The bytes of the address and the port
\* differ, and the user and the name hold bytes that have a meaning elsewhere.
There == [address |-> 16909060, name |-> <<>>, port |-> 8080]
Named == [address |-> 0, name |-> <<97, 0, 5>>, port |-> 8080]
Zeros == [address |-> 0, name |-> <<>>, port |-> 8080]
Asks(version, extra, command, target) ==
    [version |-> version, extra |-> extra, command |-> command, target |-> target]
MCClient ==
    {Asks(4, <<>>, 1, There), Asks(4, <<117, 4>>, 1, There), Asks(4, <<117>>, 2, There),
     Asks(5, <<2, 0>>, 1, There), Asks(5, <<0, 2>>, 1, Named), Asks(5, <<0>>, 1, Zeros),
     Asks(5, <<0>>, 3, There), Asks(5, <<1, 2>>, 1, There)}

Socks == INSTANCE ProxySocksConnection WITH Client <- MCClient, bad <- socksBad

\* A Splice without a Pipe, with one, and with the chains of a proxy that encodes
\* and of one that inflates and decodes.
MCChains ==
    {IncomingChain(NoCodec, NoCodec), <<"decode">>,
     IncomingChain(NoCodec, [xcodec |-> TRUE, compressor |-> FALSE]),
     IncomingChain([xcodec |-> TRUE, compressor |-> TRUE], NoCodec)}

MCInit ==
    /\ which \in {"splice", "connector", "server", "socks"}
    /\ Init /\ Connector!Init /\ Server!Init /\ Socks!Init
    /\ which # "splice" => chain = <<>>
    /\ which # "connector" => client = "connecting" /\ lasting
    /\ which # "socks" => wish = Asks(4, <<>>, 1, There)

MCNext ==
    /\ \/ which = "splice" /\ Next /\ UNCHANGED <<connectorVars, serverVars, socksVars>>
       \/ which = "connector" /\ Connector!Next /\ UNCHANGED <<vars, serverVars, socksVars>>
       \/ which = "server" /\ Server!Next /\ UNCHANGED <<vars, connectorVars, socksVars>>
       \/ which = "socks" /\ Socks!Next /\ UNCHANGED <<vars, connectorVars, serverVars>>
    /\ UNCHANGED which

\* The fairness that each of the modules assumes.
MCSpec ==
    /\ MCInit /\ [][MCNext]_<<which, vars, connectorVars, serverVars, socksVars>>
    /\ WF_vars(which = "splice" /\ Source /\ UNCHANGED chain)
    /\ WF_vars(which = "splice" /\ Sink /\ UNCHANGED chain)
    /\ WF_vars(which = "splice" /\ Step)
    /\ WF_connectorVars(which = "connector" /\ Connector!Fair(Connector!Step))
    /\ WF_connectorVars(which = "connector" /\ Connector!Fair(Connector!Connected))
    /\ WF_connectorVars(which = "connector" /\ Connector!Fair(Connector!SplicesEnd))
    /\ WF_serverVars(which = "server" /\ serverBad = {} /\ Server!Step)
    /\ SF_serverVars(which = "server" /\ serverBad = {} /\ Server!PollDone)
    /\ SF_serverVars(which = "server" /\ serverBad = {} /\ Server!Accepts)
    /\ WF_socksVars(which = "socks" /\ Socks!Step)
    /\ WF_socksVars(which = "socks" /\ Socks!Send)

\* Splice, PipeProducer, PipeLink, ProxyConnector, SplicePair, TCPClient,
\* SimpleServer, SocketHandle and ProxySocksConnection keep their types and
\* their assertions, in whatever order completions and requests to stop come; and
\* as a Splice starts, the chains of Pipes of two proxies undo each other.
ProxyInv ==
    /\ SpliceInv
    /\ which = "splice" /\ Init => ChainsInvert
    /\ Connector!ConnectorInv
    /\ Server!ServerTypeOK /\ Server!ServerAsserts
    /\ Socks!SocksTypeOK /\ Socks!SocksAsserts /\ Socks!ReplyRepeats

\* A ProxyConnector or SimpleServer that was deleted leaves nothing behind that
\* would call it, and its own socket, the local one or that it listened on, is closed.
GoneIsQuiet == Connector!GoneIsQuiet /\ Server!ServerGoneIsQuiet

\* A connection that was accepted is handed on, unless the server is stopped with
\* the callback for it scheduled, which SimpleServer then cancels, and no one closes
\* the Socket; and the ProxyConnector of a SOCKS client connects to what the client asked for,
\* and takes over its socket right behind the request.
ServedAsAsked == Server!AcceptedIsServed /\ Socks!SocksConnects

\* A Splice ends, but for the three cases in which no one passes the end on.
StreamEnds == which = "splice" => SpliceEnds

\* A SimpleServer accepts the connections that wait for it; it and ProxyConnectors
\* are deleted when they are told to stop, and ProxyConnectors when their
\* Splices have ended; a SOCKS handshake comes to an end.
ProxyProgress ==
    /\ which = "connector" => Connector!ConnectorProgress
    /\ which = "server" => Server!ConnectionIsServed /\ Server!ServerStops
    /\ which = "socks" => Socks!SocksEnds
=============================================================================
