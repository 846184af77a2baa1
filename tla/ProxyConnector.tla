--------------------------- MODULE ProxyConnector ---------------------------
(***************************************************************************)
(* A ProxyConnector of wanproxy: it connects to the remote with a          *)
(* TCPClient, splices the local socket and the remote socket together with *)
(* a SplicePair, and closes both sockets and deletes itself when the       *)
(* splices end, the connection fails, or the program is told to stop.      *)
(*                                                                         *)
(* All of it runs in the EventThread, a callback at a time, in the order   *)
(* of events.  A Splice is here what module Splice shows it to be: it runs *)
(* until it ends, once, with EOS or with an error, or is cancelled.        *)
(***************************************************************************)
EXTENDS Naturals, Sequences, SequencesExt

VARIABLES
    socket,    \* the state of the local and of the remote socket
    client,    \* the TCPClient: what it waits for, or "deleted"
    pair,      \* the SplicePair: its callback and the Splices with an Action
    stopAct,   \* stop_action_: "registered", "scheduled" or "none"
    localAct,  \* local_action_ is set
    remoteAct, \* remote_action_: "connect", "close" or "none"
    spliceAct, \* splice_action_ is set
    mine,      \* those of local_socket_ and remote_socket_ that are set
    gone,      \* the ProxyConnector has been deleted
    events,    \* the callbacks scheduled in the EventThread
    ended,     \* how each Splice ended
    stopped,   \* EventThread::stop has been called
    lasting,   \* the peers may keep the Splices going for ever
    bad        \* the checks that failed

connector == <<stopAct, localAct, remoteAct, spliceAct, mine, gone>>
vars == <<socket, client, pair, connector, events, ended, stopped, lasting, bad>>

Side == {"left", "right"}
Event(cb, type) == [cb |-> cb, type |-> type]
Queued(cb) == \E i \in DOMAIN events : events[i].cb = cb
Without(q, cbs) == SelectSeq(q, LAMBDA e : e.cb \notin cbs)

Check(holds) == bad' = IF holds THEN bad ELSE bad \cup {"assert"}

\* The ProxyConnector and its TCPClient are created, and the connection begins
\* unless no socket can be had, when the callback is scheduled at once.
Init ==
    /\ \/ /\ client = "connecting" /\ events = <<>>
          /\ socket = [local |-> "open", remote |-> "open"]
       \/ /\ client = "deleted" /\ events = <<Event("connect", "Error")>>
          /\ socket = [local |-> "open", remote |-> "none"]
    /\ pair = [cb |-> "none", acts |-> {}]
    /\ stopAct = "registered" /\ localAct = FALSE /\ remoteAct = "connect"
    /\ spliceAct = FALSE /\ mine = {"local"} /\ gone = FALSE
    /\ ended = [s \in Side |-> "no"] /\ stopped = FALSE /\ bad = {}
    /\ lasting \in BOOLEAN
-----------------------------------------------------------------------------
(***************************************************************************)
(* Outside the ProxyConnector: the network, the two Splices, and stop.     *)
(***************************************************************************)
Connected ==
    /\ client = "connecting" /\ ~Queued("connected")
    /\ \E type \in {"Done", "Error"} : events' = Append(events, Event("connected", type))
    /\ UNCHANGED <<socket, client, pair, connector, ended, stopped, bad>>

SpliceEnds(s) ==
    /\ s \in pair.acts /\ ~Queued(s)
    /\ \E type \in {"EOS", "Error"} : events' = Append(events, Event(s, type))
    /\ UNCHANGED <<socket, client, pair, connector, ended, stopped, bad>>

\* EventThread::stop: the handlers that are registered are scheduled.
Stop ==
    /\ ~stopped /\ stopped' = TRUE
    /\ stopAct' = IF stopAct = "registered" THEN "scheduled" ELSE stopAct
    /\ events' = IF stopAct = "registered" THEN Append(events, Event("stop", "Done")) ELSE events
    /\ UNCHANGED <<socket, client, pair, localAct, remoteAct, spliceAct, mine, gone, ended, bad>>
-----------------------------------------------------------------------------
(***************************************************************************)
(* TCPClient and SplicePair                                                *)
(***************************************************************************)
\* TCPClient::connect_complete passes the event and the Socket on.
ClientConnectComplete(e, rest) ==
    /\ client' = "scheduled" /\ events' = Append(rest, Event("connect", e.type))
    /\ UNCHANGED <<socket, pair, connector, ended, stopped, bad>>

\* TCPClient::close_complete
ClientCloseComplete(rest) ==
    /\ client' = "deleted" /\ events' = rest
    /\ socket' = [socket EXCEPT !.remote = "closed"]
    /\ UNCHANGED <<pair, connector, ended, stopped, bad>>

\* Mutant: nothing is cancelled.
ConnectCancelNot(q, s) == [client |-> client, events |-> q, socket |-> s]

\* TCPClient::connect_cancel, or the cancellation of the callback scheduled by
\* a TCPClient without a Socket: the TCPClient, events q and sockets s after it.
ConnectCancel(q, s) ==
    IF client = "connecting"
    THEN [client |-> "closing", socket |-> [s EXCEPT !.remote = "closing"],
          events |-> Append(Without(q, {"connected"}), Event("clientClose", "Done"))]
    ELSE [client |-> "deleted", events |-> Without(q, {"connect"}), socket |-> s]

\* SplicePair::splice_complete
SpliceComplete(e, rest) ==
    LET acts == IF e.type = "EOS" THEN pair.acts \ {e.cb} ELSE {} IN
    /\ Check(pair.cb = "set" /\ e.cb \in pair.acts)
    /\ pair' = [cb |-> IF acts # {} THEN "set" ELSE "scheduled", acts |-> acts]
    /\ events' = IF acts # {} THEN rest
                 ELSE Append(Without(rest, Side),
                             Event("pair", IF e.type = "EOS" THEN "Done" ELSE e.type))
    /\ ended' = [ended EXCEPT ![e.cb] = e.type]
    /\ UNCHANGED <<socket, client, connector, stopped>>
-----------------------------------------------------------------------------
(***************************************************************************)
(* ProxyConnector                                                          *)
(***************************************************************************)
\* The callbacks that schedule_close cancels.
Cancelled == Side \cup {"pair", "stop"}

\* Mutant: the Splices are not cancelled and deleted.
PairKept == pair

\* The SplicePair after schedule_close.
PairClosed == [cb |-> "none", acts |-> {}]

\* ProxyConnector::schedule_close, after the handler that calls it has left the
\* TCPClient c, the callbacks q and the sockets s: stop and the Splices are
\* cancelled and deleted, and the sockets' closing is scheduled.
ScheduleClose(c, q, s, holds) ==
    /\ stopAct' = "none"
    /\ pair' = PairClosed /\ spliceAct' = FALSE
    /\ Check(holds /\ ~localAct /\ "local" \in mine)
    /\ localAct' = TRUE
    /\ remoteAct' = IF "remote" \in mine THEN "close" ELSE "none"
    /\ socket' = [x \in DOMAIN s |-> IF x \in mine THEN "closing" ELSE s[x]]
    /\ events' = Without(q, Cancelled)
                   \o <<Event("closeLocal", "Done")>>
                   \o (IF "remote" \in mine THEN <<Event("closeRemote", "Done")>> ELSE <<>>)
    /\ client' = c
    /\ UNCHANGED <<mine, gone, stopped>>

\* ProxyConnector::connect_complete: cancelling remote_action_ deletes the
\* TCPClient; then the Splices start, or everything closes.
ConnectComplete(e, rest) ==
    /\ IF e.type = "Done"
       THEN /\ mine' = mine \cup {"remote"} /\ remoteAct' = "none"
            /\ pair' = [cb |-> "set", acts |-> Side] /\ spliceAct' = TRUE
            /\ client' = "deleted" /\ events' = rest
            /\ Check(remoteAct = "connect")
            /\ UNCHANGED <<socket, stopAct, localAct, gone, stopped>>
       ELSE ScheduleClose("deleted", rest, socket, remoteAct = "connect")
    /\ UNCHANGED ended

\* ProxyConnector::splice_complete, with the assertions of ~SplicePair.
PairComplete(rest) ==
    /\ ScheduleClose(client, rest, socket,
                     spliceAct /\ remoteAct = "none" /\ pair.cb = "scheduled" /\ pair.acts = {})
    /\ UNCHANGED ended

\* Mutant: the handler leaves it to the Splices to end.
StopHandlerWaits(rest) ==
    /\ IF ~localAct /\ remoteAct = "connect" /\ ~spliceAct
       THEN LET cancelled == ConnectCancel(rest, socket) IN
            ScheduleClose(cancelled.client, cancelled.events, cancelled.socket,
                          stopAct = "scheduled")
       ELSE /\ events' = rest /\ stopAct' = "none"
            /\ UNCHANGED <<socket, client, pair, localAct, remoteAct, spliceAct, mine, gone,
                           stopped, bad>>
    /\ UNCHANGED ended

\* ProxyConnector::stop
StopHandler(rest) ==
    /\ IF ~localAct /\ remoteAct = "connect" /\ ~spliceAct
       THEN LET cancelled == ConnectCancel(rest, socket) IN
            ScheduleClose(cancelled.client, cancelled.events, cancelled.socket,
                          stopAct = "scheduled")
       ELSE IF localAct \/ remoteAct # "none"
       THEN /\ bad' = bad \cup {"Client already closing during stop."}
            /\ UNCHANGED <<socket, client, pair, connector, events, stopped>>
       ELSE ScheduleClose(client, rest, socket, stopAct = "scheduled")
    /\ UNCHANGED ended

\* ProxyConnector::close_complete, and ~ProxyConnector when it was the last.
CloseComplete(x, rest) ==
    LET left == mine \ {x} IN
    /\ Check(/\ x \in mine /\ IF x = "local" THEN localAct ELSE remoteAct = "close"
             /\ left = {} =>
                  /\ stopAct = "none" /\ pair.cb = "none" /\ ~spliceAct
                  /\ localAct => x = "local"
                  /\ remoteAct # "none" => x = "remote")
    /\ localAct' = (localAct /\ x # "local")
    /\ remoteAct' = IF x = "remote" THEN "none" ELSE remoteAct
    /\ mine' = left /\ gone' = (left = {}) /\ events' = rest
    /\ socket' = [socket EXCEPT ![x] = "closed"]
    /\ UNCHANGED <<client, pair, stopAct, spliceAct, ended, stopped>>

Step ==
    /\ events # <<>>
    /\ LET e == Head(events)
           rest == Tail(events)
       IN  \/ e.cb = "connected" /\ ClientConnectComplete(e, rest)
           \/ e.cb = "clientClose" /\ ClientCloseComplete(rest)
           \/ e.cb = "connect" /\ ConnectComplete(e, rest)
           \/ e.cb \in Side /\ SpliceComplete(e, rest)
           \/ e.cb = "pair" /\ PairComplete(rest)
           \/ e.cb = "stop" /\ StopHandler(rest)
           \/ e.cb = "closeLocal" /\ CloseComplete("local", rest)
           \/ e.cb = "closeRemote" /\ CloseComplete("remote", rest)

SplicesEnd == ~lasting /\ \E s \in Side : SpliceEnds(s)

\* A failed check ends the process.
Next ==
    /\ bad = {} /\ UNCHANGED lasting
    /\ Connected \/ Stop \/ Step \/ \E s \in Side : SpliceEnds(s)

Spec == Init /\ [][Next]_vars

\* The EventThread runs, and a connection is made or times out.  The Splices may
\* be lasting, and nobody need ever stop the program.
Fair(A) == bad = {} /\ A /\ UNCHANGED lasting
FairSpec ==
    /\ Spec /\ WF_vars(Fair(Step)) /\ WF_vars(Fair(Connected)) /\ WF_vars(Fair(SplicesEnd))
-----------------------------------------------------------------------------
\* The types of the members.
ConnectorTypeOK ==
    /\ socket \in [{"local", "remote"} -> {"none", "open", "closing", "closed"}]
    /\ client \in {"connecting", "scheduled", "closing", "deleted"}
    /\ pair \in [cb : {"none", "set", "scheduled"}, acts : SUBSET Side]
    /\ stopAct \in {"registered", "scheduled", "none"} /\ localAct \in BOOLEAN
    /\ remoteAct \in {"connect", "close", "none"} /\ spliceAct \in BOOLEAN
    /\ mine \subseteq {"local", "remote"} /\ {gone, stopped, lasting} \subseteq BOOLEAN
    /\ stopAct = "scheduled" <=> Queued("stop")
    /\ ended \in [Side -> {"no", "EOS", "Error"}]

\* The assertions of ProxyConnector, SplicePair and TCPClient hold, whenever the
\* program is told to stop; "Client already closing during stop." is not reached.
ConnectorAsserts == bad = {}

\* No socket is being closed while a Splice uses it.
SplicesHaveSockets ==
    pair.acts # {} => socket.local = "open" /\ socket.remote = "open"

\* A ProxyConnector that has been deleted leaves nothing behind that would call
\* it: its callbacks are cancelled, its TCPClient is deleted or only closes its
\* Socket, and the local socket is closed.
GoneIsQuiet ==
    gone => /\ mine = {} /\ socket.local = "closed"
            /\ client \in {"closing", "deleted"}
            /\ \A i \in DOMAIN events : events[i].cb = "clientClose"

\* The proxy ends without an error only when both directions have ended, each
\* with the end of its stream.
DoneIsBoth ==
    \A i \in DOMAIN events : events[i] = Event("pair", "Done") => \A s \in Side : ended[s] = "EOS"

\* A ProxyConnector is deleted in the end if Splices end, as module Splice shows
\* they do (SpliceEnds there).
ConnectorEnds == <>(gone \/ lasting)

\* It is deleted after the program is told to stop, even if the Splices do not end.
StopEnds == stopped ~> gone

\* The members have their types, the assertions hold, the Splices run on open
\* sockets only, and SplicePair reports the end only when both have ended.
ConnectorInv == ConnectorTypeOK /\ ConnectorAsserts /\ SplicesHaveSockets /\ DoneIsBoth

\* A ProxyConnector is deleted in the end, when its Splices end and when the
\* program is told to stop.
ConnectorProgress == ConnectorEnds /\ StopEnds
=============================================================================
