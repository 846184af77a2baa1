---------------------------- MODULE SimpleServer ----------------------------
(***************************************************************************)
(* A SimpleServer, which accepts connections with a SocketHandle, one at a *)
(* time, hands each to client_connected, and closes its socket and deletes *)
(* itself when the program is told to stop.  All of it runs in the         *)
(* EventThread, in the order of events.                                    *)
(***************************************************************************)
EXTENDS Naturals, Sequences, SequencesExt, FiniteSets

CONSTANTS Conn,   \* the connections that clients make
          None    \* no connection; not one of Conn

VARIABLES
    fate,     \* fate[c]: what has become of connection c
    backlog,  \* the connections that wait in the kernel
    polling,  \* the SocketHandle's accept_action_ is a poll that is not over
    handle,   \* the SocketHandle's accept_action_ and accept_callback_ that are set
    actions,  \* the SimpleServer's accept_action_, stop_action_ and close_action_
    events,   \* the callbacks scheduled in the EventThread
    stopped,  \* EventThread::stop has been called
    gone,     \* the SimpleServer has been deleted
    bad       \* the assertions that failed

vars == <<fate, backlog, polling, handle, actions, events, stopped, gone, bad>>

Event(cb, type, conn) == [cb |-> cb, type |-> type, conn |-> conn]
Without(q, cb) == SelectSeq(q, LAMBDA e : e.cb # cb)
Check(holds) == bad' = IF holds THEN bad ELSE bad \cup {"assert"}

Init ==
    /\ fate = [c \in Conn |-> "new"] /\ backlog = <<>>
    /\ polling = TRUE /\ handle = {"action", "callback"} /\ actions = {"accept", "stop"}
    /\ events = <<>> /\ stopped = FALSE /\ gone = FALSE /\ bad = {}
-----------------------------------------------------------------------------
(***************************************************************************)
(* Clients, the kernel, and whoever stops the program.                     *)
(***************************************************************************)
Arrive(c) ==
    /\ fate[c] = "new" /\ ~gone
    /\ fate' = [fate EXCEPT ![c] = "waiting"] /\ backlog' = Append(backlog, c)
    /\ UNCHANGED <<polling, handle, actions, events, stopped, gone, bad>>

Withdraw(c) ==
    /\ fate[c] = "waiting"
    /\ fate' = [fate EXCEPT ![c] = "withdrawn"]
    /\ backlog' = SelectSeq(backlog, LAMBDA d : d # c)
    /\ UNCHANGED <<polling, handle, actions, events, stopped, gone, bad>>

\* EventPoll finds the socket readable, or fails.
PollDone ==
    /\ polling /\ backlog # <<>>
    /\ polling' = FALSE /\ events' = Append(events, Event("poll", "Done", None))
    /\ UNCHANGED <<fate, backlog, handle, actions, stopped, gone, bad>>

PollFails ==
    /\ polling
    /\ polling' = FALSE
    /\ \E type \in {"EOS", "Error"} : events' = Append(events, Event("poll", type, None))
    /\ UNCHANGED <<fate, backlog, handle, actions, stopped, gone, bad>>

\* EventThread::stop
Stop ==
    /\ ~stopped /\ stopped' = TRUE
    /\ events' = Append(events, Event("stop", "Done", None))
    /\ UNCHANGED <<fate, backlog, polling, handle, actions, gone, bad>>
-----------------------------------------------------------------------------
(***************************************************************************)
(* SocketHandle                                                            *)
(***************************************************************************)
\* SocketHandle::accept_callback: accept would block and is tried again, or
\* fails, or has a child socket for the callback.
AcceptCallback(e, rest) ==
    IF e.type = "Done" /\ backlog = <<>>
    THEN /\ polling' = TRUE /\ events' = rest /\ Check("action" \in handle)
         /\ UNCHANGED <<fate, backlog, handle, actions, stopped, gone>>
    ELSE \E c \in IF e.type = "Done" THEN {Head(backlog), None} ELSE {None} :
         /\ events' = Append(rest, Event("accept", IF c = None THEN "Error" ELSE "Done", c))
         /\ backlog' = IF c = None THEN backlog ELSE Tail(backlog)
         /\ fate' = [d \in Conn |-> IF d = c THEN "accepted" ELSE fate[d]]
         /\ handle' = {"action"} /\ Check("action" \in handle)
         /\ UNCHANGED <<polling, actions, stopped, gone>>

\* Mutant: the callback that is scheduled is not cancelled.
CancelledEventsFew(q) == Without(q, "poll")

\* The callbacks left by SocketHandle::accept_cancel.
CancelledEvents(q) == Without(Without(q, "poll"), "accept")
-----------------------------------------------------------------------------
(***************************************************************************)
(* SimpleServer                                                            *)
(***************************************************************************)
\* Mutant: no other connection is accepted after an error.
AcceptCompleteError(e, rest) ==
    /\ fate' = [d \in Conn |-> IF d = e.conn THEN "served" ELSE fate[d]]
    /\ polling' = (e.type = "Done")
    /\ handle' = IF e.type = "Done" THEN {"action", "callback"} ELSE {}
    /\ actions' = IF e.type = "Done" THEN actions ELSE actions \ {"accept"}
    /\ events' = rest
    /\ UNCHANGED <<backlog, stopped, gone, bad>>

\* Mutant: the connection is not handed on.
AcceptCompleteDrops(e, rest) ==
    /\ polling' = TRUE /\ handle' = {"action", "callback"} /\ events' = rest
    /\ UNCHANGED <<fate, backlog, actions, stopped, gone, bad>>

\* SimpleServer::accept_complete, client_connected, and accept once more.
AcceptComplete(e, rest) ==
    /\ Check("accept" \in actions /\ handle = {"action"})
    /\ fate' = [d \in Conn |-> IF d = e.conn THEN "served" ELSE fate[d]]
    /\ polling' = TRUE /\ handle' = {"action", "callback"}
    /\ events' = rest
    /\ UNCHANGED <<backlog, actions, stopped, gone>>

\* SimpleServer::stop, and SocketHandle::accept_cancel.
StopHandler(rest) ==
    /\ Check({"stop", "accept"} \subseteq actions /\ "close" \notin actions /\ "action" \in handle)
    /\ actions' = (actions \ {"stop", "accept"}) \cup {"close"}
    /\ polling' = FALSE /\ handle' = {}
    /\ events' = Append(CancelledEvents(rest), Event("close", "Done", None))
    /\ UNCHANGED <<fate, backlog, stopped, gone>>

\* SimpleServer::close_complete, ~SimpleServer and ~SocketHandle; the kernel
\* resets the connections that wait.
CloseComplete(rest) ==
    /\ Check(actions = {"close"} /\ handle = {})
    /\ actions' = {} /\ gone' = TRUE /\ events' = rest
    /\ backlog' = <<>>
    /\ fate' = [c \in Conn |-> IF fate[c] = "waiting" THEN "reset" ELSE fate[c]]
    /\ UNCHANGED <<polling, handle, stopped>>

Step ==
    /\ events # <<>>
    /\ LET e == Head(events)
           rest == Tail(events)
       IN  \/ e.cb = "poll" /\ AcceptCallback(e, rest)
           \/ e.cb = "accept" /\ AcceptComplete(e, rest)
           \/ e.cb = "stop" /\ StopHandler(rest)
           \/ e.cb = "close" /\ CloseComplete(rest)

\* A connection is accepted.
Accepts == Step /\ \E c \in Conn : fate[c] = "waiting" /\ fate'[c] = "accepted"

\* A failed assertion ends the process.
Next ==
    /\ bad = {}
    /\ PollDone \/ PollFails \/ Stop \/ Step \/ \E c \in Conn : Arrive(c) \/ Withdraw(c)

Spec == Init /\ [][Next]_vars

\* The EventThread runs, and neither EventPoll nor accept fails for ever.
Fairness ==
    /\ WF_vars(bad = {} /\ Step) /\ SF_vars(bad = {} /\ PollDone) /\ SF_vars(bad = {} /\ Accepts)
FairSpec == Spec /\ Fairness
-----------------------------------------------------------------------------
\* The types of the members.
ServerTypeOK ==
    /\ fate \in [Conn -> {"new", "waiting", "withdrawn", "accepted", "served", "reset"}]
    /\ ToSet(backlog) = {c \in Conn : fate[c] = "waiting"} /\ IsInjective(backlog)
    /\ handle \subseteq {"action", "callback"} /\ actions \subseteq {"accept", "stop", "close"}
    /\ stopped \in BOOLEAN /\ gone \in BOOLEAN
    /\ polling => handle = {"action", "callback"}

\* The assertions of SimpleServer and SocketHandle hold, whenever the program is
\* told to stop.
ServerAsserts == bad = {}

\* A connection that is accepted is on its way to client_connected.  Only stop
\* can come between, and then for one connection at most, whose Socket nobody
\* closes.
AcceptedIsServed ==
    LET lost == {c \in Conn : fate[c] = "accepted" /\
                   \A i \in DOMAIN events : events[i].conn # c}
    IN  lost = {} \/ (Cardinality(lost) = 1 /\ stopped)

\* A SimpleServer that has been deleted leaves nothing behind that would call it.
ServerGoneIsQuiet == gone => events = <<>> /\ ~polling /\ handle = {} /\ actions = {}

\* A connection does not wait for ever, unless the server is stopped.
ConnectionIsServed == \A c \in Conn : (fate[c] = "waiting") ~> (fate[c] # "waiting")

\* A server that is told to stop is deleted.
ServerStops == stopped ~> gone
=============================================================================
