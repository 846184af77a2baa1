----------------------------- MODULE EventPoll -----------------------------
(***************************************************************************)
(* EventPoll over kqueue, for the two filters of one descriptor, and the   *)
(* CallbackThread that executes the callbacks of its users.                *)
(*                                                                         *)
(* A filter is one-shot: the kernel removes it when it hands its event to  *)
(* EventPoll::main, which takes mtx_ only afterwards.  In between, the     *)
(* filter's handler can be cancelled, and another one can take its place.  *)
(***************************************************************************)
EXTENDS Naturals, Sequences, SequencesExt

CONSTANT NULL

Dir == {"read", "write"}

VARIABLES
    handler,   \* handler[d] is "none" when read_poll_ or write_poll_ has no entry,
               \* "armed" when callback_ is set and "fired" when action_ is
    filter,    \* filter[d]: the kqueue has the filter
    batch,     \* the events kevent has returned to main: pairs <<d, event>>
    pollMain,  \* where main is: "kevent", "dispatch" or "exited"
    pollStop,  \* stop_
    queue,     \* the CallbackThread's queue_, of pairs <<d, event>>
    running,   \* the callback it has taken off the queue, or NULL
    inflight   \* whether inflight_ is set

pollVars == <<handler, filter, batch, pollMain, pollStop, queue, running, inflight>>

PollInit ==
    /\ handler = [d \in Dir |-> "none"] /\ filter = [d \in Dir |-> FALSE]
    /\ batch = {} /\ pollMain = "kevent" /\ pollStop = FALSE
    /\ queue = <<>> /\ running = NULL /\ inflight = FALSE
-----------------------------------------------------------------------------
\* EventPoll::poll
Poll(d) ==
    /\ handler' = [handler EXCEPT ![d] = "armed"]
    /\ filter' = [filter EXCEPT ![d] = TRUE]

\* CallbackThread::cancel of the callback that the handler of d scheduled.
CancelScheduled(d) ==
    IF running # NULL /\ running[1] = d /\ inflight
    THEN inflight' = FALSE /\ UNCHANGED queue
    ELSE queue' = SelectSeq(queue, LAMBDA cb : cb[1] # d) /\ UNCHANGED inflight

\* Mutant: the filter stays when the handler goes before it has fired, and is
\* not added again.
CancelPollFilter(d, again) ==
    /\ handler' = [handler EXCEPT ![d] = IF again THEN "armed" ELSE "none"]
    /\ UNCHANGED filter
    /\ IF handler[d] = "fired" THEN CancelScheduled(d) ELSE UNCHANGED <<queue, inflight>>

\* Mutant: the handler keeps its place in the map.
CancelPollKeeps(d, again) ==
    /\ handler' = [handler EXCEPT ![d] = IF again THEN "armed" ELSE handler[d]]
    /\ filter' = [filter EXCEPT ![d] = again \/ (filter[d] /\ handler[d] # "armed")]
    /\ IF handler[d] = "fired" THEN CancelScheduled(d) ELSE UNCHANGED <<queue, inflight>>

\* EventPoll::cancel and PollHandler::cancel, followed by poll when the user
\* polls again.
CancelPoll(d, again) ==
    /\ handler' = [handler EXCEPT ![d] = IF again THEN "armed" ELSE "none"]
    /\ filter' = [filter EXCEPT ![d] = again \/ (filter[d] /\ handler[d] # "armed")]
    /\ IF handler[d] = "fired" THEN CancelScheduled(d) ELSE UNCHANGED <<queue, inflight>>

\* EventPoll::stop
PollStop ==
    /\ ~pollStop
    /\ pollStop' = TRUE
    /\ UNCHANGED <<handler, filter, batch, pollMain, queue, running, inflight>>

\* EventPoll::main: kevent returns the filters that are ready, each with one of
\* the events events[d] it is ready with, or the user event of stop.
Kevent(events) ==
    LET ready == {d \in Dir : filter[d] /\ events[d] # {}} IN
    /\ pollMain = "kevent"
    /\ ready # {} \/ pollStop
    /\ \E kind \in [ready -> UNION {events[d] : d \in ready}] :
         /\ \A d \in ready : kind[d] \in events[d]
         /\ batch' = {<<d, kind[d]>> : d \in ready}
    /\ filter' = [d \in Dir |-> filter[d] /\ d \notin ready]
    /\ pollMain' = "dispatch"
    /\ UNCHANGED <<handler, pollStop, queue, running, inflight>>

\* EventPoll::main and PollHandler::callback: with mtx_ held, the callbacks of
\* the handlers that are still there are scheduled.
Dispatch ==
    LET fire == {ev \in batch : handler[ev[1]] = "armed"} IN
    /\ pollMain = "dispatch"
    /\ handler' = [d \in Dir |-> IF \E ev \in fire : ev[1] = d THEN "fired" ELSE handler[d]]
    /\ queue' = queue \o SetToSeq(fire)
    /\ batch' = {}
    /\ pollMain' = IF pollStop THEN "exited" ELSE "kevent"
    /\ UNCHANGED <<filter, pollStop, running, inflight>>

\* CallbackThread::main takes the next callback.
Take ==
    /\ running = NULL /\ queue # <<>>
    /\ running' = Head(queue) /\ inflight' = TRUE /\ queue' = Tail(queue)
    /\ UNCHANGED <<handler, filter, batch, pollMain, pollStop>>
-----------------------------------------------------------------------------
\* The types of the handlers, of main's batch and of the callback queue.
PollTypeOK ==
    LET Event == Dir \X {"Done", "EOS", "Error"} IN
    /\ handler \in [Dir -> {"none", "armed", "fired"}] /\ filter \in [Dir -> BOOLEAN]
    /\ batch \subseteq Event /\ pollMain \in {"kevent", "dispatch", "exited"}
    /\ pollStop \in BOOLEAN /\ queue \in Seq(Event) /\ running \in Event \cup {NULL}
    /\ inflight \in BOOLEAN

\* No event is lost: a handler that has not fired has its filter in the kqueue
\* or its event in main's hands, and one that has fired has its callback in the
\* CallbackThread, once.
PollNotLost ==
    \A d \in Dir :
      LET waiting == SelectSeq(queue, LAMBDA cb : cb[1] = d)
          taken == running # NULL /\ running[1] = d /\ inflight
      IN
      /\ handler[d] = "armed" => filter[d] \/ \E ev \in batch : ev[1] = d
      /\ handler[d] = "fired" <=> waiting # <<>> \/ taken
      /\ Len(waiting) <= IF taken THEN 0 ELSE 1
=============================================================================
