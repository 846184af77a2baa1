---------------------------- MODULE CallbackQueue ----------------------------
(***************************************************************************)
(* A CallbackQueue as the EventThread keeps one for stop handlers, and as  *)
(* a TimeoutQueue has one for each deadline.  Clients register a handler   *)
(* and cancel it when they end, in the EventThread; drain schedules the    *)
(* handlers in the EventThread, from the thread that calls                 *)
(* EventThread::stop, or from the TimeoutThread, which then deletes the    *)
(* queue.  A step is what one thread does between two places where the     *)
(* other can get in: drain holds mtx_ throughout, but cancel looks at      *)
(* action_ before it takes mtx_, so that it can come between any two of    *)
(* drain's stores.                                                         *)
(***************************************************************************)
EXTENDS Naturals, Sequences, SequencesExt

CONSTANTS Client,     \* those who register a handler
          MaxStops    \* bound: calls of EventThread::stop

VARIABLES
    here,      \* EventThread::stop is called in the EventThread itself
    once,      \* the queue is one of a TimeoutQueue, drained once and deleted
    deleted,   \* it was deleted
    overlap,   \* a cancel that had not seen action_ was under way when drain ended
    queue,     \* queue_: the handlers registered
    action,    \* the clients whose CallbackAction has action_ set
    scheduled, \* the handlers scheduled in the EventThread
    drain,     \* where drain is: "no", "next", or behind which of its stores
    event,     \* what the EventThread does: "free", "cancel" or "lock"
    subject,   \* the clients whose CallbackAction the EventThread cancels
    state,     \* state[c]: what has become of the handler of c
    stops,     \* calls of EventThread::stop
    bad        \* the checks that failed

vars == <<here, once, deleted, overlap, queue, action, scheduled, drain, event, subject, state,
          stops, bad>>

Init ==
    /\ here \in BOOLEAN /\ once \in BOOLEAN /\ ~(here /\ once)
    /\ deleted = FALSE /\ overlap = FALSE
    /\ queue = <<>> /\ action = {} /\ scheduled = <<>> /\ drain = "no"
    /\ event = "free" /\ subject = {} /\ state = [c \in Client |-> "new"]
    /\ stops = 0 /\ bad = {}

\* The EventThread can turn to something new.
Free == event = "free" /\ (here => drain = "no")

\* EventThread::register_interest, which waits while EventThread::stop drains,
\* or TimeoutQueue::append, which finds the queue until it is drained; and
\* CallbackQueue::schedule.
Register(c) ==
    /\ Free /\ drain = "no" /\ state[c] = "new" /\ (once => stops = 0)
    /\ queue' = Append(queue, c)
    /\ state' = [state EXCEPT ![c] = "registered"]
    /\ UNCHANGED <<action, scheduled, drain, event, subject, stops, bad>>
-----------------------------------------------------------------------------
(***************************************************************************)
(* EventThread::stop or TimeoutQueue::perform, and CallbackQueue::drain    *)
(* with mtx_ held.                                                         *)
(***************************************************************************)
DrainBegin ==
    /\ stops < (IF once THEN 1 ELSE MaxStops)
    /\ drain = "no" /\ (here => event = "free")
    /\ stops' = stops + 1
    /\ drain' = IF queue = <<>> /\ ~once THEN "no" ELSE "next"
    /\ UNCHANGED <<queue, action, scheduled, event, subject, state, bad>>

\* a->callback_->schedule()
DrainSchedule ==
    /\ drain = "next" /\ queue # <<>>
    /\ scheduled' = Append(scheduled, Head(queue)) /\ drain' = "scheduled"
    /\ UNCHANGED <<queue, action, event, subject, state, stops, bad>>

\* a->action_ is set to what schedule() returned, ...
DrainNote ==
    /\ drain = "scheduled"
    /\ action' = action \cup {Head(queue)} /\ drain' = "stored"
    /\ UNCHANGED <<queue, scheduled, event, subject, state, stops, bad>>

\* ... a->callback_ to NULL, ...
DrainClear ==
    /\ drain = "stored" /\ drain' = "cleared"
    /\ UNCHANGED <<queue, action, scheduled, event, subject, state, stops, bad>>

\* ... and a leaves the queue.
DrainPop ==
    /\ drain = "cleared"
    /\ queue' = Tail(queue) /\ drain' = "next"
    /\ UNCHANGED <<action, scheduled, event, subject, state, stops, bad>>

\* Mutant: drain stops at the first handler.
DrainEndEarly ==
    /\ drain = "next" /\ drain' = "no"
    /\ deleted' = once /\ overlap' = (overlap \/ event = "lock")
    /\ UNCHANGED <<queue, action, scheduled, event, subject, state, stops, bad>>

\* The end of drain; perform deletes the queue.
DrainEnd ==
    /\ drain = "next" /\ queue = <<>>
    /\ drain' = "no"
    /\ deleted' = once /\ overlap' = (overlap \/ event = "lock")
    /\ UNCHANGED <<queue, action, scheduled, event, subject, state, stops, bad>>

Drain ==
    \/ /\ DrainSchedule \/ DrainNote \/ DrainClear \/ DrainPop
       /\ UNCHANGED <<deleted, overlap>>
    \/ DrainEnd
-----------------------------------------------------------------------------
(***************************************************************************)
(* The EventThread                                                         *)
(***************************************************************************)
\* A handler executes, and cancels its CallbackAction.
Execute ==
    /\ Free /\ scheduled # <<>>
    /\ scheduled' = Tail(scheduled)
    /\ state' = [state EXCEPT ![Head(scheduled)] =
                   IF state[Head(scheduled)] = "registered" THEN "executed" ELSE "again"]
    /\ subject' = {Head(scheduled)} /\ event' = "cancel"
    /\ UNCHANGED <<queue, action, drain, stops, bad>>

\* A client ends by itself, and cancels its CallbackAction.
Leave(c) ==
    /\ Free /\ state[c] = "registered"
    /\ state' = [state EXCEPT ![c] = "cancelled"]
    /\ subject' = {c} /\ event' = "cancel"
    /\ UNCHANGED <<queue, action, scheduled, drain, stops, bad>>

\* Mutant: the handler scheduled is not cancelled.
CancelScheduledKeeps ==
    /\ event = "cancel"
    /\ IF subject \subseteq action
       THEN action' = action \ subject /\ event' = "free" /\ subject' = {}
       ELSE event' = "lock" /\ UNCHANGED <<action, subject>>
    /\ UNCHANGED <<queue, scheduled, drain, state, stops, bad>>

\* CallbackQueue::cancel: action_ is looked at, and cancelled if it is there; the
\* CallbackAction is then deleted, which asserts that callback_ is NULL.
CancelScheduled ==
    /\ event = "cancel"
    /\ IF subject \subseteq action
       THEN /\ scheduled' = SelectSeq(scheduled, LAMBDA c : c \notin subject)
            /\ action' = action \ subject /\ event' = "free" /\ subject' = {}
            /\ bad' = IF drain = "stored" /\ Head(queue) \in subject
                      THEN bad \cup {"assert"} ELSE bad
       ELSE event' = "lock" /\ UNCHANGED <<scheduled, action, subject, bad>>
    /\ UNCHANGED <<queue, drain, state, stops>>

\* Otherwise the handler is looked for in the queue, with mtx_, if there still is
\* a queue.
CancelQueued ==
    /\ event = "lock" /\ drain = "no"
    /\ queue' = SelectSeq(queue, LAMBDA c : c \notin subject)
    /\ bad' = bad \cup (IF deleted THEN {"deleted"}
                       ELSE IF subject \cap ToSet(queue) = {} THEN {"NOTREACHED"} ELSE {})
    /\ event' = "free" /\ subject' = {}
    /\ UNCHANGED <<action, scheduled, drain, state, stops>>

Cancel == CancelScheduled \/ CancelQueued

\* A failed check ends the process.
Next ==
    /\ bad = {} /\ UNCHANGED <<here, once>>
    /\ \/ Drain
       \/ /\ DrainBegin \/ Execute \/ Cancel \/ \E c \in Client : Register(c) \/ Leave(c)
          /\ UNCHANGED <<deleted, overlap>>

Spec == Init /\ [][Next]_vars

\* Both threads run.
Draining == bad = {} /\ Drain /\ UNCHANGED <<here, once>>
Executing == bad = {} /\ (Execute \/ Cancel) /\ UNCHANGED <<here, once, deleted, overlap>>
FairSpec == Spec /\ WF_vars(Draining) /\ WF_vars(Executing)
-----------------------------------------------------------------------------
\* The types of the queue's members and of the two threads' positions.
QueueTypeOK ==
    /\ {here, once, deleted, overlap} \subseteq BOOLEAN
    /\ queue \in Seq(Client) /\ action \subseteq Client /\ scheduled \in Seq(Client)
    /\ drain \in {"no", "next", "scheduled", "stored", "cleared"}
    /\ event \in {"free", "cancel", "lock"}
    /\ subject \subseteq Client /\ (event = "free") = (subject = {})
    /\ stops \in 0..MaxStops /\ bad \subseteq {"NOTREACHED", "deleted", "assert"}
    /\ state \in [Client -> {"new", "registered", "executed", "cancelled", "again"}]

\* A handler executes once at most, and not after it was cancelled.
HandlerOnce == \A c \in Client : state[c] # "again"

\* The assertions of cancel: a CallbackAction that is not scheduled is queued, and
\* so is not in a queue that was deleted; one that is scheduled has no callback_.
\* They can fail only if drain runs in another thread: the first for a cancel that
\* has looked at action_ before drain set it and that drain then kept waiting, the
\* second for one that comes between drain's stores to action_ and callback_.
CancelFindsCallback ==
    /\ bad # {} => ~here
    /\ {"NOTREACHED", "deleted"} \cap bad # {} => overlap
    /\ "assert" \in bad => drain = "stored"

\* A handler that is registered and neither executed nor cancelled is in one
\* place: still in the queue, or scheduled with action_ to cancel it by.
HandlerNotLost ==
    drain = "no" => \A c \in Client : state[c] = "registered" =>
      (c \in ToSet(queue) /\ ~deleted) # (c \in ToSet(scheduled) /\ c \in action)

\* EventThread::stop reaches every handler that was registered before.
StopReachesAll ==
    \A c \in Client : (drain # "no" /\ c \in ToSet(queue)) ~> (state[c] # "registered" \/ bad # {})
=============================================================================
