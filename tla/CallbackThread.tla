--------------------------- MODULE CallbackThread ---------------------------
(***************************************************************************)
(* CallbackThread: a thread that executes callbacks one at a time, in the  *)
(* order in which they were scheduled.  Any thread may schedule; the       *)
(* Action that schedule returns must be cancelled, by the callback when it *)
(* executes or by its owner before.                                        *)
(*                                                                         *)
(* Every object that uses the thread follows the rule in the comment above *)
(* CallbackThread::schedule: it holds its own lock while it schedules,     *)
(* while its callback executes and while it cancels.  What happens under   *)
(* that lock is one step; each critical section of mtx_ is one step.       *)
(***************************************************************************)
EXTENDS Naturals, Sequences, Functions

CONSTANTS Object,    \* the objects that schedule callbacks
          Callback,  \* the addresses a CallbackBase can have
          NULL,
          MaxSchedules   \* bound: callbacks scheduled

ASSUME CallbackThreadAssumption ==
    NULL \notin Object \cup Callback /\ MaxSchedules \in Nat

VARIABLES
    foreign,    \* the objects that cancel from a thread of their own
    queue,      \* queue_
    inflight,   \* inflight_
    idle,       \* idle_
    stop,       \* stop_
    main,       \* where CallbackThread::main is
    signalled,  \* sleepq_ has been signalled since main began to wait
    running,    \* the callback that main executes or has executed
    object,     \* object[cb]: whose callback cb is; NULL when cb is free
    action,     \* action[x]: the callback of x's Action; NULL without one
    bad,        \* the HALT, NOTREACHED and NULL dereferences reached
    schedules   \* the number of callbacks scheduled so far

vars == <<foreign, queue, inflight, idle, stop, main, signalled, running, object,
          action, bad, schedules>>

Init ==
    /\ foreign \in SUBSET Object
    /\ queue = <<>> /\ inflight = NULL /\ idle = FALSE /\ stop = FALSE
    /\ main = "top" /\ signalled = FALSE /\ running = NULL
    /\ object = [cb \in Callback |-> NULL] /\ action = [x \in Object |-> NULL]
    /\ bad = {} /\ schedules = 0
-----------------------------------------------------------------------------
\* What is left of a queue, in its order, when some of its elements are erased.
Without(q, gone) ==
    LET kept[i \in 0..Len(q)] ==
          IF i = 0 THEN <<>>
          ELSE IF q[i] \in gone THEN kept[i - 1]
          ELSE Append(kept[i - 1], q[i])
    IN  kept[Len(q)]

\* Mutant: the queue is looked at after the callback was added to it.
SignalLate(q) == Append(q, NULL) = <<>> /\ idle

\* Whether CallbackThread::schedule signals sleepq_, for the queue it finds.
Signal(q) == q = <<>> /\ idle

\* CallbackThread::schedule of a new callback of x.
Schedule(x) ==
    /\ action[x] = NULL /\ schedules < MaxSchedules
    /\ \E cb \in Callback :
         /\ object[cb] = NULL
         /\ queue' = Append(queue, cb)
         /\ signalled' = (signalled \/ (Signal(queue) /\ main = "wait"))
         /\ object' = [object EXCEPT ![cb] = x]
         /\ action' = [action EXCEPT ![x] = cb]
    /\ schedules' = schedules + 1
    /\ UNCHANGED <<inflight, idle, stop, main, running, bad>>

\* CallbackThread::cancel of the callback of x's Action by a foreign thread.
ForeignCancel(x) ==
    LET cb == action[x] IN
    /\ x \in foreign /\ cb # NULL
    /\ action' = [action EXCEPT ![x] = NULL]
    /\ IF inflight = cb
       THEN inflight' = NULL /\ UNCHANGED <<queue, object, bad>>
       ELSE IF cb \in Range(queue)
       THEN /\ queue' = Without(queue, {cb})
            /\ object' = [object EXCEPT ![cb] = NULL]
            /\ UNCHANGED <<inflight, bad>>
       ELSE bad' = bad \cup {"NOTREACHED"} /\ UNCHANGED <<queue, inflight, object>>
    /\ UNCHANGED <<idle, stop, main, signalled, running, schedules>>

\* Mutant: stop_ is set without a wakeup.
StopQuiet ==
    /\ ~stop
    /\ stop' = TRUE
    /\ UNCHANGED <<queue, inflight, idle, main, signalled, running, object, action, bad,
                   schedules>>

\* CallbackThread::stop
Stop ==
    /\ ~stop
    /\ stop' = TRUE
    /\ signalled' = (signalled \/ main = "wait")
    /\ UNCHANGED <<queue, inflight, idle, main, running, object, action, bad, schedules>>
-----------------------------------------------------------------------------
(***************************************************************************)
(* CallbackThread::main.  "top" holds mtx_ and is about to look at the     *)
(* queue; "wait" is in sleepq_.wait(); "execute" and "executed" are on     *)
(* either side of cb->execute(), without mtx_.                             *)
(***************************************************************************)
StartNext ==
    /\ main' = "execute" /\ running' = Head(queue) /\ inflight' = Head(queue)
    /\ queue' = Tail(queue)

\* The head of the loop, when there is a callback and when there is none.
TakeFirst ==
    /\ main = "top" /\ queue # <<>>
    /\ StartNext
    /\ UNCHANGED <<idle, stop, signalled, object, action, bad, schedules>>

\* Mutant: stop_ is looked at before the queue.
GoIdleEager ==
    /\ main = "top"
    /\ queue = <<>> \/ stop
    /\ idle' = TRUE /\ signalled' = FALSE
    /\ main' = IF stop THEN "exited" ELSE "wait"
    /\ UNCHANGED <<queue, inflight, stop, running, object, action, bad, schedules>>

GoIdle ==
    /\ main = "top" /\ queue = <<>>
    /\ idle' = TRUE /\ signalled' = FALSE
    /\ main' = IF stop THEN "exited" ELSE "wait"
    /\ UNCHANGED <<queue, inflight, stop, running, object, action, bad, schedules>>

\* sleepq_.wait() returns.
Wake ==
    /\ main = "wait"
    /\ signalled' = FALSE
    /\ IF queue = <<>>
       THEN /\ main' = IF stop THEN "exited" ELSE "wait"
            /\ UNCHANGED <<running, inflight, queue, idle>>
       ELSE StartNext /\ idle' = FALSE
    /\ UNCHANGED <<stop, object, action, bad, schedules>>
WakeSignalled == signalled /\ Wake
WakeSpurious == ~signalled /\ Wake

\* Mutant: the cancellation of an executing callback is not noted.
StillInflight(gone) == inflight

\* CallbackThread::cancel of the callbacks in gone, by main itself.
InflightAfter(gone) == IF inflight \in gone THEN NULL ELSE inflight

\* Mutant: the object that executes keeps the pointer to its Action.
KeepOwn(x, others) == [y \in Object |-> IF y \in others THEN NULL ELSE action[y]]

\* The Actions left once x has cancelled its own, and those of others.
ActionsAfter(x, others) ==
    [y \in Object |-> IF y \in others \cup {x} THEN NULL ELSE action[y]]

\* cb->execute(): the object takes its lock and cancels its Action, and may
\* cancel another object's while it is at it.
Execute ==
    LET x == object[running]
        own == action[x]
    IN
    /\ main = "execute"
    /\ main' = "executed"
    /\ IF own = NULL
       THEN bad' = bad \cup {"NULL"} /\ UNCHANGED <<queue, inflight, action, object>>
       ELSE \E others \in SUBSET {y \in Object \ foreign : action[y] # NULL /\ y # x} :
              LET gone == {action[y] : y \in others} \cup {own} IN
              /\ queue' = Without(queue, gone)
              /\ inflight' = InflightAfter(gone)
              /\ action' = ActionsAfter(x, others)
              /\ object' = [cb \in Callback |->
                              IF cb \in gone /\ cb # running THEN NULL ELSE object[cb]]
              /\ UNCHANGED bad
    /\ UNCHANGED <<idle, stop, signalled, running, schedules>>

\* delete cb, and the check that it was cancelled.
Finish ==
    /\ main = "executed"
    /\ object' = [object EXCEPT ![running] = NULL]
    /\ running' = NULL
    /\ main' = "top"
    /\ bad' = IF inflight # NULL THEN bad \cup {"HALT"} ELSE bad
    /\ UNCHANGED <<queue, inflight, idle, stop, signalled, action, schedules>>

Main == TakeFirst \/ GoIdle \/ WakeSignalled \/ WakeSpurious \/ Execute \/ Finish

\* A failed check ends the process.
Next ==
    /\ bad = {} /\ UNCHANGED foreign
    /\ Main \/ Stop \/ \E x \in Object : Schedule(x) \/ ForeignCancel(x)

Spec == Init /\ [][Next]_vars

\* The thread runs, and a signal wakes it; spurious wakeups may never happen.
FairSpec ==
    Spec /\ WF_vars(/\ bad = {} /\ UNCHANGED foreign
                    /\ TakeFirst \/ GoIdle \/ WakeSignalled \/ Execute \/ Finish)
-----------------------------------------------------------------------------
\* The types of the members, of the Actions and of main's position.
ThreadTypeOK ==
    /\ foreign \subseteq Object
    /\ queue \in Seq(Callback) /\ inflight \in Callback \cup {NULL}
    /\ idle \in BOOLEAN /\ stop \in BOOLEAN /\ signalled \in BOOLEAN
    /\ main \in {"top", "wait", "execute", "executed", "exited"}
    /\ running \in Callback \cup {NULL}
    /\ running # NULL <=> main \in {"execute", "executed"}
    /\ object \in [Callback -> Object \cup {NULL}]
    /\ action \in [Object -> Callback \cup {NULL}]
    /\ bad \subseteq {"NOTREACHED", "NULL", "HALT"} /\ schedules \in 0..MaxSchedules

\* No wakeup is lost: while main sleeps unsignalled there is nothing to
\* execute and no request to stop, whatever was scheduled and cancelled, and
\* however often it woke for nothing.
NoLostWakeup == main = "wait" /\ ~signalled => queue = <<>> /\ ~stop

\* "Callback not cancelled in execution." and the NOTREACHED of cancel are not
\* reached.  No callback executes after its Action was cancelled, unless some
\* object cancels from another thread: then that is the race which the comment
\* above CallbackThread::cancel describes.
ThreadAsserts ==
    "HALT" \notin bad /\ "NOTREACHED" \notin bad /\ (foreign = {} => bad = {})

\* An Action always refers to a callback that is waiting or about to execute,
\* that exists, and that belongs to the object.  A callback is queued once.
ActionsAreLive ==
    /\ \A x \in Object : action[x] # NULL =>
         /\ object[action[x]] = x
         /\ action[x] \in Range(queue) \/ (main = "execute" /\ action[x] = running)
    /\ \A cb \in Range(queue) : action[object[cb]] = cb
    /\ IsInjective(queue)

\* inflight_ is the executing callback until its Action is cancelled, and NULL
\* from then on and between callbacks: only an object that cancels from another
\* thread can find its callback executing without an Action.  The callback that
\* executes is no longer queued, and neither it nor a queued one is deleted.
InflightSound ==
    /\ main = "execute" =>
         \/ inflight = running /\ action[object[running]] = running
         \/ /\ inflight = NULL /\ action[object[running]] # running
            /\ object[running] \in foreign
    /\ main # "execute" => inflight = NULL
    /\ running # NULL => object[running] # NULL /\ running \notin Range(queue)
    /\ \A cb \in Range(queue) : object[cb] # NULL

\* stop() lets the thread exit only when nothing is left to do: no callback
\* waits and no object still has an Action.
ExitLosesNothing ==
    [][main # "exited" /\ main' = "exited" =>
         stop /\ queue = <<>> /\ \A x \in Object : action[x] = NULL]_vars

\* Every callback is executed or cancelled in the end, unless the thread has
\* stopped; callbacks scheduled later do not overtake it.
ScheduledIsExecuted ==
    \A x \in Object : (action[x] # NULL) ~> (action[x] = NULL \/ main = "exited" \/ bad # {})

\* A request to stop is heeded once callbacks stop coming.
StopIsHeeded == stop ~> (main = "exited" \/ bad # {})

\* The members have their types, no check of CallbackThread fails but in the race
\* of a cancellation in another thread, no Action dangles and inflight_ tells
\* whether the executing callback was cancelled.
ThreadInv == ThreadTypeOK /\ ThreadAsserts /\ ActionsAreLive /\ InflightSound

\* What is scheduled is executed or cancelled in the end, and a request to stop
\* is heeded.
ThreadProgress == ScheduledIsExecuted /\ StopIsHeeded
=============================================================================
