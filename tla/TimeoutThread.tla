---------------------------- MODULE TimeoutThread ----------------------------
(***************************************************************************)
(* TimeoutThread, a WorkerThread that schedules callbacks in the           *)
(* EventThread when their time has come, and its TimeoutQueue, a map from  *)
(* deadlines to CallbackQueues.                                            *)
(*                                                                         *)
(* A NanoTime is a pair of seconds and a fraction of Second units.  The    *)
(* TimeoutQueue is used without a lock by the thread that sets a timeout   *)
(* and by the TimeoutThread; each of its operations is one step here.      *)
(***************************************************************************)
EXTENDS Naturals, FiniteSets, FiniteSetsExt

CONSTANTS Timer,    \* the callbacks that timeouts are set for
          Second,   \* units of a second
          Delay,    \* the delays, in units
          MaxTime,  \* bound: the time at which the clock stops
          Never

ASSUME TimeoutAssumption ==
    /\ Second \in Nat \ {0} /\ MaxTime \in Nat /\ Delay \subseteq Nat /\ Never \notin Nat \cup Timer

VARIABLES
    now,        \* the clock, in units
    queue,      \* timeout_queue_: the CallbackQueue of each deadline
    due,        \* due[t]: when the timeout of t ought to end; Never if not set
    cancelled,  \* the timeouts that have been cancelled
    fired,      \* fired[t]: when its callback was scheduled; Never if it was not
    submitting, \* a timeout has been appended and submit() is still to come
    pending,    \* pending_
    stop,       \* stop_
    main,       \* where WorkerThread::main is
    until,      \* the deadline it waits for
    signalled   \* sleepq_ has been signalled since it began to wait

timers == <<queue, due, cancelled, fired, submitting>>
worker == <<pending, stop, main, until, signalled>>
vars == <<now, timers, worker>>

Init ==
    /\ now = 0 /\ queue = << >> /\ cancelled = {} /\ submitting = FALSE
    /\ due = [t \in Timer |-> Never] /\ fired = [t \in Timer |-> Never]
    /\ pending = FALSE /\ stop = FALSE /\ main = "top" /\ until = Never
    /\ signalled = FALSE

\* NanoTime::operator<=
LessEq(x, y) == IF x[1] = y[1] THEN x[2] <= y[2] ELSE x[1] <= y[1]

\* NanoTime::current_time
CurrentTime == <<now \div Second, now % Second>>

\* The deadline of TimeoutQueue::append, whose fraction is not normalised.
Deadline(delay) ==
    <<CurrentTime[1] + delay \div Second, CurrentTime[2] + (delay % Second)>>

\* TimeoutQueue::empty, next_deadline and ready.
Empty == \A d \in DOMAIN queue : queue[d] = {}
NextDeadline == CHOOSE d \in DOMAIN queue : \A e \in DOMAIN queue : LessEq(d, e)
Ready == DOMAIN queue # {} /\ LessEq(NextDeadline, CurrentTime)
-----------------------------------------------------------------------------
Tick ==
    /\ now < MaxTime /\ now' = now + 1
    /\ UNCHANGED <<timers, worker>>

\* TimeoutThread::timeout, up to submit: TimeoutQueue::append.
Timeout(t, delay) ==
    LET d == Deadline(delay) IN
    /\ ~submitting /\ due[t] = Never /\ now + delay <= MaxTime
    /\ queue' = [e \in DOMAIN queue \cup {d} |->
                   (IF e \in DOMAIN queue THEN queue[e] ELSE {}) \cup (IF e = d THEN {t} ELSE {})]
    /\ due' = [due EXCEPT ![t] = now + delay]
    /\ submitting' = TRUE
    /\ UNCHANGED <<now, cancelled, fired, worker>>

\* Mutant: the thread is told only when it has nothing to do.
SubmitQuiet ==
    /\ submitting /\ submitting' = FALSE
    /\ pending' = TRUE
    /\ signalled' = (signalled \/ (~pending /\ main = "sleep"))
    /\ UNCHANGED <<now, queue, due, cancelled, fired, stop, main, until>>

\* WorkerThread::submit
Submit ==
    /\ submitting /\ submitting' = FALSE
    /\ pending' = TRUE
    /\ signalled' = (signalled \/ (~pending /\ main \in {"sleep", "timed"}))
    /\ UNCHANGED <<now, queue, due, cancelled, fired, stop, main, until>>

\* The timeout is cancelled while its callback is in its CallbackQueue.
Cancel(t) ==
    /\ due[t] # Never /\ fired[t] = Never /\ t \notin cancelled /\ ~submitting
    /\ queue' = [d \in DOMAIN queue |-> queue[d] \ {t}]
    /\ cancelled' = cancelled \cup {t}
    /\ UNCHANGED <<now, due, fired, submitting, worker>>

\* WorkerThread::stop
Stop ==
    /\ ~stop /\ stop' = TRUE
    /\ signalled' = (signalled \/ main \in {"sleep", "timed"})
    /\ UNCHANGED <<now, timers, pending, main, until>>
-----------------------------------------------------------------------------
(***************************************************************************)
(* WorkerThread::main.  "sleep" and "timed" are in sleepq_.wait().         *)
(***************************************************************************)
\* The head of the loop: there is work, or TimeoutThread::wait is called.
Loop ==
    /\ main = "top" /\ ~stop
    /\ IF pending
       THEN main' = "work" /\ pending' = FALSE /\ UNCHANGED <<until, signalled>>
       ELSE /\ main' = IF Empty THEN "sleep" ELSE "timed"
            /\ until' = IF Empty THEN Never ELSE NextDeadline
            /\ signalled' = FALSE /\ UNCHANGED pending
    /\ UNCHANGED <<now, timers, stop>>

\* stop_ ends the loop, whatever is in the queue.
Exit ==
    /\ main = "top" /\ stop
    /\ main' = "exited"
    /\ UNCHANGED <<now, timers, pending, stop, until, signalled>>

\* TimeoutThread::work looks at the queue.
Work ==
    /\ main = "work"
    /\ main' = IF Empty THEN "top" ELSE "perform"
    /\ UNCHANGED <<now, timers, pending, stop, until, signalled>>

\* Mutant: the queue is performed whether its time has come or not.
PerformEager ==
    /\ main = "perform"
    /\ IF DOMAIN queue # {}
       THEN /\ queue' = [d \in DOMAIN queue \ {NextDeadline} |-> queue[d]]
            /\ fired' = [t \in Timer |-> IF t \in queue[NextDeadline] THEN now ELSE fired[t]]
            /\ UNCHANGED main
       ELSE main' = "top" /\ UNCHANGED <<queue, fired>>
    /\ UNCHANGED <<now, due, cancelled, submitting, pending, stop, until, signalled>>

\* Mutant: the CallbackQueue is drained but stays in the map when it is the last.
PerformKeeps ==
    /\ main = "perform"
    /\ IF Ready
       THEN /\ queue' = IF Cardinality(DOMAIN queue) = 1 THEN queue
                        ELSE [d \in DOMAIN queue \ {NextDeadline} |-> queue[d]]
            /\ fired' = [t \in Timer |-> IF t \in queue[NextDeadline] THEN now ELSE fired[t]]
            /\ UNCHANGED main
       ELSE main' = "top" /\ UNCHANGED <<queue, fired>>
    /\ UNCHANGED <<now, due, cancelled, submitting, pending, stop, until, signalled>>

\* TimeoutQueue::perform while the queue is ready: the first CallbackQueue is
\* drained and deleted.
Perform ==
    /\ main = "perform"
    /\ IF Ready
       THEN /\ queue' = [d \in DOMAIN queue \ {NextDeadline} |-> queue[d]]
            /\ fired' = [t \in Timer |-> IF t \in queue[NextDeadline] THEN now ELSE fired[t]]
            /\ UNCHANGED main
       ELSE main' = "top" /\ UNCHANGED <<queue, fired>>
    /\ UNCHANGED <<now, due, cancelled, submitting, pending, stop, until, signalled>>

\* Mutant: the time is not looked at when the wait is over.
PendingAfterWaitNever == pending

\* The end of TimeoutThread::wait.
PendingAfterWait == pending \/ (~Empty /\ Ready)

\* sleepq_.wait() returns.  A deadline whose fraction is a second or more is
\* refused by pthread_cond_timedwait, which returns at once.
Woken ==
    \/ signalled
    \/ main = "timed" /\ (LessEq(until, CurrentTime) \/ until[2] >= Second)
WakeUp ==
    /\ main \in {"sleep", "timed"}
    /\ pending' = IF main = "timed" THEN PendingAfterWait ELSE pending
    /\ main' = "top" /\ until' = Never /\ signalled' = FALSE
    /\ UNCHANGED <<now, timers, stop>>
Wake == Woken /\ WakeUp
WakeSpurious == ~Woken /\ WakeUp

Main == Loop \/ Exit \/ Work \/ Perform \/ Wake

Next ==
    \/ Tick \/ Submit \/ Stop \/ Main \/ WakeSpurious
    \/ \E t \in Timer : Cancel(t) \/ \E delay \in Delay : Timeout(t, delay)

Spec == Init /\ [][Next]_vars

\* The clock and both threads run; spurious wakeups may never happen.
FairSpec == Spec /\ WF_vars(Tick) /\ WF_vars(Submit) /\ WF_vars(Main)
-----------------------------------------------------------------------------
\* The types of the members of the thread and of its queue.
TimeoutTypeOK ==
    /\ now \in 0..MaxTime
    /\ \A d \in DOMAIN queue : queue[d] \subseteq Timer /\ d[1] \in Nat /\ d[2] \in 0..(2 * Second - 2)
    /\ due \in [Timer -> Nat \cup {Never}] /\ fired \in [Timer -> Nat \cup {Never}]
    /\ main \in {"top", "sleep", "timed", "work", "perform", "exited"}
    /\ until # Never <=> main = "timed"
    /\ cancelled \subseteq Timer

\* No timeout is slept through: a thread that waits without having been
\* signalled has nothing to do and was not told to stop, and if there are
\* timeouts it waits for none but the first of them.
NoTimeoutMissed ==
    main \in {"sleep", "timed"} /\ ~signalled =>
      /\ ~pending /\ ~stop
      /\ submitting \/ \A d \in DOMAIN queue :
           queue[d] # {} => main = "timed" /\ LessEq(until, d)

\* A timeout that is set is in the queue until it is cancelled or its callback
\* is scheduled, and never both.
TimeoutInQueue ==
    \A t \in Timer : due[t] # Never =>
      Cardinality({d \in DOMAIN queue : t \in queue[d]})
        + (IF fired[t] # Never THEN 1 ELSE 0) + (IF t \in cancelled THEN 1 ELSE 0) = 1

\* A callback is not scheduled a second or more before its time.
WithinASecond == \A t \in Timer : fired[t] # Never => fired[t] + Second > due[t]

\* A timeout that is in a queue of the map is in no other, was neither scheduled
\* nor cancelled, and the key of the queue is its time, normalised or not.
QueueSound ==
    /\ DOMAIN queue \subseteq Nat \X Nat
    /\ \A d \in DOMAIN queue : d[2] <= 2 * Second - 2 /\ queue[d] \subseteq Timer
    /\ \A d \in DOMAIN queue : \A t \in queue[d] :
         /\ due[t] = d[1] * Second + d[2] /\ fired[t] = Never /\ t \notin cancelled
         /\ \A e \in DOMAIN queue : t \in queue[e] => e = d

\* One that is in none was not set, or was cancelled or scheduled, and not both.
TimersSound ==
    /\ now \in Nat /\ due \in [Timer -> Nat \cup {Never}] /\ fired \in [Timer -> Nat \cup {Never}]
    /\ \A t \in Timer :
         /\ due[t] = Never => fired[t] = Never /\ t \notin cancelled
         /\ due[t] # Never /\ fired[t] = Never =>
              t \in cancelled \/ \E d \in DOMAIN queue : t \in queue[d]
         /\ fired[t] # Never => t \notin cancelled

\* The thread is at one of its places, and sleeps through nothing.
WorkerSound ==
    main \in {"top", "sleep", "timed", "work", "perform", "exited"} /\ NoTimeoutMissed

\* The inductive invariant of TimeoutThread.
TimeoutIInv == QueueSound /\ TimersSound /\ WorkerSound /\ WithinASecond

\* Every timeout that is not cancelled ends, unless the thread was told to stop;
\* a cancelled one does not hold up those after it.
TimeoutEnds ==
    \A t \in Timer : (due[t] # Never) ~> (fired[t] # Never \/ t \in cancelled \/ stop)

\* A thread that is told to stop exits.
WorkerStops == stop ~> (main = "exited")

\* Timeouts end, and so does the thread when it is told to.
TimeoutProgress == TimeoutEnds /\ WorkerStops
=============================================================================
