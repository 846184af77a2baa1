------------------------------ MODULE Threads ------------------------------
(***************************************************************************)
(* The threads of a program, from event_main to its return: the initial    *)
(* thread starts them one by one and joins them in the same order, and     *)
(* SIGINT, handled in whichever thread it interrupts, stops and cancels    *)
(* those that run.                                                         *)
(*                                                                         *)
(* A Mutex with its SleepQueue is here the Monitor that PosixMutex is      *)
(* shown to implement, but for one thing: a thread that pthread_cancel     *)
(* ends in pthread_cond_wait, asleep or waiting for a Mutex, takes the     *)
(* pthread mutex within with it, and nobody gets any further with the      *)
(* Mutex.  The mutexes of a thread, the mtx_ of its class and the          *)
(* interest_queue_mtx_ of the EventThread, are one here.                   *)
(***************************************************************************)
EXTENDS Naturals, Sequences, FiniteSets

CONSTANTS Order,      \* the threads in the order in which they are started
          Callbacks,  \* the CallbackThreads, which execute what they have before they stop
          Polls,      \* the EventPolls, which sleep in kevent and not on their SleepQueue
          Main,       \* the initial thread
          Start,      \* thread_start_mutex
          NULL,
          MaxWork     \* bound: pieces of work, callbacks or events, there are in all

Worker == {Order[i] : i \in DOMAIN Order}
Mutex == Worker \cup {Start}

VARIABLES
    main,       \* where event_main is
    next,       \* the number of the thread that it starts or joins
    at,         \* at[w]: where thread w is
    other,      \* other[w]: the thread whose Mutex w wants or has besides
    blocked,    \* the threads that have found a Mutex taken, and wait in pthread_cond_wait
    owner,      \* owner[m]: the thread in Mutex m
    lost,       \* the Mutexes that a cancelled thread has taken with it
    registered, \* the threads that have set td_ of their ThreadState
    running,    \* running_threads
    roused,     \* thread_start_sleepq was signalled while Main slept
    stop,       \* the threads with stop_ set
    work,       \* the threads that have something to do
    works,      \* pieces of work so far
    cancelled,  \* the threads pthread_cancel was called for
    handler,    \* ThreadState::signal_stop: where it is, in which thread it runs, ...
    spurious,   \* Main woke up without having been signalled
    failed,     \* pthread_create has failed
    bad         \* the assertions that failed

mainVars == <<main, next, registered, running, roused, spurious, failed>>
workerVars == <<at, other, blocked, work, works>>
vars == <<mainVars, workerVars, owner, lost, stop, cancelled, handler, bad>>

Init ==
    /\ main = "start" /\ next = 1
    /\ at = [w \in Worker |-> "unborn"] /\ other = [w \in Worker |-> NULL]
    /\ blocked = {}
    /\ owner = [m \in Mutex |-> NULL] /\ lost = {}
    /\ registered = {} /\ running = {} /\ roused = FALSE
    /\ stop = {} /\ work = {} /\ works = 0 /\ cancelled = {}
    /\ handler = [at |-> "none", in |-> NULL, left |-> {}, td |-> NULL, held |-> {},
                  early |-> FALSE]
    /\ spurious = FALSE /\ failed = FALSE /\ bad = {}

\* Mutex m can be had, and thread t takes or leaves it.
CanLock(m) == owner[m] = NULL /\ m \notin lost
Lock(m, t) == CanLock(m) /\ owner' = [owner EXCEPT ![m] = t]
Unlock(m) == m \notin lost /\ owner' = [owner EXCEPT ![m] = NULL]

\* Thread t is not interrupted.
Goes(t) == handler.at \in {"none", "done"} \/ handler.in # t
-----------------------------------------------------------------------------
(***************************************************************************)
(* event_main, in the initial thread                                       *)
(***************************************************************************)
MainTo(p) == main' = p

StartLock ==
    /\ main = "start" /\ Lock(Start, Main) /\ MainTo("create")
    /\ UNCHANGED <<next, registered, running, roused, spurious, failed, workerVars>>

\* pthread_create, whose failure is not seen since it is not -1, and the beginning
\* of thread_start_sleepq.wait().
Create ==
    /\ main = "create" /\ Unlock(Start) /\ MainTo("sleep")
    /\ \/ at' = [at EXCEPT ![Order[next]] = "born"] /\ UNCHANGED failed
       \/ failed' = TRUE /\ UNCHANGED at
    /\ UNCHANGED <<next, registered, running, roused, spurious, other, blocked, work, works>>

\* The end of thread_start_sleepq.wait(), with or without a signal.
Wake ==
    /\ main = "sleep" /\ Lock(Start, Main) /\ MainTo("insert")
    /\ roused' = FALSE /\ spurious' = (spurious \/ ~roused)
    /\ UNCHANGED <<next, registered, running, failed, workerVars>>

\* The rest of Thread::start, and EventSystem::start goes on.
Insert ==
    /\ main = "insert" /\ Unlock(Start)
    /\ running' = running \cup {Order[next]}
    /\ bad' = IF Order[next] \in registered THEN bad ELSE bad \cup {"assert"}
    /\ MainTo(IF next = Len(Order) THEN "join" ELSE "start")
    /\ next' = IF next = Len(Order) THEN 1 ELSE next + 1
    /\ UNCHANGED <<registered, roused, spurious, failed, workerVars>>

\* EventSystem::join, Thread::join: pthread_join returns.
Join ==
    /\ main = "join" /\ at[Order[next]] = "ended" /\ MainTo("erase")
    /\ UNCHANGED <<next, registered, running, roused, spurious, failed, workerVars, owner>>

EraseLock ==
    /\ main = "erase" /\ Lock(Start, Main) /\ MainTo("erasing")
    /\ UNCHANGED <<next, registered, running, roused, spurious, failed, workerVars>>

Erase ==
    /\ main = "erasing" /\ Unlock(Start)
    /\ running' = running \ {Order[next]}
    /\ MainTo(IF next = Len(Order) THEN "returned" ELSE "join")
    /\ next' = IF next = Len(Order) THEN next ELSE next + 1
    /\ UNCHANGED <<registered, roused, spurious, failed, workerVars>>

MainStep ==
    /\ Goes(Main)
    /\ \/ /\ StartLock \/ Create \/ (roused /\ Wake) \/ Join \/ EraseLock \/ Erase
          /\ UNCHANGED bad
       \/ Insert
    /\ UNCHANGED <<lost, stop, cancelled, handler>>

WakeSpurious ==
    /\ Goes(Main) /\ ~roused /\ Wake
    /\ UNCHANGED <<lost, stop, cancelled, handler, bad>>
-----------------------------------------------------------------------------
(***************************************************************************)
(* The other threads                                                       *)
(***************************************************************************)
To(w, p) == at' = [at EXCEPT ![w] = p]

\* Mutant: the thread says it is there before ThreadState::start.
RegisterLate(w) ==
    /\ at[w] = "born" /\ To(w, "hello")
    /\ UNCHANGED <<main, next, registered, running, roused, spurious, failed, other, work, works,
                   owner>>

\* thread_posix_start: ThreadState::start sets td_, ...
Register(w) ==
    /\ at[w] = "born" /\ To(w, "hello")
    /\ registered' = registered \cup {w}
    /\ UNCHANGED <<main, next, running, roused, spurious, failed, other, work, works, owner>>

\* ... thread_start_sleepq is signalled with its Mutex, ...
HelloLock(w) ==
    /\ at[w] = "hello" /\ Lock(Start, w) /\ To(w, "signal")
    /\ UNCHANGED <<mainVars, other, work, works>>

\* ... and main() is called; that of EventPoll begins with kevent().
Hello(w) ==
    /\ at[w] = "signal" /\ Unlock(Start) /\ To(w, IF w \in Polls THEN "asleep" ELSE "top")
    /\ roused' = (roused \/ main = "sleep")
    /\ UNCHANGED <<main, next, registered, running, spurious, failed, other, work, works>>

\* Any other main() takes the thread's Mutex, to begin with and after it has worked.
TopLock(w) ==
    /\ at[w] = "top" /\ Lock(w, w) /\ To(w, "own")
    /\ UNCHANGED <<mainVars, other, work, works>>

\* With the Mutex, main() turns to its work, ends or sleeps; CallbackThread looks
\* at its queue first, WorkerThread at stop_.  EventPoll looks only at stop_, when
\* it is through with what kevent() has returned.
Decide(w) ==
    /\ at[w] = "own" /\ Unlock(w)
    /\ IF w \in work \ Polls /\ (w \in stop => w \in Callbacks)
       THEN work' = work \ {w} /\ To(w, "busy")
       ELSE To(w, IF w \in stop THEN "ended" ELSE "asleep") /\ UNCHANGED work
    /\ UNCHANGED <<mainVars, other, works>>

\* sleepq_.wait() returns.
Rouse(w) ==
    /\ at[w] = "asleep" /\ w \in (work \cup stop) \ Polls /\ Lock(w, w) /\ To(w, "own")
    /\ UNCHANGED <<mainVars, other, work, works>>

\* kevent() returns, with what has happened so far or only with the event that
\* EventPoll::stop triggers, ...
PollReturns(w) ==
    /\ at[w] = "asleep" /\ w \in (work \cup stop) \cap Polls
    /\ To(w, IF w \in work THEN "batch" ELSE "woken") /\ work' = work \ {w}
    /\ UNCHANGED <<mainVars, other, works, owner>>

\* ... and EventPoll takes its Mutex, to keep it while it schedules callbacks.
PollLock(w) ==
    /\ at[w] \in {"batch", "woken"} /\ Lock(w, w)
    /\ To(w, IF at[w] = "batch" THEN "busy" ELSE "own")
    /\ UNCHANGED <<mainVars, other, work, works>>

\* kevent() was interrupted: EventPoll returns, whether stop_ is set or not.
PollInterrupted(w) ==
    /\ at[w] = "eintr" /\ To(w, "ended")
    /\ UNCHANGED <<mainVars, other, work, works, owner>>

\* A callback needs the Mutex of another thread, to schedule or cancel something.
Want(w, m) ==
    /\ at[w] = "busy" /\ m # w /\ at[m] # "unborn"
    /\ w \in Polls => m \in Callbacks
    /\ To(w, "want") /\ other' = [other EXCEPT ![w] = m]
    /\ UNCHANGED <<mainVars, work, works, owner>>

WantLock(w) ==
    /\ at[w] = "want" /\ Lock(other[w], w) /\ To(w, "has")
    /\ UNCHANGED <<mainVars, other, work, works>>

\* It leaves it, having given the thread something to do or not.
WantUnlock(w) ==
    /\ at[w] = "has" /\ Unlock(other[w]) /\ To(w, "worked")
    /\ other' = [other EXCEPT ![w] = NULL]
    /\ \/ UNCHANGED <<work, works>>
       \/ works < MaxWork /\ works' = works + 1 /\ work' = work \cup {other[w]}
    /\ UNCHANGED mainVars

\* The work is done.
Worked(w) ==
    /\ at[w] \in {"busy", "worked"}
    /\ To(w, IF owner[w] = w THEN "own" ELSE "top")
    /\ UNCHANGED <<mainVars, other, work, works, owner>>

WorkerStep(w) ==
    /\ Goes(w) /\ blocked' = blocked \ {w}
    /\ \/ Register(w) \/ HelloLock(w) \/ Hello(w) \/ TopLock(w) \/ Decide(w) \/ Rouse(w)
       \/ PollReturns(w) \/ PollLock(w) \/ PollInterrupted(w)
       \/ WantLock(w) \/ WantUnlock(w) \/ Worked(w)
    /\ UNCHANGED <<lost, stop, cancelled, handler, bad>>

WorkerWants(w) ==
    /\ Goes(w) /\ \E m \in Worker : Want(w, m)
    /\ UNCHANGED <<blocked, lost, stop, cancelled, handler, bad>>

\* The Mutex that thread w is about to take.
Awaited(w) ==
    CASE at[w] = "hello" -> Start
      [] at[w] \in {"top", "batch", "woken"} -> w
      [] at[w] = "want" -> other[w]
      [] OTHER -> NULL

\* Mutex::lock finds the Mutex taken.
Block(w) ==
    /\ Goes(w) /\ w \notin blocked /\ Awaited(w) \in Mutex \ lost /\ owner[Awaited(w)] # NULL
    /\ blocked' = blocked \cup {w}
    /\ UNCHANGED <<mainVars, at, other, work, works, owner, lost, stop, cancelled, handler, bad>>

\* A descriptor is ready or a time has come.
Happens(w) ==
    /\ works < MaxWork /\ w \notin work /\ at[w] \notin {"unborn", "ended"}
    /\ work' = work \cup {w} /\ works' = works + 1
    /\ UNCHANGED <<mainVars, at, other, blocked, owner, lost, stop, cancelled, handler, bad>>

\* pthread_cancel takes effect where the thread sleeps, waits for a Mutex that was
\* taken when it came, or is in a system call of its work.  What else it owns, the
\* Mutex of an EventPoll, is released if the system unwinds the thread's stack.
Cancelled(w) ==
    /\ Goes(w) /\ w \in cancelled
    /\ \/ at[w] = "asleep" /\ w \in Polls /\ UNCHANGED lost
       \/ at[w] = "asleep" /\ w \notin Polls \cup lost /\ lost' = lost \cup {w}
       \/ w \in blocked /\ Awaited(w) \notin lost /\ lost' = lost \cup {Awaited(w)}
       \/ at[w] = "busy" /\ w \notin Polls /\ UNCHANGED lost
    /\ owner' \in {owner, [m \in Mutex |-> IF owner[m] = w THEN NULL ELSE owner[m]]}
    /\ To(w, "ended") /\ blocked' = blocked \ {w}
    /\ UNCHANGED <<mainVars, other, work, works, stop, cancelled, handler, bad>>
-----------------------------------------------------------------------------
(***************************************************************************)
(* ThreadState::signal_stop, in the thread that SIGINT interrupts          *)
(***************************************************************************)
Handler(p) == handler' = [handler EXCEPT !.at = p]

\* If it is an EventPoll in kevent(), that returns with EINTR afterwards.
Interrupt(t) ==
    /\ handler.at = "none"
    /\ IF t = Main THEN main # "returned" ELSE at[t] \notin {"unborn", "born", "ended"}
    /\ handler' = [handler EXCEPT !.at = "lock", !.in = t, !.held = {m \in Mutex : owner[m] = t}]
    /\ \/ UNCHANGED at
       \/ t \in Polls /\ at[t] = "asleep" /\ To(t, "eintr")
    /\ UNCHANGED <<mainVars, other, blocked, work, works, owner, lost, stop, cancelled, bad>>

HandlerLock ==
    /\ handler.at = "lock" /\ Lock(Start, handler.in)
    /\ handler' = [handler EXCEPT !.at = "next", !.left = running, !.early = running # Worker]
    /\ UNCHANGED <<mainVars, workerVars, lost, stop, cancelled, bad>>

\* td->stop() takes the Mutex of the next thread, ...
HandlerStop ==
    /\ handler.at = "next"
    /\ \E w \in handler.left :
         /\ Lock(w, handler.in)
         /\ handler' = [handler EXCEPT !.at = "stop", !.td = w, !.left = @ \ {w}]
    /\ UNCHANGED <<mainVars, workerVars, lost, stop, cancelled, bad>>

\* Mutant: the thread is told, but its Mutex is not released.
HandlerStoppedLocked ==
    /\ handler.at = "stop" /\ UNCHANGED owner
    /\ stop' = stop \cup {handler.td} /\ Handler("cancel")
    /\ UNCHANGED <<mainVars, workerVars, lost, cancelled, bad>>

\* ... sets stop_ and wakes the thread, ...
HandlerStopped ==
    /\ handler.at = "stop" /\ Unlock(handler.td)
    /\ stop' = stop \cup {handler.td} /\ Handler("cancel")
    /\ UNCHANGED <<mainVars, workerVars, lost, cancelled, bad>>

\* ... and pthread_cancel follows.
HandlerCancel ==
    /\ handler.at = "cancel" /\ Handler("next")
    /\ cancelled' = cancelled \cup ({handler.td} \ {handler.in})
    /\ UNCHANGED <<mainVars, workerVars, owner, lost, stop, bad>>

HandlerDone ==
    /\ handler.at = "next" /\ handler.left = {} /\ Unlock(Start) /\ Handler("done")
    /\ UNCHANGED <<mainVars, workerVars, lost, stop, cancelled, bad>>

HandlerStep == HandlerLock \/ HandlerStop \/ HandlerStopped \/ HandlerCancel \/ HandlerDone

\* A failed assertion ends the process.
Next ==
    /\ bad = {}
    /\ \/ MainStep \/ WakeSpurious \/ HandlerStep
       \/ \E w \in Worker : WorkerStep(w) \/ WorkerWants(w) \/ Block(w) \/ Happens(w) \/ Cancelled(w)
       \/ \E t \in Worker \cup {Main} : Interrupt(t)

Spec == Init /\ [][Next]_vars

\* Every thread runs, the handler as well.  Neither SIGINT nor work need ever come.
FairSpec ==
    /\ Spec
    /\ WF_vars(bad = {} /\ MainStep) /\ WF_vars(bad = {} /\ HandlerStep)
    /\ \A w \in Worker : WF_vars(bad = {} /\ WorkerStep(w))
-----------------------------------------------------------------------------
\* The types of what the threads share.
ThreadsTypeOK ==
    /\ main \in {"start", "create", "sleep", "insert", "join", "erase", "erasing", "returned"}
    /\ next \in DOMAIN Order /\ works \in 0..MaxWork
    /\ owner \in [Mutex -> Worker \cup {Main, NULL}] /\ lost \subseteq Mutex
    /\ running \subseteq Worker /\ stop \subseteq Worker /\ cancelled \subseteq Worker

\* The assertion of Thread::start: the new thread has set its td_ when start goes
\* on.  It can fail if a wakeup without a signal has come.
StartedIsRegistered == (running \subseteq registered /\ bad = {}) \/ spurious

\* event_main returns only when every thread has ended.  Of the threads only those
\* end that SIGINT found in running_threads and told to stop, and an EventPoll that
\* it interrupted.
ReturnIsLast ==
    /\ main = "returned" => running = {} /\ \A w \in Worker : at[w] = "ended"
    /\ cancelled \subseteq stop
    /\ \A w \in Worker : at[w] = "ended" => w \in stop \/ (w \in Polls /\ handler.in = w)

\* A Mutex has an owner that is somewhere inside it, or in the handler, or is an
\* EventPoll that was cancelled with its Mutex as it waited for another.
OwnerIsInside ==
    \A m \in Mutex, w \in Worker : owner[m] = w /\ ~(handler.in = w /\ handler.at # "done") =>
        \/ m = Start /\ at[w] = "signal"
        \/ m = w /\ at[w] = "own"
        \/ m = w /\ w \in Polls /\ at[w] \in {"busy", "want", "has", "worked"}
        \/ m = other[w] /\ at[w] = "has"
        \/ m = w /\ w \in Polls \cap cancelled /\ at[w] = "ended" /\ other[w] \in lost

\* What may keep the threads from ending: SIGINT came before all of them were in
\* running_threads; it interrupted a thread that held a Mutex, as the comments
\* in signal_stop say; a cancelled thread took a Mutex with it; or no thread
\* could be created.
Excused ==
    handler.early \/ handler.held # {} \/ lost # {} \/ failed \/ spurious \/ bad # {}

\* After SIGINT every thread ends and event_main returns.
StopEnds == (handler.at # "none") ~> (main = "returned" \/ Excused)

\* All threads are started if nothing comes in between.
StartEnds == <>(running = Worker \/ handler.at # "none" \/ Excused)

\* The threads have started one after the other, own what they are inside of, and
\* are all over when event_main returns.
ThreadsInv == ThreadsTypeOK /\ StartedIsRegistered /\ ReturnIsLast /\ OwnerIsInside
=============================================================================
