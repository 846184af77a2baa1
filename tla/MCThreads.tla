----------------------------- MODULE MCThreads -----------------------------
(***************************************************************************)
(* A Mutex with its SleepQueue, for a few threads; and the threads of a    *)
(* program, for which a Mutex is what the first shows it to be.  In a      *)
(* behaviour either one of them runs, as which says, and the other stays   *)
(* as it is.                                                               *)
(***************************************************************************)
EXTENDS PosixMutex, Sequences

CONSTANTS eventThread, eventPoll, Main, Start, MaxWork

VARIABLES which,
          main, next, at, other, blocked, threadOwner, lost, registered, running, roused, stop, work,
          works, cancelled, handler, spurious, failed, bad

threadsVars ==
    <<main, next, at, other, blocked, threadOwner, lost, registered, running, roused, stop, work,
      works, cancelled, handler, spurious, failed, bad>>

MCOrder == <<eventThread, eventPoll>>

T == INSTANCE Threads WITH Order <- MCOrder, Callbacks <- {eventThread}, Polls <- {eventPoll},
                           owner <- threadOwner

MCInit == which \in {"mutex", "threads"} /\ MutexInit /\ T!Init

\* The program may be over, or be stuck where ThreadsProgress allows it; the
\* threads at the Mutex never are.
MCNext ==
    /\ \/ which = "mutex" /\ MutexNext /\ UNCHANGED threadsVars
       \/ which = "threads" /\ (T!Next \/ UNCHANGED threadsVars) /\ UNCHANGED mutexVars
    /\ UNCHANGED which

\* The fairness that each of the modules assumes.
MCSpec ==
    /\ MCInit /\ [][MCNext]_<<which, mutexVars, threadsVars>>
    /\ \A t \in Thread :
         WF_mutexVars(which = "mutex" /\ t \in woken /\ (Retest(t) \/ Awake(t)))
    /\ WF_threadsVars(which = "threads" /\ bad = {} /\ T!MainStep)
    /\ WF_threadsVars(which = "threads" /\ bad = {} /\ T!HandlerStep)
    /\ \A w \in {eventThread, eventPoll} :
         WF_threadsVars(which = "threads" /\ bad = {} /\ T!WorkerStep(w))

\* The threads of a program start one after the other, own the Mutexes they are
\* inside of, and are over when event_main returns.
ThreadsInv == T!ThreadsInv

\* All threads are started; after SIGINT they end and event_main returns, but for
\* the cases that Excused lists.
ThreadsProgress == which = "threads" => T!StartEnds /\ T!StopEnds
=============================================================================
