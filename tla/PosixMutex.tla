----------------------------- MODULE PosixMutex -----------------------------
(***************************************************************************)
(* Mutex and SleepQueue over POSIX threads.  A Mutex is not the            *)
(* pthread_mutex_t it contains: that one is held only inside the           *)
(* operations, and ownership is the member owner_, which threads wait for  *)
(* on a condition variable of the Mutex.  A SleepQueue has a condition     *)
(* variable of its own.                                                    *)
(*                                                                         *)
(* Each critical section of the pthread_mutex_t is one step; it ends at    *)
(* pthread_cond_wait or at pthread_mutex_unlock.                           *)
(***************************************************************************)
EXTENDS Naturals, FiniteSets

CONSTANTS Thread, NULL

ASSUME ThreadAssumption == IsFiniteSet(Thread) /\ NULL \notin Thread

VARIABLES
    owner,    \* owner_
    waiters,  \* waiters_
    pc,       \* pc[t]: "out"; "in", owning the Mutex; "blocked" on the cond_
              \* of the Mutex; "asleep" on the cond_ of the SleepQueue
    woken     \* the threads that pthread_cond_signal woke on either cond_,
              \* and that have not run since

mutexVars == <<owner, waiters, pc, woken>>

MutexInit ==
    /\ owner = NULL /\ waiters = 0
    /\ pc = [t \in Thread |-> "out"] /\ woken = {}

Blocked == {t \in Thread : pc[t] = "blocked"}
Asleep == {t \in Thread : pc[t] = "asleep"}
-----------------------------------------------------------------------------
\* pthread_cond_signal, for the threads that wait on the condition variable.
CondSignal(waiting) ==
    \/ waiting \subseteq woken /\ UNCHANGED woken
    \/ \E t \in waiting \ woken : woken' = woken \cup {t}

\* MutexState::lock_acquire up to the first pthread_cond_wait.
LockAcquire(t) ==
    /\ IF owner # NULL
       THEN waiters' = waiters + 1 /\ pc' = [pc EXCEPT ![t] = "blocked"] /\ UNCHANGED owner
       ELSE owner' = t /\ pc' = [pc EXCEPT ![t] = "in"] /\ UNCHANGED waiters
    /\ woken' = woken \ {t}

\* Mutant: waiters_ is not decremented.
RetestUncounted(t) ==
    /\ pc[t] = "blocked"
    /\ IF owner # NULL
       THEN UNCHANGED <<owner, waiters, pc>>
       ELSE owner' = t /\ pc' = [pc EXCEPT ![t] = "in"] /\ UNCHANGED waiters
    /\ woken' = woken \ {t}

\* MutexState::lock_acquire from one return of pthread_cond_wait to the next.
Retest(t) ==
    /\ pc[t] = "blocked"
    /\ IF owner # NULL
       THEN UNCHANGED <<owner, waiters, pc>>
       ELSE owner' = t /\ waiters' = waiters - 1 /\ pc' = [pc EXCEPT ![t] = "in"]
    /\ woken' = woken \ {t}

\* Mutant: the last waiter is not signalled.
LockReleaseLast(t) ==
    /\ owner' = NULL
    /\ IF waiters > 1 THEN CondSignal(Blocked) ELSE UNCHANGED woken
    /\ UNCHANGED waiters

\* MutexState::lock_release
LockRelease(t) ==
    /\ owner' = NULL
    /\ IF waiters # 0 THEN CondSignal(Blocked) ELSE UNCHANGED woken
    /\ UNCHANGED waiters
-----------------------------------------------------------------------------
\* Mutex::lock, from outside.
Lock(t) == pc[t] = "out" /\ LockAcquire(t)

\* Mutex::try_lock
TryLock(t) ==
    /\ pc[t] = "out" /\ owner = NULL
    /\ owner' = t /\ pc' = [pc EXCEPT ![t] = "in"]
    /\ UNCHANGED <<waiters, woken>>

\* Mutex::unlock
Unlock(t) ==
    /\ pc[t] = "in"
    /\ LockRelease(t)
    /\ pc' = [pc EXCEPT ![t] = "out"]

\* SleepQueue::wait up to pthread_cond_wait or pthread_cond_timedwait.
Wait(t) ==
    /\ pc[t] = "in"
    /\ LockRelease(t)
    /\ pc' = [pc EXCEPT ![t] = "asleep"]

\* SleepQueue::wait when pthread_cond_wait returns: signalled, timed out or
\* for no reason.
Awake(t) == pc[t] = "asleep" /\ LockAcquire(t)

\* SleepQueue::signal
Signal(t) ==
    /\ pc[t] = "in"
    /\ CondSignal(Asleep)
    /\ UNCHANGED <<owner, waiters, pc>>

Step(t) ==
    \/ Lock(t) \/ Retest(t) \/ TryLock(t) \/ Unlock(t) \/ Wait(t) \/ Awake(t)
    \/ Signal(t)

MutexNext == \E t \in Thread : Step(t)

MutexSpec == MutexInit /\ [][MutexNext]_mutexVars

\* A thread that pthread_cond_signal woke runs in the end.
MutexFairSpec == MutexSpec /\ \A t \in Thread : WF_mutexVars(t \in woken /\ (Retest(t) \/ Awake(t)))
-----------------------------------------------------------------------------
\* The types of the members of MutexState and of the threads' positions.
MutexTypeOK ==
    /\ owner \in Thread \cup {NULL} /\ waiters \in 0..Cardinality(Thread)
    /\ pc \in [Thread -> {"out", "in", "blocked", "asleep"}]
    /\ woken \subseteq Blocked \cup Asleep

\* The thread that is between lock and unlock is the owner, and there is no
\* other: the assertions of lock_release and of SleepQueueState::signal hold.
OwnerIsInside == \A t \in Thread : pc[t] = "in" <=> owner = t

\* waiters_ is the number of threads that a release may have to wake, those
\* that came back from SleepQueue::wait to a Mutex in use included.
WaitersCounted == waiters = Cardinality(Blocked)

\* No thread waits for a free Mutex unless one has been woken to take it, even
\* though an awakened thread can find that another was quicker.
NoLostHandoff == owner = NULL /\ Blocked # {} => Blocked \cap woken # {}

\* Mutex and SleepQueue keep their state: types, one owner, which is the thread
\* inside, the count of waiters, and a successor for every release.
MutexSafe == MutexTypeOK /\ OwnerIsInside /\ WaitersCounted /\ NoLostHandoff

\* Mutex and SleepQueue are a Monitor: owner_, waiters_ and the wakeups of the
\* Mutex's own condition variable are an implementation detail.
M == INSTANCE Monitor WITH
       at <- [t \in Thread |-> IF pc[t] = "blocked" THEN "entering" ELSE pc[t]],
       roused <- woken \cap Asleep

\* ... in what they do,
ImplementsMonitor == M!Spec

\* ... and in what they guarantee to do.
ImplementsFairMonitor == M!FairSpec
=============================================================================
