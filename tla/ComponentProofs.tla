-------------------------- MODULE ComponentProofs ---------------------------
(***************************************************************************)
(* What is proved of the components that stand alone: Mutex and           *)
(* SleepQueue, the segments that Buffers share, TimeoutThread and diskdup. *)
(***************************************************************************)
EXTENDS PosixMutex, SharedSegment, TimeoutThread, DiskDup, FiniteSetTheorems,
        SequenceTheorems, WellFoundedInduction, TLAPS

-----------------------------------------------------------------------------
(***************************************************************************)
(* Mutex and SleepQueue are correct for any number of threads.             *)
(***************************************************************************)

\* The types without the bound on waiters_, which follows from WaitersCounted.
Types ==
    /\ owner \in Thread \cup {NULL} /\ waiters \in Nat
    /\ pc \in [Thread -> {"out", "in", "blocked", "asleep"}]
    /\ woken \subseteq Blocked \cup Asleep

\* What holds of a Mutex and its SleepQueue at all times.
MutexInv == Types /\ OwnerIsInside /\ WaitersCounted /\ NoLostHandoff

\* The threads blocked in lock_acquire are finitely many, and waiters_ is zero
\* when there are none.
LEMMA BlockedFinite ==
    /\ IsFiniteSet(Blocked) /\ Cardinality(Blocked) \in Nat
    /\ Cardinality(Blocked) = 0 <=> Blocked = {}
    /\ Cardinality(Blocked) <= Cardinality(Thread)
<1>1. Blocked \subseteq Thread
  BY Zenon DEF Blocked
<1>2. IsFiniteSet(Blocked) /\ Cardinality(Blocked) <= Cardinality(Thread)
  BY <1>1, ThreadAssumption, FS_Subset, Zenon
<1>3. QED
  BY <1>2, FS_CardinalityType, FS_EmptySet, Zenon

\* A thread that calls lock_acquire, from lock or after a sleep, takes a free
\* Mutex or is counted as a waiter.
LEMMA LockAcquireStep ==
    ASSUME MutexInv, NEW t \in Thread, pc[t] \in {"out", "asleep"}, LockAcquire(t)
    PROVE  MutexInv'
<1> USE ThreadAssumption DEF MutexInv
<1>1. CASE owner # NULL
  <2>1. /\ waiters' = waiters + 1 /\ pc' = [pc EXCEPT ![t] = "blocked"]
        /\ owner' = owner /\ woken' = woken \ {t}
    BY <1>1, Zenon DEF LockAcquire
  <2>2. Blocked' = Blocked \cup {t} /\ t \notin Blocked
    BY <2>1, Zenon DEF Blocked, Types
  <2>3. WaitersCounted'
    BY <2>1, <2>2, BlockedFinite, FS_AddElement, Zenon DEF WaitersCounted
  <2>4. Types'
    BY <2>1 DEF Types, Blocked, Asleep
  <2>5. OwnerIsInside'
    BY <2>1, Zenon DEF OwnerIsInside, Types
  <2>6. NoLostHandoff'
    BY <1>1, <2>1, Zenon DEF NoLostHandoff
  <2>7. QED
    BY <2>3, <2>4, <2>5, <2>6, Zenon
<1>2. CASE owner = NULL
  <2>1. /\ waiters' = waiters /\ pc' = [pc EXCEPT ![t] = "in"]
        /\ owner' = t /\ woken' = woken \ {t}
    BY <1>2, Zenon DEF LockAcquire
  <2>2. Blocked' = Blocked
    BY <2>1, Zenon DEF Blocked, Types
  <2>3. WaitersCounted'
    BY <2>1, <2>2, Zenon DEF WaitersCounted
  <2>4. Types'
    BY <2>1, Zenon DEF Types, Blocked, Asleep
  <2>5. OwnerIsInside'
    BY <1>2, <2>1, Zenon DEF OwnerIsInside, Types
  <2>6. NoLostHandoff'
    BY <2>1, Zenon DEF NoLostHandoff
  <2>7. QED
    BY <2>3, <2>4, <2>5, <2>6, Zenon
<1>3. QED
  BY <1>1, <1>2, Zenon

\* A thread that returns from pthread_cond_wait in lock_acquire takes the Mutex
\* if it is free, and otherwise its owner will signal again.
LEMMA RetestStep == ASSUME MutexInv, NEW t \in Thread, Retest(t) PROVE MutexInv'
<1> USE ThreadAssumption DEF MutexInv
<1>1. CASE owner # NULL
  <2>1. waiters' = waiters /\ pc' = pc /\ owner' = owner /\ woken' = woken \ {t}
    BY <1>1, Zenon DEF Retest
  <2>2. Blocked' = Blocked /\ Asleep' = Asleep
    BY <2>1, Zenon DEF Blocked, Asleep
  <2>3. QED
    BY <1>1, <2>1, <2>2, Zenon DEF WaitersCounted, Types, OwnerIsInside, NoLostHandoff
<1>2. CASE owner = NULL
  <2>1. /\ waiters' = waiters - 1 /\ pc' = [pc EXCEPT ![t] = "in"]
        /\ owner' = t /\ woken' = woken \ {t} /\ pc[t] = "blocked"
    BY <1>2, Zenon DEF Retest
  <2>2. Blocked' = Blocked \ {t} /\ t \in Blocked
    BY <2>1, Zenon DEF Blocked, Types
  <2>3. Cardinality(Blocked') = Cardinality(Blocked) - 1
    BY <2>2, BlockedFinite, FS_RemoveElement, Zenon
  <2>4. waiters # 0
    BY <2>2, BlockedFinite, Zenon DEF WaitersCounted
  <2>5. WaitersCounted'
    BY <2>1, <2>3, Zenon DEF WaitersCounted
  <2>6. Types'
    BY <2>1, <2>4 DEF Types, Blocked, Asleep
  <2>7. OwnerIsInside'
    BY <1>2, <2>1, Zenon DEF OwnerIsInside, Types
  <2>8. NoLostHandoff'
    BY <2>1, Zenon DEF NoLostHandoff
  <2>9. QED
    BY <2>5, <2>6, <2>7, <2>8, Zenon
<1>3. QED
  BY <1>1, <1>2, Zenon

\* A release, by unlock or by a sleep, wakes a successor if there is one.
LEMMA LockReleaseStep ==
    ASSUME MutexInv, NEW t \in Thread, NEW s \in {"out", "asleep"}, pc[t] = "in",
           LockRelease(t), pc' = [pc EXCEPT ![t] = s]
    PROVE  MutexInv'
<1> USE ThreadAssumption DEF MutexInv
<1>1. owner' = NULL /\ waiters' = waiters
  BY Zenon DEF LockRelease
<1>2. Blocked' = Blocked /\ Asleep \subseteq Asleep'
  BY Zenon DEF Blocked, Asleep, Types
<1>3. woken' \subseteq Blocked \cup Asleep
  BY Zenon DEF LockRelease, CondSignal, Types
<1>4. WaitersCounted'
  BY <1>1, <1>2, Zenon DEF WaitersCounted
<1>5. Types'
  BY <1>1, <1>2, <1>3, Zenon DEF Types
<1>6. OwnerIsInside'
  BY <1>1, Zenon DEF OwnerIsInside, Types
<1>7. NoLostHandoff'
  <2>1. CASE Blocked = {}
    BY <1>2, <2>1, Zenon DEF NoLostHandoff
  <2>2. CASE Blocked # {}
    <3>1. waiters # 0
      BY <2>2, BlockedFinite, Zenon DEF WaitersCounted
    <3>2. CondSignal(Blocked)
      BY <3>1, Zenon DEF LockRelease
    <3>3. Blocked \cap woken' # {}
      BY <2>2, <3>2, Zenon DEF CondSignal
    <3>4. QED
      BY <1>2, <3>3, Zenon DEF NoLostHandoff
  <2>3. QED
    BY <2>1, <2>2, Zenon
<1>8. QED
  BY <1>4, <1>5, <1>6, <1>7, Zenon

\* try_lock takes only a free Mutex.
LEMMA TryLockStep == ASSUME MutexInv, NEW t \in Thread, TryLock(t) PROVE MutexInv'
<1> USE ThreadAssumption DEF MutexInv, TryLock
<1>1. Blocked' = Blocked /\ Asleep' = Asleep
  BY Zenon DEF Blocked, Asleep, Types
<1>2. Types'
  BY <1>1, Zenon DEF Types
<1>3. OwnerIsInside'
  BY Zenon DEF OwnerIsInside, Types
<1>4. WaitersCounted' /\ NoLostHandoff'
  BY <1>1, Zenon DEF WaitersCounted, NoLostHandoff
<1>5. QED
  BY <1>2, <1>3, <1>4, Zenon

\* SleepQueue::signal leaves the Mutex as it is.
LEMMA SignalStep == ASSUME MutexInv, NEW t \in Thread, Signal(t) PROVE MutexInv'
<1> USE ThreadAssumption DEF MutexInv, Signal
<1>1. Blocked' = Blocked /\ Asleep' = Asleep
  BY Zenon DEF Blocked, Asleep
<1>2. woken \subseteq woken' /\ woken' \subseteq Blocked \cup Asleep
  BY Zenon DEF CondSignal, Types
<1>3. owner' = owner /\ pc' = pc /\ waiters' = waiters
  OBVIOUS
<1>4. Types'
  BY <1>1, <1>2, <1>3, Zenon DEF Types
<1>5. OwnerIsInside' /\ WaitersCounted'
  BY <1>1, <1>3, Zenon DEF OwnerIsInside, WaitersCounted
<1>6. NoLostHandoff'
  <2>1. ASSUME owner = NULL PROVE FALSE
    BY <2>1, Zenon DEF OwnerIsInside
  <2>2. QED
    BY <1>3, <2>1, Zenon DEF NoLostHandoff
<1>7. QED
  BY <1>4, <1>5, <1>6, Zenon

\* The constructor of MutexState establishes MutexInv.
LEMMA MutexInvInit == MutexInit => MutexInv
<1> SUFFICES ASSUME MutexInit PROVE MutexInv
  OBVIOUS
<1>1. Blocked = {}
  BY Zenon DEF MutexInit, Blocked
<1>2. Types /\ OwnerIsInside
  BY ThreadAssumption, Zenon DEF MutexInit, Types, OwnerIsInside
<1>3. WaitersCounted /\ NoLostHandoff
  BY <1>1, FS_EmptySet, Zenon DEF MutexInit, WaitersCounted, NoLostHandoff
<1>4. QED
  BY <1>2, <1>3, Zenon DEF MutexInv

\* Every operation of Mutex and SleepQueue preserves MutexInv.
LEMMA MutexInvStep == ASSUME MutexInv, [MutexNext]_mutexVars PROVE MutexInv'
<1>1. CASE UNCHANGED mutexVars
  BY <1>1, Zenon DEF mutexVars, MutexInv, Types, OwnerIsInside, WaitersCounted, NoLostHandoff,
              Blocked, Asleep
<1>2. ASSUME NEW t \in Thread, Step(t) PROVE MutexInv'
  <2>1. CASE Lock(t) \/ Awake(t)
    BY <2>1, LockAcquireStep, Zenon DEF Lock, Awake
  <2>2. CASE Retest(t)
    BY <2>2, RetestStep, Zenon
  <2>3. CASE Unlock(t) \/ Wait(t)
    BY <2>3, LockReleaseStep, Zenon DEF Unlock, Wait
  <2>4. CASE TryLock(t)
    BY <2>4, TryLockStep, Zenon
  <2>5. CASE Signal(t)
    BY <2>5, SignalStep, Zenon
  <2>6. QED
    BY <1>2, <2>1, <2>2, <2>3, <2>4, <2>5, Zenon DEF Step
<1>3. QED
  BY <1>1, <1>2, Zenon DEF MutexNext

\* For any number of threads a Mutex has one owner, the thread that is between
\* lock and unlock.
THEOREM MutualExclusion == MutexSpec => []OwnerIsInside
<1>1. MutexInv => OwnerIsInside
  BY Zenon DEF MutexInv
<1>2. QED
  BY <1>1, MutexInvInit, MutexInvStep, PTL DEF MutexSpec

\* For any number of threads waiters_ counts those that wait.
THEOREM WaitersAreCounted == MutexSpec => []WaitersCounted
<1>1. MutexInv => WaitersCounted
  BY Zenon DEF MutexInv
<1>2. QED
  BY <1>1, MutexInvInit, MutexInvStep, PTL DEF MutexSpec

\* For any number of threads a free Mutex has woken a thread that waits for it,
\* if there is one.
THEOREM HandoffIsKept == MutexSpec => []NoLostHandoff
<1>1. MutexInv => NoLostHandoff
  BY Zenon DEF MutexInv
<1>2. QED
  BY <1>1, MutexInvInit, MutexInvStep, PTL DEF MutexSpec

\* The members of MutexState keep their types for any number of threads.
THEOREM MutexTypes == MutexSpec => []MutexTypeOK
<1>1. MutexInv => MutexTypeOK
  BY BlockedFinite, ThreadAssumption, FS_CardinalityType
  DEF MutexInv, Types, MutexTypeOK, WaitersCounted
<1>2. QED
  BY <1>1, MutexInvInit, MutexInvStep, PTL DEF MutexSpec

\* All of it together is what Mutex and SleepQueue keep, for any number of
\* threads.
THEOREM MutexIsSafe == MutexSpec => []MutexSafe
<1>1. MutexTypeOK /\ OwnerIsInside /\ WaitersCounted /\ NoLostHandoff => MutexSafe
  BY Zenon DEF MutexSafe
<1>2. QED
  BY <1>1, MutexTypes, MutualExclusion, WaitersAreCounted, HandoffIsKept, PTL
-----------------------------------------------------------------------------
\* Where the Monitor has each thread.
At == [t \in Thread |-> IF pc[t] = "blocked" THEN "entering" ELSE pc[t]]

\* The monitor is free exactly when owner_ is NULL.
LEMMA FreeIsEmpty == MutexInv => (M!Inside = {} <=> owner = NULL)
<1> SUFFICES ASSUME MutexInv PROVE M!Inside = {} <=> owner = NULL
  OBVIOUS
<1>1. \A t \in Thread : t \in M!Inside <=> pc[t] = "in"
  BY Zenon DEF M!Inside
<1>2. M!Inside \subseteq Thread
  BY Zenon DEF M!Inside
<1>3. QED
  BY <1>1, <1>2, ThreadAssumption, Zenon DEF MutexInv, OwnerIsInside, Types

\* Each step of PosixMutex is a step of Monitor or changes nothing in it.
LEMMA MonitorStep ==
    ASSUME MutexInv, [MutexNext]_mutexVars PROVE [M!Next]_(M!vars)
<1> USE DEF MutexInv, Types
<1>s. M!Sleeping = Asleep
  BY Zenon DEF M!Sleeping, Asleep
<1>1. CASE UNCHANGED mutexVars
  BY <1>1, Zenon DEF mutexVars, M!vars, Asleep
<1>2. ASSUME NEW t \in Thread, Lock(t) \/ Awake(t) PROVE M!Enter(t)
  <2>1. pc[t] \in {"out", "asleep"} /\ LockAcquire(t)
    BY <1>2, Zenon DEF Lock, Awake
  <2>2. (woken \cap Asleep)' = (woken \cap Asleep) \ {t}
    BY <2>1, Zenon DEF LockAcquire, Asleep
  <2>3. CASE owner # NULL
    <3>1. At' = [At EXCEPT ![t] = "entering"]
      BY <2>1, <2>3, Zenon DEF LockAcquire, At
    <3>2. QED
      BY <2>1, <2>2, <3>1, Zenon DEF M!Enter, At
  <2>4. CASE owner = NULL
    <3>1. At' = [At EXCEPT ![t] = "in"]
      BY <2>1, <2>4, Zenon DEF LockAcquire, At
    <3>2. M!Inside = {}
      BY <2>4, FreeIsEmpty, Zenon
    <3>3. QED
      BY <2>1, <2>2, <3>1, <3>2, Zenon DEF M!Enter, At
  <2>5. QED
    BY <2>3, <2>4, Zenon
<1>3. ASSUME NEW t \in Thread, TryLock(t) PROVE M!Enter(t)
  <2>1. At' = [At EXCEPT ![t] = "in"]
    BY <1>3, Zenon DEF TryLock, At
  <2>2. M!Inside = {}
    BY <1>3, FreeIsEmpty, Zenon DEF TryLock
  <2>3. (woken \cap Asleep)' = (woken \cap Asleep) \ {t}
    BY <1>3, Zenon DEF TryLock, Asleep
  <2>4. QED
    BY <1>3, <2>1, <2>2, <2>3, Zenon DEF M!Enter, At, TryLock
<1>4. ASSUME NEW t \in Thread, Retest(t) PROVE [M!Next]_(M!vars)
  <2>1. (woken \cap Asleep)' = woken \cap Asleep
    BY <1>4, Zenon DEF Retest, Asleep
  <2>2. CASE owner # NULL
    BY <1>4, <2>1, <2>2, Zenon DEF Retest, M!vars
  <2>3. CASE owner = NULL
    <3>1. At' = [At EXCEPT ![t] = "in"] /\ At[t] = "entering"
      BY <1>4, <2>3, Zenon DEF Retest, At
    <3>2. M!Inside = {}
      BY <2>3, FreeIsEmpty, Zenon
    <3>3. M!Admit(t)
      BY <2>1, <3>1, <3>2, Zenon DEF M!Admit, At
    <3>4. QED
      BY <3>3, Zenon DEF M!Next
  <2>4. QED
    BY <2>2, <2>3, Zenon
<1>5. ASSUME NEW t \in Thread, Unlock(t) \/ Wait(t) PROVE M!Leave(t) \/ M!Sleep(t)
  <2>1. pc[t] = "in" /\ At[t] = "in" /\ LockRelease(t)
    BY <1>5, Zenon DEF Unlock, Wait, At
  <2>2. (woken \cap Asleep)' = woken \cap Asleep
    BY <1>5, <2>1, Zenon DEF Unlock, Wait, LockRelease, CondSignal, Asleep, Blocked
  <2>3. At' = [At EXCEPT ![t] = "out"] \/ At' = [At EXCEPT ![t] = "asleep"]
    BY <1>5, Zenon DEF Unlock, Wait, At
  <2>4. QED
    BY <2>1, <2>2, <2>3, Zenon DEF M!Leave, M!Sleep, At
<1>6. ASSUME NEW t \in Thread, Signal(t) PROVE M!Signal(t)
  <2>1. At' = At /\ At[t] = "in" /\ Asleep' = Asleep
    BY <1>6, Zenon DEF Signal, At, Asleep
  <2>2. \/ Asleep \subseteq woken \cap Asleep /\ (woken \cap Asleep)' = woken \cap Asleep
        \/ \E u \in Asleep \ (woken \cap Asleep) :
             (woken \cap Asleep)' = (woken \cap Asleep) \cup {u}
    BY <1>6, <2>1, Zenon DEF Signal, CondSignal
  <2>3. QED
    BY <1>s, <2>1, <2>2, Zenon DEF M!Signal, At
<1>7. QED
  BY <1>1, <1>2, <1>3, <1>4, <1>5, <1>6, Zenon DEF MutexNext, Step, M!Next

\* Mutex and SleepQueue implement a Monitor, for any number of threads.
THEOREM MutexImplementsMonitor == MutexSpec => ImplementsMonitor
<1>1. MutexInit => M!Init
  BY Zenon DEF MutexInit, M!Init, Asleep
<1>2. QED
  BY <1>1, MutexInvInit, MutexInvStep, MonitorStep, PTL
  DEF MutexSpec, ImplementsMonitor, M!Spec
-----------------------------------------------------------------------------
(***************************************************************************)
(* The atomic reference count keeps a BufferSegment to one writer, and     *)
(* deletes it once, for any number of references.                          *)
(***************************************************************************)

\* The references that were not dropped are finitely many.
LEMMA HoldersFinite ==
    /\ IsFiniteSet(Holders) /\ Cardinality(Holders) \in Nat
    /\ Cardinality(Holders) = 0 <=> Holders = {}
<1>1. Holders \subseteq Reference
  BY Zenon DEF Holders
<1>2. IsFiniteSet(Holders)
  BY <1>1, ReferenceFinite, FS_Subset, Zenon
<1>3. QED
  BY <1>2, FS_CardinalityType, FS_EmptySet, Zenon

\* A count of one means that the reference exclusive() was asked through is the
\* only one.
LEMMA OnlyHolder ==
    ASSUME NEW x \in Holders, Cardinality(Holders) = 1
    PROVE  Holders = {x}
<1>1. Cardinality(Holders \ {x}) = 0 /\ IsFiniteSet(Holders \ {x})
  BY HoldersFinite, FS_RemoveElement
<1>2. Holders \ {x} = {}
  BY <1>1, FS_EmptySet, Zenon
<1>3. QED
  BY <1>2, Zenon

\* A step of a reference that stays in use leaves the set of them alone.
LEMMA StaysHolder ==
    ASSUME SharedInv, NEW x \in Reference, NEW to \in Holding,
           at[x] \in Holding, Go(x, to)
    PROVE  /\ Holders' = Holders
           /\ at' \in [Reference -> Places]
           /\ \A y \in Reference : at'[y] = IF y = x THEN to ELSE at[y]
BY Zenon DEF SharedInv, SharedTypeOK, Go, Holders, Holding, Places

\* The step of a reference that stays in use and does not begin to write keeps
\* the invariant, whatever it loads.
LEMMA QuietStep ==
    ASSUME SharedInv, NEW x \in Reference, NEW to \in Holding \ {"write"},
           at[x] \in Holding, Go(x, to),
           UNCHANGED <<refs, deleted>>, seen' \in [Reference -> Nat]
    PROVE  SharedInv'
<1>1. /\ Holders' = Holders /\ at' \in [Reference -> Places]
      /\ \A y \in Reference : at'[y] = IF y = x THEN to ELSE at[y]
  BY StaysHolder, Zenon
<1>2. SharedTypeOK'
  BY <1>1, Zenon DEF SharedInv, SharedTypeOK
<1>3. CountIsExact'
  BY <1>1, Zenon DEF SharedInv, CountIsExact, Holding
<1>4. WriterIsAlone'
  BY <1>1, Zenon DEF SharedInv, WriterIsAlone
<1>5. QED
  BY <1>2, <1>3, <1>4, Zenon DEF SharedInv

\* create leaves the segment with one reference.
LEMMA SharedInitInv == SharedInit => SharedInv
<1> SUFFICES ASSUME SharedInit PROVE SharedInv
  OBVIOUS
<1>1. Creator \in Reference
  BY ReferenceFinite, Zenon DEF Creator
<1>2. Holders = {Creator}
  BY <1>1, Zenon DEF SharedInit, Holders, Holding
<1>3. SharedTypeOK
  BY Zenon DEF SharedInit, SharedTypeOK, Places, Holding
<1>4. CountIsExact
  BY <1>2, FS_Singleton, Zenon DEF SharedInit, CountIsExact
<1>5. WriterIsAlone
  BY Zenon DEF SharedInit, WriterIsAlone
<1>6. QED
  BY <1>3, <1>4, <1>5, Zenon DEF SharedInv

\* A new reference is counted.
LEMMA HoldStep ==
    ASSUME SharedInv, NEW x \in Reference, NEW y \in Reference, Hold(x, y)
    PROVE  SharedInv'
<1>1. /\ at[x] = "idle" /\ at[y] = "none" /\ refs' = refs + 1
      /\ UNCHANGED <<seen, deleted>>
      /\ at' = [at EXCEPT ![y] = "idle"]
  BY Zenon DEF Hold, Go
<1>2. /\ x \in Holders /\ y \notin Holders
      /\ Holders' = Holders \cup {y}
  BY <1>1, Zenon DEF SharedInv, SharedTypeOK, Holders, Holding
<1>3. SharedTypeOK'
  BY <1>1 DEF SharedInv, SharedTypeOK, Places, Holding
<1>4. refs' = Cardinality(Holders')
  BY <1>1, <1>2, HoldersFinite, FS_AddElement, Zenon DEF SharedInv, CountIsExact
<1>5. ~deleted /\ \A z \in Reference : at[z] # "delete"
  BY <1>2, Zenon DEF SharedInv, CountIsExact
<1>6. CountIsExact'
  BY <1>1, <1>4, <1>5, Zenon DEF CountIsExact, SharedInv, SharedTypeOK
<1>7. \A z \in Reference : at[z] # "write"
  BY <1>1, <1>2, Zenon DEF SharedInv, WriterIsAlone
<1>8. WriterIsAlone'
  BY <1>1, <1>7, Zenon DEF WriterIsAlone, SharedInv, SharedTypeOK
<1>9. QED
  BY <1>3, <1>6, <1>8, Zenon DEF SharedInv

\* An operation writes in place only when its reference is the only one.
LEMMA ModifyStep ==
    ASSUME SharedInv, NEW x \in Reference, Modify(x)
    PROVE  SharedInv'
<1>1. /\ at[x] = "idle" /\ UNCHANGED <<refs, seen, deleted>>
      /\ Go(x, IF refs = 1 THEN "write" ELSE "copy")
  BY Zenon DEF Modify
<1>2. CASE refs = 1
  <2>1. x \in Holders /\ at[x] \in Holding
    BY <1>1, Zenon DEF Holders, Holding
  <2>2. Holders = {x}
    BY <1>2, <2>1, OnlyHolder, Zenon DEF SharedInv, CountIsExact
  <2>3. /\ Holders' = Holders /\ at' \in [Reference -> Places]
        /\ \A y \in Reference : at'[y] = IF y = x THEN "write" ELSE at[y]
    BY <1>1, <1>2, <2>1, StaysHolder, Zenon DEF Holding
  <2>4. SharedTypeOK'
    BY <1>1, <2>3, Zenon DEF SharedInv, SharedTypeOK
  <2>5. CountIsExact'
    BY <1>1, <2>3, Zenon DEF SharedInv, CountIsExact
  <2>6. WriterIsAlone'
    BY <2>2, <2>3, Zenon DEF SharedInv, WriterIsAlone
  <2>7. QED
    BY <2>4, <2>5, <2>6, Zenon DEF SharedInv
<1>3. CASE refs # 1
  BY <1>1, <1>3, QuietStep, Zenon DEF Holding, SharedInv, SharedTypeOK
<1>4. QED
  BY <1>2, <1>3, Zenon

\* The reference that cmpset drops is taken off the count, and the thread that
\* took it from one to zero is the only one to delete the segment.
LEMMA CmpsetStep ==
    ASSUME SharedInv, NEW x \in Reference, Cmpset(x)
    PROVE  SharedInv'
<1>1. at[x] = "cmpset" /\ UNCHANGED <<seen, deleted>>
  BY Zenon DEF Cmpset
<1>2. CASE refs # seen[x]
  <2>1. Go(x, "load") /\ UNCHANGED refs
    BY <1>2, Zenon DEF Cmpset
  <2>2. QED
    BY <1>1, <2>1, QuietStep, Zenon DEF Holding, SharedInv, SharedTypeOK
<1>3. CASE refs = seen[x]
  <2>1. /\ refs' = refs - 1
        /\ at' = [at EXCEPT ![x] = IF refs = 1 THEN "delete" ELSE "none"]
    BY <1>3, Zenon DEF Cmpset, Go
  <2>2. x \in Holders /\ Holders' = Holders \ {x}
    BY <1>1, <2>1, Zenon DEF Holders, Holding, SharedInv, SharedTypeOK
  <2>3. /\ Cardinality(Holders') = Cardinality(Holders) - 1
        /\ Cardinality(Holders) \in Nat /\ Cardinality(Holders) # 0
    BY <2>2, HoldersFinite, FS_RemoveElement, Zenon
  <2>4. refs' = Cardinality(Holders') /\ refs' \in Nat
    BY <2>1, <2>3 DEF SharedInv, CountIsExact
  <2>5. SharedTypeOK'
    BY <1>1, <2>1, <2>4, Zenon DEF SharedInv, SharedTypeOK, Places, Holding
  <2>6. ~deleted /\ \A y \in Reference : at[y] # "delete"
    BY <2>2, Zenon DEF SharedInv, CountIsExact
  <2>7. refs = 1 => Holders' = {}
    BY <2>2, OnlyHolder, Zenon DEF SharedInv, CountIsExact
  <2>8. CountIsExact'
    BY <1>1, <2>1, <2>4, <2>6, <2>7, Zenon DEF CountIsExact, SharedInv, SharedTypeOK
  <2>9. \A y \in Reference : at[y] # "write"
    BY <1>1, <2>2, Zenon DEF SharedInv, WriterIsAlone
  <2>10. WriterIsAlone'
    BY <2>1, <2>9, Zenon DEF WriterIsAlone, SharedInv, SharedTypeOK
  <2>11. QED
    BY <2>5, <2>8, <2>10, Zenon DEF SharedInv
<1>4. QED
  BY <1>2, <1>3, Zenon

\* delete comes when there is no reference left.
LEMMA DeleteStep ==
    ASSUME SharedInv, NEW x \in Reference, Delete(x)
    PROVE  SharedInv'
<1>1. /\ at[x] = "delete" /\ deleted' = TRUE /\ UNCHANGED <<refs, seen>>
      /\ at' = [at EXCEPT ![x] = "none"]
  BY Zenon DEF Delete, Go
<1>2. Holders' = Holders /\ Holders = {} /\ \A y \in Reference : at'[y] # "delete"
  BY <1>1, Zenon DEF SharedInv, SharedTypeOK, CountIsExact, Holders, Holding
<1>3. SharedTypeOK'
  BY <1>1, Zenon DEF SharedInv, SharedTypeOK, Places
<1>4. CountIsExact'
  BY <1>1, <1>2, Zenon DEF SharedInv, CountIsExact
<1>5. WriterIsAlone'
  BY <1>1, <1>2, Zenon DEF SharedInv, SharedTypeOK, WriterIsAlone
<1>6. QED
  BY <1>3, <1>4, <1>5, Zenon DEF SharedInv

\* SharedInv is preserved by every step.
LEMMA SharedStep == SharedInv /\ [SharedNext]_sharedVars => SharedInv'
<1> SUFFICES ASSUME SharedInv, [SharedNext]_sharedVars PROVE SharedInv'
  OBVIOUS
<1>1. CASE UNCHANGED sharedVars
  BY <1>1, Zenon DEF sharedVars, SharedInv, SharedTypeOK, CountIsExact, WriterIsAlone, Holders
<1>2. ASSUME NEW x \in Reference, NEW y \in Reference, Hold(x, y) PROVE SharedInv'
  BY <1>2, HoldStep, Zenon
<1>3. ASSUME NEW x \in Reference, Modify(x) PROVE SharedInv'
  BY <1>3, ModifyStep, Zenon
<1>4. ASSUME NEW x \in Reference, Written(x) \/ Copied(x) \/ Drop(x) PROVE SharedInv'
  <2>1. /\ at[x] \in Holding /\ UNCHANGED <<refs, seen, deleted>>
        /\ \E to \in Holding \ {"write"} : Go(x, to)
    BY <1>4, Zenon DEF Written, Copied, Drop, Holding
  <2>2. QED
    BY <2>1, QuietStep, Zenon DEF SharedInv, SharedTypeOK
<1>5. ASSUME NEW x \in Reference, Load(x) PROVE SharedInv'
  <2>1. /\ at[x] \in Holding /\ UNCHANGED <<refs, deleted>> /\ Go(x, "cmpset")
        /\ seen' \in [Reference -> Nat]
    BY <1>5, Zenon DEF Load, Holding, SharedInv, SharedTypeOK
  <2>2. QED
    BY <2>1, QuietStep, Zenon DEF Holding
<1>6. ASSUME NEW x \in Reference, Cmpset(x) PROVE SharedInv'
  BY <1>6, CmpsetStep, Zenon
<1>7. ASSUME NEW x \in Reference, Delete(x) PROVE SharedInv'
  BY <1>7, DeleteStep, Zenon
<1>8. QED
  BY <1>1, <1>2, <1>3, <1>4, <1>5, <1>6, <1>7, Zenon DEF SharedNext

\* For any number of references in any number of threads: the count is exact, a
\* segment is written in place by a thread that has the only reference, and it
\* is deleted once, after the last reference was dropped.
THEOREM SharingIsSafe == SharedSpec => []SharedInv
BY SharedInitInv, SharedStep, PTL DEF SharedSpec
-----------------------------------------------------------------------------
(***************************************************************************)
(* What TimeoutThread promises about each timeout, for every set of        *)
(* timeouts, all delays and any number of units to the second.  Two facts  *)
(* carry the proof: the order of the map has a first deadline, although    *)
(* it is not the order of time, and a deadline that is ready in that order *)
(* is less than a second away.                                             *)
(***************************************************************************)

\* A set of natural numbers that is not empty has a least element.
LEMMA LeastNatural ==
    ASSUME NEW S \in SUBSET Nat, S # {}
    PROVE  \E x \in S : \A y \in S : x <= y
<1> DEFINE R == {ss \in Nat \X Nat : ss[1] < ss[2]}
<1>1. IsWellFoundedOn(R, Nat)
  <2>1. OpToRel(<, Nat) = R
    BY Zenon DEF OpToRel
  <2> QED
    BY <2>1, NatLessThanWellFounded, Zenon
<1> HIDE DEF R
<1>2. PICK x \in S : \A y \in S : <<y, x>> \notin R
  BY <1>1, WFMin, Zenon
<1>3. ASSUME NEW y \in S
      PROVE  x <= y
  <2>1. <<y, x>> \notin R
    BY <1>2, Zenon
  <2>2. x \in Nat /\ y \in Nat /\ ~(y < x)
    BY <2>1, Zenon DEF R
  <2> QED
    BY <2>2
<1> QED
  BY <1>3, Zenon

\* A set of deadlines that is not empty has a first one, in the order of
\* NanoTime::operator<=.
LEMMA FirstExists ==
    ASSUME NEW D \in SUBSET (Nat \X Nat), D # {}
    PROVE  \E d \in D : \A e \in D : LessEq(d, e)
<1> DEFINE Seconds == {d[1] : d \in D}
<1>1. PICK s \in Seconds : \A r \in Seconds : s <= r
  <2>1. Seconds \in SUBSET Nat /\ Seconds # {}
    OBVIOUS
  <2> HIDE DEF Seconds
  <2> QED
    BY <2>1, LeastNatural, Zenon
<1> DEFINE Fractions == {d[2] : d \in {e \in D : e[1] = s}}
<1>2. PICK f \in Fractions : \A g \in Fractions : f <= g
  <2>1. Fractions \in SUBSET Nat /\ Fractions # {}
    OBVIOUS
  <2> HIDE DEF Fractions
  <2> QED
    BY <2>1, LeastNatural, Zenon
<1>3. PICK d \in D : d[1] = s /\ d[2] = f
  OBVIOUS
<1>4. ASSUME NEW e \in D
      PROVE  LessEq(d, e)
  <2>1. e[1] \in Nat /\ d[1] \in Nat /\ d[1] <= e[1]
    BY <1>1, <1>3, Zenon
  <2>2. e[1] = d[1] => d[2] <= e[2]
    BY <1>2, <1>3, Zenon
  <2> QED
    BY <2>1, <2>2, Zenon DEF LessEq
<1> QED
  BY <1>4, Zenon

\* TimeoutQueue::next_deadline, the first key of the map, is no later than any.
LEMMA NextDeadlineIsFirst ==
    ASSUME DOMAIN queue \subseteq Nat \X Nat, DOMAIN queue # {}
    PROVE  /\ NextDeadline \in DOMAIN queue
           /\ \A e \in DOMAIN queue : LessEq(NextDeadline, e)
<1>1. \E d \in DOMAIN queue : \A e \in DOMAIN queue : LessEq(d, e)
  BY FirstExists, Zenon
<1> QED
  BY <1>1, Zenon DEF NextDeadline

\* A time in units is its seconds and its fraction, as current_time has them.
LEMMA Clock ==
    ASSUME NEW n \in Nat
    PROVE  /\ n \div Second \in Nat /\ n % Second \in 0..(Second - 1)
           /\ n = (n \div Second) * Second + (n % Second)
BY TimeoutAssumption

\* The deadline of TimeoutQueue::append, normalised or not, is the time it
\* stands for, and its fraction is less than two seconds.
LEMMA DeadlineIsTime ==
    ASSUME now \in Nat, NEW delay \in Nat
    PROVE  /\ Deadline(delay) \in Nat \X Nat
           /\ Deadline(delay)[2] <= 2 * Second - 2
           /\ Deadline(delay)[1] * Second + Deadline(delay)[2] = now + delay
<1> DEFINE a == now \div Second  b == now % Second  x == delay \div Second  y == delay % Second
<1>1. a \in Nat /\ b \in 0..(Second - 1) /\ now = a * Second + b
  BY Clock, Zenon
<1>2. x \in Nat /\ y \in 0..(Second - 1) /\ delay = x * Second + y
  BY Clock, Zenon
<1>3. Deadline(delay) = <<a + x, b + y>>
  BY Zenon DEF Deadline, CurrentTime
<1> HIDE DEF a, b, x, y
<1>4. Second \in Nat
  BY TimeoutAssumption, Zenon
<1>5. (a + x) * Second = a * Second + x * Second
  BY <1>1, <1>2, <1>4
<1> QED
  BY <1>1, <1>2, <1>3, <1>4, <1>5

\* When operator<= puts a deadline before the current time, it is less than a
\* second ahead: a second that is smaller makes up for all of the fraction but
\* what exceeds a second.
LEMMA ReadyIsWithinASecond ==
    ASSUME now \in Nat, NEW d \in Nat \X Nat, d[2] <= 2 * Second - 2, LessEq(d, CurrentTime)
    PROVE  now + Second > d[1] * Second + d[2]
<1> DEFINE a == now \div Second  b == now % Second
<1>1. a \in Nat /\ b \in 0..(Second - 1) /\ now = a * Second + b
  BY Clock, Zenon
<1>2. d[1] \in Nat /\ d[2] \in Nat /\ (d[1] = a => d[2] <= b) /\ d[1] <= a
  <2>1. LessEq(d, <<a, b>>)
    BY Zenon DEF CurrentTime
  <2> HIDE DEF a, b
  <2> QED
    BY <1>1, <2>1 DEF LessEq
<1> HIDE DEF a, b
<1>3. Second \in Nat \ {0}
  BY TimeoutAssumption, Zenon
<1>4. CASE d[1] = a
  BY <1>1, <1>2, <1>3, <1>4
<1>5. CASE d[1] < a
  <2>1. PICK k \in Nat : a = d[1] + 1 + k
    <3>1. a - d[1] - 1 \in Nat /\ a = d[1] + 1 + (a - d[1] - 1)
      BY <1>1, <1>2, <1>5
    <3> QED
      BY <3>1, Zenon
  <2>2. a * Second = d[1] * Second + Second + k * Second
    BY <1>2, <1>3, <2>1
  <2>3. k * Second \in Nat /\ d[1] * Second \in Nat
    BY <1>2, <1>3
  <2> QED
    BY <1>1, <1>2, <1>3, <2>2, <2>3
<1> QED
  BY <1>1, <1>2, <1>4, <1>5

\* The invariant holds when the thread starts.
LEMMA InitInv == Init => TimeoutIInv
BY TimeoutAssumption
   DEF Init, TimeoutIInv, QueueSound, TimersSound, WorkerSound, NoTimeoutMissed, WithinASecond

\* A step that leaves the queue and the timeouts alone keeps the invariant if it
\* keeps what it says of the thread.
LEMMA QuietInv ==
    ASSUME TimeoutIInv, UNCHANGED timers, now' \in Nat, WorkerSound'
    PROVE  TimeoutIInv'
BY Zenon DEF TimeoutIInv, QueueSound, TimersSound, WithinASecond, timers

\* TimeoutThread::timeout up to submit: the timeout is new, so it is in no other
\* queue, and the thread is about to be told.
LEMMA SetInv ==
    ASSUME TimeoutIInv, NEW t \in Timer, NEW delay \in Delay, Timeout(t, delay)
    PROVE  TimeoutIInv'
<1> DEFINE d == Deadline(delay)
<1>1. /\ now \in Nat /\ now' = now /\ ~submitting /\ submitting' /\ due[t] = Never
      /\ queue' = [e \in DOMAIN queue \cup {d} |->
                   (IF e \in DOMAIN queue THEN queue[e] ELSE {}) \cup (IF e = d THEN {t} ELSE {})]
      /\ due' = [due EXCEPT ![t] = now + delay]
      /\ cancelled' = cancelled /\ fired' = fired
      /\ UNCHANGED <<pending, stop, main, until, signalled>>
  BY Zenon DEF Timeout, TimeoutIInv, TimersSound, worker
<1>2. d \in Nat \X Nat /\ d[2] <= 2 * Second - 2 /\ d[1] * Second + d[2] = now + delay
  BY <1>1, DeadlineIsTime, TimeoutAssumption, Zenon
<1>3. delay \in Nat /\ now + delay \in Nat /\ Never \notin Nat
  BY <1>1, TimeoutAssumption
<1> HIDE DEF d
<1>4. /\ DOMAIN queue' = DOMAIN queue \cup {d}
      /\ \A e \in DOMAIN queue' : \A s :
           s \in queue'[e] <=> (e \in DOMAIN queue /\ s \in queue[e]) \/ (e = d /\ s = t)
  BY <1>1, Zenon
<1>5. ASSUME NEW e \in DOMAIN queue, t \in queue[e]
      PROVE  FALSE
  <2>1. e[1] \in Nat /\ e[2] \in Nat /\ due[t] = e[1] * Second + e[2]
    BY <1>5, Zenon DEF TimeoutIInv, QueueSound
  <2>2. e[1] * Second + e[2] \in Nat
    BY <2>1, TimeoutAssumption
  <2> QED
    BY <1>1, <1>3, <2>1, <2>2, Zenon
<1>6. fired[t] = Never /\ t \notin cancelled
  BY <1>1, Zenon DEF TimeoutIInv, TimersSound
<1>7. /\ due' \in [Timer -> Nat \cup {Never}] /\ due'[t] = now + delay
      /\ \A s \in Timer : s # t => due'[s] = due[s]
  BY <1>1, <1>3, Zenon DEF TimeoutIInv, TimersSound
<1>8. QueueSound'
  <2>1. /\ DOMAIN queue' \subseteq Nat \X Nat
        /\ \A e \in DOMAIN queue' : e[2] <= 2 * Second - 2 /\ queue'[e] \subseteq Timer
    BY <1>2, <1>4, Zenon DEF TimeoutIInv, QueueSound
  <2>2. ASSUME NEW e \in DOMAIN queue', NEW s \in queue'[e]
        PROVE  /\ due'[s] = e[1] * Second + e[2] /\ fired'[s] = Never /\ s \notin cancelled'
               /\ \A f \in DOMAIN queue' : s \in queue'[f] => f = e
    <3>1. CASE s = t
      <4>1. e = d
        BY <1>4, <1>5, <2>2, <3>1, Zenon
      <4>2. \A f \in DOMAIN queue' : s \in queue'[f] => f = e
        BY <1>4, <1>5, <3>1, <4>1, Zenon
      <4> QED
        BY <1>1, <1>2, <1>6, <1>7, <3>1, <4>1, <4>2, Zenon
    <3>2. CASE s # t
      <4>1. e \in DOMAIN queue /\ s \in queue[e]
        BY <1>4, <2>2, <3>2, Zenon
      <4>2. s \in Timer /\ due'[s] = due[s]
        BY <1>7, <3>2, <4>1, Zenon DEF TimeoutIInv, QueueSound
      <4>3. /\ due[s] = e[1] * Second + e[2] /\ fired[s] = Never /\ s \notin cancelled
            /\ \A f \in DOMAIN queue : s \in queue[f] => f = e
        BY <4>1, Zenon DEF TimeoutIInv, QueueSound
      <4>4. \A f \in DOMAIN queue' : s \in queue'[f] => f = e
        BY <1>4, <3>2, <4>3, Zenon
      <4> QED
        BY <1>1, <4>2, <4>3, <4>4, Zenon
    <3> QED
      BY <3>1, <3>2, Zenon
  <2> QED
    BY <2>1, <2>2, Zenon DEF QueueSound
<1>9. TimersSound'
  BY <1>1, <1>3, <1>4, <1>6, <1>7, Zenon DEF TimeoutIInv, TimersSound
<1>10. WorkerSound'
  BY <1>1, Zenon DEF TimeoutIInv, WorkerSound, NoTimeoutMissed
<1>11. WithinASecond'
  BY <1>1, <1>6, <1>7, Zenon DEF TimeoutIInv, WithinASecond
<1> QED
  BY <1>8, <1>9, <1>10, <1>11, Zenon DEF TimeoutIInv

\* The cancelled timeout leaves the one queue it was in.
LEMMA CancelInv ==
    ASSUME TimeoutIInv, NEW t \in Timer, Cancel(t)
    PROVE  TimeoutIInv'
<1>1. /\ due[t] # Never /\ fired[t] = Never
      /\ queue' = [d \in DOMAIN queue |-> queue[d] \ {t}]
      /\ cancelled' = cancelled \cup {t}
      /\ UNCHANGED <<now, due, fired, submitting, pending, stop, main, until, signalled>>
  BY Zenon DEF Cancel, worker
<1>2. DOMAIN queue' = DOMAIN queue /\ \A d \in DOMAIN queue : queue'[d] = queue[d] \ {t}
  BY <1>1, Zenon
<1>3. QueueSound'
  BY <1>1, <1>2 DEF TimeoutIInv, QueueSound
<1>4. TimersSound'
  BY <1>1, <1>2, Zenon DEF TimeoutIInv, TimersSound
<1>5. WorkerSound'
  BY <1>1, <1>2, Zenon DEF TimeoutIInv, WorkerSound, NoTimeoutMissed
<1>6. WithinASecond'
  BY <1>1, Zenon DEF TimeoutIInv, WithinASecond
<1> QED
  BY <1>3, <1>4, <1>5, <1>6, Zenon DEF TimeoutIInv

\* TimeoutQueue::perform: what was in the first queue has been scheduled, and in
\* no other queue.
LEMMA PerformInv ==
    ASSUME TimeoutIInv, Perform
    PROVE  TimeoutIInv'
<1>1. /\ main = "perform" /\ main' \in {"top", "perform"}
      /\ UNCHANGED <<now, due, cancelled, submitting, pending, stop, until, signalled>>
  BY Zenon DEF Perform
<1>2. WorkerSound'
  BY <1>1, Zenon DEF WorkerSound, NoTimeoutMissed
<1>3. CASE ~Ready
  <2>1. UNCHANGED timers
    BY <1>3, Zenon DEF Perform, timers
  <2> QED
    BY <1>1, <1>2, <2>1, QuietInv, Zenon DEF TimeoutIInv, TimersSound
<1>4. CASE Ready
  <2> DEFINE n == NextDeadline
  <2>1. /\ queue' = [d \in DOMAIN queue \ {n} |-> queue[d]]
        /\ fired' = [t \in Timer |-> IF t \in queue[n] THEN now ELSE fired[t]]
    BY <1>4, Zenon DEF Perform
  <2>2. n \in DOMAIN queue /\ LessEq(n, CurrentTime)
    BY <1>4, NextDeadlineIsFirst, Zenon DEF Ready, TimeoutIInv, QueueSound
  <2> HIDE DEF n
  <2>3. /\ now \in Nat /\ Never \notin Nat
        /\ DOMAIN queue' = DOMAIN queue \ {n}
        /\ \A d \in DOMAIN queue' : queue'[d] = queue[d]
        /\ \A t \in Timer : fired'[t] = IF t \in queue[n] THEN now ELSE fired[t]
    BY <2>1, TimeoutAssumption, Zenon DEF TimeoutIInv, TimersSound
  <2>4. \A t \in queue[n] : /\ t \in Timer /\ due[t] = n[1] * Second + n[2] /\ fired[t] = Never
                            /\ t \notin cancelled
                            /\ \A d \in DOMAIN queue' : t \notin queue'[d]
    BY <2>2, <2>3, Zenon DEF TimeoutIInv, QueueSound
  <2>5. now + Second > n[1] * Second + n[2]
    BY <2>2, <2>3, ReadyIsWithinASecond, Zenon DEF TimeoutIInv, QueueSound
  <2>6. QueueSound'
    BY <1>1, <2>3, <2>4, Zenon DEF TimeoutIInv, QueueSound
  <2>7. TimersSound'
    <3>1. fired' \in [Timer -> Nat \cup {Never}]
      BY <2>1, <2>3, Zenon DEF TimeoutIInv, TimersSound
    <3>2. ASSUME NEW t \in queue[n]
          PROVE  t \in Timer /\ due[t] # Never /\ fired'[t] # Never /\ t \notin cancelled
      <4>1. n[1] \in Nat /\ n[2] \in Nat /\ Second \in Nat
        BY <2>2, TimeoutAssumption, Zenon DEF TimeoutIInv, QueueSound
      <4>2. n[1] * Second + n[2] \in Nat
        BY <4>1
      <4> QED
        BY <2>3, <2>4, <4>2, Zenon
    <3>3. \A t \in Timer \ queue[n] :
            (\E d \in DOMAIN queue : t \in queue[d]) => \E d \in DOMAIN queue' : t \in queue'[d]
      BY <2>3, Zenon
    <3> QED
      BY <1>1, <2>3, <3>1, <3>2, <3>3, Zenon DEF TimeoutIInv, TimersSound
  <2>8. WithinASecond'
    BY <1>1, <2>3, <2>4, <2>5, Zenon DEF TimeoutIInv, WithinASecond
  <2> QED
    BY <1>2, <2>6, <2>7, <2>8, Zenon DEF TimeoutIInv
<1> QED
  BY <1>3, <1>4, Zenon

\* The head of the loop: the thread sleeps only when the queue is empty, and
\* otherwise until the first deadline.
LEMMA LoopInv ==
    ASSUME TimeoutIInv, Loop
    PROVE  TimeoutIInv'
<1>1. now' = now /\ UNCHANGED timers /\ stop' = stop /\ ~stop
  BY Zenon DEF Loop
<1>2. CASE pending
  BY <1>1, <1>2, QuietInv, Zenon DEF Loop, TimeoutIInv, TimersSound, WorkerSound, NoTimeoutMissed
<1>3. CASE ~pending /\ Empty
  <2>1. main' = "sleep" /\ pending' = pending /\ queue' = queue
    BY <1>1, <1>3, Zenon DEF Loop, timers
  <2>2. WorkerSound'
    BY <1>1, <1>3, <2>1, Zenon DEF WorkerSound, NoTimeoutMissed, Empty
  <2> QED
    BY <1>1, <2>2, QuietInv, Zenon DEF TimeoutIInv, TimersSound
<1>4. CASE ~pending /\ ~Empty
  <2>1. main' = "timed" /\ pending' = pending /\ queue' = queue /\ until' = NextDeadline
    BY <1>1, <1>4, Zenon DEF Loop, timers
  <2>2. \A d \in DOMAIN queue : LessEq(NextDeadline, d)
    BY <1>4, NextDeadlineIsFirst, Zenon DEF Empty, TimeoutIInv, QueueSound
  <2>3. \A d \in DOMAIN queue' : LessEq(until', d)
    BY <2>1, <2>2, Zenon
  <2>4. WorkerSound'
    BY <1>1, <1>4, <2>1, <2>3, Zenon DEF WorkerSound, NoTimeoutMissed
  <2> QED
    BY <1>1, <2>4, QuietInv, Zenon DEF TimeoutIInv, TimersSound
<1> QED
  BY <1>2, <1>3, <1>4, Zenon

\* Every step keeps the invariant.
LEMMA StepInv == TimeoutIInv /\ [Next]_vars => TimeoutIInv'
<1> SUFFICES ASSUME TimeoutIInv, [Next]_vars
             PROVE  TimeoutIInv'
  OBVIOUS
<1>1. now \in Nat
  BY Zenon DEF TimeoutIInv, TimersSound
<1>2. CASE Tick
  <2>1. now' \in Nat /\ UNCHANGED <<timers, worker>>
    BY <1>1, <1>2 DEF Tick
  <2>2. WorkerSound'
    BY <2>1, Zenon DEF TimeoutIInv, WorkerSound, NoTimeoutMissed, timers, worker
  <2> QED
    BY <2>1, <2>2, QuietInv, Zenon
<1>3. CASE Submit
  <2>1. /\ now' = now /\ submitting' = FALSE
        /\ signalled' = (signalled \/ (~pending /\ main \in {"sleep", "timed"}))
        /\ UNCHANGED <<queue, due, cancelled, fired, stop, main>>
    BY <1>3, Zenon DEF Submit
  <2>2. WorkerSound'
    BY <2>1, Zenon DEF TimeoutIInv, WorkerSound, NoTimeoutMissed
  <2> QED
    BY <1>1, <2>1, <2>2, Zenon DEF TimeoutIInv, QueueSound, TimersSound, WithinASecond
<1>4. CASE Stop
  <2>1. WorkerSound'
    BY <1>4, Zenon DEF Stop, TimeoutIInv, WorkerSound, NoTimeoutMissed, timers
  <2> QED
    BY <1>1, <1>4, <2>1, QuietInv, Zenon DEF Stop
<1>5. CASE Loop
  BY <1>5, LoopInv, Zenon
<1>6. CASE Exit \/ Work
  <2>1. now' = now /\ UNCHANGED timers /\ main' \in {"exited", "top", "perform"}
    BY <1>6, Zenon DEF Exit, Work
  <2>2. WorkerSound'
    BY <2>1, Zenon DEF WorkerSound, NoTimeoutMissed
  <2> QED
    BY <1>1, <2>1, <2>2, QuietInv, Zenon
<1>7. CASE Perform
  BY <1>7, PerformInv, Zenon
<1>8. CASE Wake \/ WakeSpurious
  <2>1. now' = now /\ UNCHANGED timers /\ main' = "top"
    BY <1>8, Zenon DEF Wake, WakeSpurious, WakeUp
  <2>2. WorkerSound'
    BY <2>1, Zenon DEF WorkerSound, NoTimeoutMissed
  <2> QED
    BY <1>1, <2>1, <2>2, QuietInv, Zenon
<1>9. CASE \E t \in Timer : Cancel(t)
  BY <1>9, CancelInv, Zenon
<1>10. CASE \E t \in Timer : \E delay \in Delay : Timeout(t, delay)
  BY <1>10, SetInv, Zenon
<1>11. CASE UNCHANGED vars
  <2>1. UNCHANGED <<now, timers, worker>>
    BY <1>11, Zenon DEF vars
  <2>2. WorkerSound'
    BY <2>1, Zenon DEF TimeoutIInv, WorkerSound, NoTimeoutMissed, timers, worker
  <2> QED
    BY <1>1, <2>1, <2>2, QuietInv, Zenon
<1> QED
  BY <1>2, <1>3, <1>4, <1>5, <1>6, <1>7, <1>8, <1>9, <1>10, <1>11, Zenon DEF Next, Main

\* The inductive invariant of TimeoutThread and TimeoutQueue holds, for any set of
\* timeouts and any delays.
THEOREM TimeoutsSound == Spec => []TimeoutIInv
BY InitInv, StepInv, PTL DEF Spec

\* By the invariant a timeout is in exactly one place.
LEMMA InQueueOnce == TimeoutIInv => TimeoutInQueue
<1> SUFFICES ASSUME TimeoutIInv, NEW t \in Timer, due[t] # Never
             PROVE  Cardinality({d \in DOMAIN queue : t \in queue[d]})
                      + (IF fired[t] # Never THEN 1 ELSE 0) + (IF t \in cancelled THEN 1 ELSE 0) = 1
  BY Zenon DEF TimeoutInQueue
<1> DEFINE P == {d \in DOMAIN queue : t \in queue[d]}
<1>1. CASE P = {}
  <2>1. Cardinality(P) = 0
    BY <1>1, FS_EmptySet, Zenon
  <2>2. fired[t] # Never <=> t \notin cancelled
    BY <1>1, Zenon DEF TimeoutIInv, TimersSound
  <2> QED
    BY <2>1, <2>2
<1>2. ASSUME NEW d \in P
      PROVE  Cardinality(P) = 1 /\ fired[t] = Never /\ t \notin cancelled
  <2>1. P = {d} /\ fired[t] = Never /\ t \notin cancelled
    BY <1>2 DEF TimeoutIInv, QueueSound
  <2> QED
    BY <2>1, FS_Singleton, Zenon
<1> QED
  BY <1>1, <1>2
-----------------------------------------------------------------------------
\* A thread that waits without having been signalled, in WorkerThread::main, has
\* nothing to do, and waits for no timeout but the first.
THEOREM NothingIsSleptThrough == Spec => []NoTimeoutMissed
BY TimeoutsSound, PTL DEF TimeoutIInv, WorkerSound

\* No callback is scheduled a second or more before its time, although
\* TimeoutQueue::append does not normalise its deadlines.
THEOREM NotASecondEarly == Spec => []WithinASecond
BY TimeoutsSound, PTL DEF TimeoutIInv

\* A timeout that was set is in one queue of the map, once, or its callback was
\* scheduled, or it was cancelled.
THEOREM TimeoutsInOnePlace == Spec => []TimeoutInQueue
BY TimeoutsSound, InQueueOnce, PTL
-----------------------------------------------------------------------------
(***************************************************************************)
(* diskdup copies what it has passed and leaves alone what it has not, for *)
(* volumes of any length with any blocks, whatever the order in which the  *)
(* volumes answer and whatever fails.                                      *)
(***************************************************************************)

\* What a volume may be, as far as diskdup knows: whole blocks, which are not empty.
VolumesOK == Volumes \subseteq Seq(Block) /\ None \notin Block

\* The constructor reads block 0 of two open volumes.
LEMMA DupInitInv ==
    ASSUME VolumesOK, DupInit
    PROVE  DiskDupInv
<1>1. /\ original \in [Side -> Seq(Block)] /\ volume = original
      /\ volume \in [Side -> Seq(Block \cup {Torn})]
  BY DEF DupInit, VolumesOK
<1>2. \A s \in Side : Len(volume[s]) \in Nat
  BY <1>1
<1>3. QED
  BY <1>1, <1>2 DEF DupInit, DiskDupInv, DiskDupTypeOK, DiskDupAsserts, BlocksAreCopied, Side, Both

\* What of the invariant is about the volumes, and how far the program is.
Facts ==
    /\ volume["source"] = original["source"]
    /\ Len(volume["source"]) \in Nat /\ Len(volume["target"]) \in Nat
    /\ Len(original["source"]) = Len(volume["source"])
    /\ Len(original["target"]) = Len(volume["target"])
    /\ block \in Nat /\ block <= Len(volume["source"]) /\ block <= Len(volume["target"])

\* They follow from it.
LEMMA InvFacts ==
    ASSUME DiskDupInv
    PROVE  Facts
BY DEF Facts, DiskDupInv, BlocksAreCopied, Side

\* When a volume answers with EOS or an error, both are closed.
LEMMA CloseInv ==
    ASSUME DiskDupInv, NEW s \in Side, handle[s] = "open", ScheduleClose(s),
           UNCHANGED <<original, volume, written, bad>>,
           failed' \/ (~failed /\ block = Len(original[s]))
    PROVE  DiskDupInv'
<1>1. Facts
  BY InvFacts, Zenon
<1>2. BlocksAreCopied'
  BY <1>1, Zenon DEF Facts, DiskDupInv, BlocksAreCopied, ScheduleClose, Side, Both
<1>3. DiskDupTypeOK' /\ DiskDupAsserts'
  BY <1>1, Zenon DEF Facts, DiskDupInv, DiskDupTypeOK, DiskDupAsserts, ScheduleClose, Side, Both
<1>4. QED
  BY <1>1, <1>2, <1>3, Zenon DEF Facts, DiskDupInv, ScheduleClose, Side, Both

\* A block that has been read is the original one.
LEMMA ReadIsOriginal ==
    ASSUME DiskDupInv, NEW s \in Side, handle[s] = "open", block < Len(volume[s])
    PROVE  volume[s][block + 1] = original[s][block + 1] /\ volume[s][block + 1] \in Block
<1>1. Facts
  BY InvFacts, Zenon
<1>2. ~failed
  BY Zenon DEF DiskDupInv
<1>3. block + 1 \in 1..Len(volume[s]) /\ Len(original[s]) = Len(volume[s])
  BY <1>1 DEF Facts, Side
<1>4. volume[s][block + 1] = original[s][block + 1]
  BY <1>1, <1>2, <1>3, Zenon DEF Facts, DiskDupInv, BlocksAreCopied, Side
<1>5. original[s] \in Seq(Block)
  BY Zenon DEF DiskDupInv
<1>6. QED
  BY <1>3, <1>4, <1>5, ElementOfSeq, Zenon

\* A block that was read is kept until the other volume has answered; then the next
\* is read if they are the same, and the source's is written if not.
LEMMA ReadDoneInv ==
    ASSUME VolumesOK, DiskDupInv, NEW s \in Side, ReadDone(s)
    PROVE  DiskDupInv'
<1> DEFINE data == volume[s][block + 1]
           read == [buffer EXCEPT ![s] = data]
<1>1. Facts
  BY InvFacts, Zenon
<1>2. handle[s] = "open" /\ handle[Other(s)] = "open" /\ action[s] = "read"
      /\ block < Len(volume[s])
  BY Zenon DEF DiskDupInv, DiskDupAsserts, ReadDone, Side, Other
<1>3. data = original[s][block + 1] /\ data \in Block /\ data # None
  BY <1>2, ReadIsOriginal, Zenon DEF VolumesOK
<1>4. buffer \in [Side -> Block \cup {None}] /\ Other(s) \in Side /\ Other(s) # s
  BY Zenon DEF DiskDupInv, Side, Other
<1>5. read[s] = data /\ read[Other(s)] = buffer[Other(s)] /\ read \in [Side -> Block \cup {None}]
  BY <1>3, <1>4, Zenon
<1>6. UNCHANGED <<original, volume, handle, failed>>
  BY Zenon DEF ReadDone
<1>7. CASE read[Other(s)] = None
  <2>1. /\ buffer' = read /\ action' = [action EXCEPT ![s] = "none"]
        /\ UNCHANGED <<block, written, bad>>
    BY <1>7, Zenon DEF ReadDone
  <2>2. BlocksAreCopied'
    BY <1>6, <2>1, Zenon DEF DiskDupInv, BlocksAreCopied
  <2>3. DiskDupTypeOK' /\ DiskDupAsserts'
    BY <1>2, <1>3, <1>5, <1>6, <1>7, <2>1, Zenon
    DEF DiskDupInv, DiskDupTypeOK, DiskDupAsserts, Side, Other
  <2>4. QED
    BY <1>1, <1>2, <1>3, <1>5, <1>6, <1>7, <2>1, <2>2, <2>3, Zenon
    DEF DiskDupInv, DiskDupTypeOK, Side, Other
<1>8. ASSUME read[Other(s)] # None
      PROVE  /\ action[Other(s)] = "none"
             /\ block < Len(volume["source"]) /\ block < Len(volume["target"])
             /\ read["source"] = original["source"][block + 1]
             /\ read["target"] = original["target"][block + 1]
             /\ volume["target"][block + 1] = original["target"][block + 1]
  <2>1. /\ action[Other(s)] # "read" /\ action[Other(s)] # "close" /\ action[Other(s)] # "write"
        /\ block < Len(volume[Other(s)]) /\ buffer[Other(s)] = volume[Other(s)][block + 1]
    BY <1>2, <1>4, <1>5, <1>8, Zenon DEF DiskDupInv, DiskDupAsserts, Side, Other
  <2>2. action[Other(s)] = "none"
    BY <1>4, <2>1, Zenon DEF DiskDupInv, DiskDupTypeOK
  <2>3. volume[Other(s)][block + 1] = original[Other(s)][block + 1]
    BY <1>2, <1>4, <2>1, ReadIsOriginal, Zenon
  <2>4. QED
    BY <1>2, <1>3, <1>5, <2>1, <2>2, <2>3, Zenon DEF Side, Other
<1>9. CASE read[Other(s)] # None /\ read["source"] = read["target"]
  <2>1. ScheduleRead(block + 1, read) /\ UNCHANGED <<written, bad>>
    BY <1>8, <1>9, Zenon DEF ReadDone, Check
  <2>2. BlocksAreCopied'
    BY <1>1, <1>2, <1>6, <1>8, <1>9, <2>1
    DEF DiskDupInv, Facts, BlocksAreCopied, ScheduleRead, Side
  <2>3. DiskDupTypeOK' /\ DiskDupAsserts'
    BY <1>1, <1>2, <1>6, <1>8, <1>9, <2>1
    DEF DiskDupInv, Facts, DiskDupTypeOK, DiskDupAsserts, ScheduleRead, Side, Both, Other
  <2>4. QED
    BY <1>1, <1>2, <1>6, <1>8, <1>9, <2>1, <2>2, <2>3
    DEF DiskDupInv, Facts, ScheduleRead, Side, Both, Other
<1>10. CASE read[Other(s)] # None /\ read["source"] # read["target"]
  <2>1. ScheduleWrite(read) /\ UNCHANGED bad
    BY <1>8, <1>10, Zenon DEF ReadDone, Check
  <2>2. BlocksAreCopied'
    BY <1>6, <2>1, Zenon DEF DiskDupInv, BlocksAreCopied, ScheduleWrite
  <2>3. DiskDupTypeOK' /\ DiskDupAsserts'
    BY <1>1, <1>2, <1>5, <1>6, <1>8, <1>10, <2>1
    DEF DiskDupInv, Facts, DiskDupTypeOK, DiskDupAsserts, ScheduleWrite, Side, Other
  <2>4. QED
    BY <1>1, <1>2, <1>5, <1>6, <1>8, <1>10, <2>1, <2>2, <2>3
    DEF DiskDupInv, Facts, ScheduleWrite, Side, Other
<1>11. QED
  BY <1>7, <1>9, <1>10, Zenon

\* What a write, done or failed, may have made of the target's block.
LEMMA BlockWritten ==
    ASSUME DiskDupInv, action["target"] = "write", NEW b \in Block \cup {Torn},
           volume' = [volume EXCEPT !["target"][block + 1] = b]
    PROVE  /\ volume' \in [Side -> Seq(Block \cup {Torn})]
           /\ volume'["source"] = volume["source"]
           /\ Len(volume'["target"]) = Len(volume["target"])
           /\ \A i \in 1..Len(volume["target"]) :
                volume'["target"][i] = IF i = block + 1 THEN b ELSE volume["target"][i]
<1> DEFINE t == volume["target"]
           u == [t EXCEPT ![block + 1] = b]
<1>1. t \in Seq(Block \cup {Torn}) /\ Len(t) \in Nat /\ volume \in [Side -> Seq(Block \cup {Torn})]
  BY DEF DiskDupInv, Side
<1>2. block + 1 \in 1..Len(t)
  BY <1>1 DEF DiskDupInv
<1>3. /\ u \in Seq(Block \cup {Torn}) /\ Len(u) = Len(t)
      /\ \A i \in 1..Len(t) : u[i] = IF i = block + 1 THEN b ELSE t[i]
  BY <1>1, <1>2, ExceptSeq
<1>4. volume' = [volume EXCEPT !["target"] = u]
  OBVIOUS
<1> HIDE DEF u
<1>5. volume'["target"] = u /\ volume'["source"] = volume["source"]
      /\ volume' \in [Side -> Seq(Block \cup {Torn})]
  BY <1>1, <1>3, <1>4, Zenon DEF Side
<1>6. QED
  BY <1>3, <1>5, Zenon

\* A block that was written is the source's.
LEMMA WriteDoneInv ==
    ASSUME VolumesOK, DiskDupInv, WriteDone
    PROVE  DiskDupInv'
<1>1. Facts
  BY InvFacts, Zenon
<1>2. /\ action["target"] = "write" /\ action["source"] = "none"
      /\ written = original["source"][block + 1]
      /\ block < Len(volume["source"]) /\ block < Len(volume["target"])
      /\ handle["source"] = "open" /\ handle["target"] = "open" /\ ~failed
  BY Zenon DEF WriteDone, DiskDupInv, DiskDupAsserts, Side
<1>3. written \in Block /\ written # None
  BY <1>1, <1>2, ReadIsOriginal, Zenon DEF Facts, Side, VolumesOK
<1>4. UNCHANGED <<original, handle, failed>> /\ ScheduleRead(block + 1, buffer)
  BY Zenon DEF WriteDone
<1>5. UNCHANGED bad
  BY <1>2, <1>3, Zenon DEF WriteDone, Check
<1>6. /\ volume' \in [Side -> Seq(Block \cup {Torn})]
      /\ volume'["source"] = volume["source"]
      /\ Len(volume'["target"]) = Len(volume["target"])
      /\ \A i \in 1..Len(volume["target"]) :
           volume'["target"][i] = IF i = block + 1 THEN written ELSE volume["target"][i]
  <2>1. PICK b \in Block \cup {Torn} :
          b = written /\ volume' = [volume EXCEPT !["target"][block + 1] = b]
    BY <1>3, Zenon DEF WriteDone
  <2>2. action["target"] = "write"
    BY <1>2, Zenon
  <2>3. QED
    BY <2>1, <2>2, BlockWritten, Zenon
<1>7. BlocksAreCopied'
  BY <1>1, <1>2, <1>4, <1>6 DEF DiskDupInv, Facts, BlocksAreCopied, ScheduleRead, Side
<1>8. DiskDupTypeOK' /\ DiskDupAsserts'
  BY <1>1, <1>2, <1>4, <1>5, <1>6
  DEF DiskDupInv, Facts, DiskDupTypeOK, DiskDupAsserts, ScheduleRead, Side, Both
<1>9. QED
  BY <1>1, <1>2, <1>4, <1>6, <1>7, <1>8 DEF DiskDupInv, Facts, ScheduleRead, Side, Both

\* A write that fails spoils no block but its own, and is the last.
LEMMA WriteFailsInv ==
    ASSUME VolumesOK, DiskDupInv, WriteFails
    PROVE  DiskDupInv'
<1>1. Facts
  BY InvFacts, Zenon
<1>2. /\ action["target"] = "write" /\ action["source"] = "none"
      /\ written = original["source"][block + 1]
      /\ block < Len(volume["source"]) /\ block < Len(volume["target"])
      /\ handle["source"] = "open" /\ handle["target"] = "open" /\ ~failed
  BY Zenon DEF WriteFails, DiskDupInv, DiskDupAsserts, Side
<1>3. written \in Block /\ volume["target"][block + 1] \in Block
  BY <1>1, <1>2, ReadIsOriginal, Zenon DEF Facts, Side
<1>4. PICK b \in Block \cup {Torn} : volume' = [volume EXCEPT !["target"][block + 1] = b]
  BY <1>3, Zenon DEF WriteFails
<1>5. UNCHANGED <<original, written, bad>> /\ ScheduleClose("target") /\ failed' = TRUE
  BY <1>2, Zenon DEF WriteFails, Check
<1>6. /\ volume' \in [Side -> Seq(Block \cup {Torn})]
      /\ volume'["source"] = volume["source"]
      /\ Len(volume'["target"]) = Len(volume["target"])
      /\ \A i \in 1..Len(volume["target"]) :
           volume'["target"][i] = IF i = block + 1 THEN b ELSE volume["target"][i]
  BY <1>2, <1>4, BlockWritten, Zenon
<1>7. BlocksAreCopied'
  BY <1>1, <1>2, <1>5, <1>6 DEF DiskDupInv, Facts, BlocksAreCopied, ScheduleClose, Side, Both
<1>8. DiskDupTypeOK' /\ DiskDupAsserts'
  BY <1>1, <1>2, <1>5, <1>6, Zenon
  DEF DiskDupInv, Facts, DiskDupTypeOK, DiskDupAsserts, ScheduleClose, Side, Both
<1>9. QED
  BY <1>1, <1>2, <1>5, <1>6, <1>7, <1>8, Zenon DEF DiskDupInv, Facts, ScheduleClose, Side, Both

\* Every step of diskdup keeps its invariant.
LEMMA NextInv ==
    ASSUME VolumesOK, DiskDupInv, [DupNext]_dupVars
    PROVE  DiskDupInv'
<1>1. ASSUME NEW s \in Side, ReadEnds(s)
      PROVE  DiskDupInv'
  <2>1. Facts /\ handle[s] = "open" /\ ~failed
    BY <1>1, InvFacts, Zenon DEF ReadEnds, DiskDupInv, DiskDupAsserts
  <2>2. block = Len(original[s])
    BY <1>1, <2>1 DEF ReadEnds, Facts, Side
  <2>3. QED
    BY <1>1, <2>1, <2>2, CloseInv, Zenon DEF ReadEnds
<1>2. ASSUME NEW s \in Side, ReadFails(s)
      PROVE  DiskDupInv'
  <2>1. handle[s] = "open"
    BY <1>2, Zenon DEF ReadFails, DiskDupInv, DiskDupAsserts
  <2>2. QED
    BY <1>2, <2>1, CloseInv, Zenon DEF ReadFails
<1>3. ASSUME NEW s \in Side, CloseComplete(s)
      PROVE  DiskDupInv'
  <2>1. Facts /\ handle["source"] # "open" /\ handle["target"] # "open"
    BY <1>3, InvFacts, Zenon DEF CloseComplete, DiskDupInv, Side
  <2>2. BlocksAreCopied'
    BY <1>3, <2>1, Zenon DEF CloseComplete, DiskDupInv, BlocksAreCopied, Side
  <2>3. DiskDupTypeOK' /\ DiskDupAsserts'
    BY <1>3, <2>1, Zenon DEF CloseComplete, DiskDupInv, DiskDupTypeOK, DiskDupAsserts, Side
  <2>4. QED
    BY <1>3, <2>1, <2>2, <2>3, Zenon DEF CloseComplete, DiskDupInv, DiskDupTypeOK, Side
<1>4. CASE UNCHANGED dupVars
  BY <1>4, Zenon DEF dupVars, DiskDupInv, DiskDupTypeOK, DiskDupAsserts, BlocksAreCopied
<1>5. QED
  BY <1>1, <1>2, <1>3, <1>4, ReadDoneInv, WriteDoneInv, WriteFailsInv, Zenon DEF DupNext, Answers

\* read_complete, write_complete and schedule_close, in any order of the two volumes'
\* answers: the blocks passed are copied, the others untouched, and the copy is
\* complete if nothing failed.
THEOREM CopyIsFaithful ==
    ASSUME VolumesOK
    PROVE  DupFairSpec => [](BlocksAreCopied /\ DiskDupAsserts)
<1>1. DupInit => DiskDupInv
  BY DupInitInv, Zenon
<1>2. DiskDupInv /\ [DupNext]_dupVars => DiskDupInv'
  BY NextInv, Zenon
<1>3. DiskDupInv => BlocksAreCopied /\ DiskDupAsserts
  BY Zenon DEF DiskDupInv
<1>4. QED
  BY <1>1, <1>2, <1>3, PTL DEF DupFairSpec
=============================================================================
