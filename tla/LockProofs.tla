----------------------------- MODULE LockProofs -----------------------------
(***************************************************************************)
(* The spin lock and the mutex of libk2 are locks, and the timed calls of  *)
(* the mutex fail only for cause.                                          *)
(*                                                                         *)
(* The spin lock, for every finite set of threads and both implementations *)
(* of the atomics: the inductive invariant is that the counter counts the  *)
(* threads whose increment is in it.  A thread that sees zero is then the  *)
(* only one counted, and so the only owner.                                *)
(*                                                                         *)
(* The mutex, for any set of threads: TimedTruthful is not inductive, as   *)
(* that acquire(timer) has a reason to give up is decided when it finds    *)
(* the mutex busy, one step before it asks the timer.  Polled says so, and *)
(* that another thread that takes the mutex is noted for all those that    *)
(* try.                                                                    *)
(***************************************************************************)
EXTENDS SpinLock, Mutex, FiniteSetTheorems, TLAPS

-----------------------------------------------------------------------------
(* spin_lock. *)

IInv == TypeOK /\ CounterExact /\ MutualExclusion

In == {"test", "undo", "held"}

(* Entering the counted locations adds one to their number ...             *)
LEMMA Joining ==
  ASSUME TypeOK, NEW t \in Threads, NEW to \in In, pc[t] \notin In,
         pc' = [pc EXCEPT ![t] = to]
  PROVE  Cardinality(Counted') = Cardinality(Counted) + 1
<1>1. /\ Counted' = Counted \cup {t}
      /\ t \notin Counted
  BY DEF Counted, TypeOK, In
<1>2. IsFiniteSet(Counted)
  BY ThreadsAssumption, FS_Subset DEF Counted
<1>. QED  BY <1>1, <1>2, FS_AddElement

(* ... leaving them takes one away ...                                     *)
LEMMA Leaving ==
  ASSUME TypeOK, NEW t \in Threads, NEW to \in Locations \ In, pc[t] \in In,
         pc' = [pc EXCEPT ![t] = to]
  PROVE  /\ Cardinality(Counted') = Cardinality(Counted) - 1
         /\ Cardinality(Counted') \in Nat
<1>1. /\ Counted' = Counted \ {t}
      /\ t \in Counted
  BY DEF Counted, TypeOK, In, Locations
<1>2. IsFiniteSet(Counted)
  BY ThreadsAssumption, FS_Subset DEF Counted
<1>. QED  BY <1>1, <1>2, FS_RemoveElement, FS_CardinalityType

(* ... and moving among them, or among the others, does not change it.     *)
LEMMA Staying ==
  ASSUME TypeOK, NEW t \in Threads, NEW to \in Locations,
         pc[t] \in In <=> to \in In, pc' = [pc EXCEPT ![t] = to]
  PROVE  Counted' = Counted
BY DEF Counted, TypeOK, In

(* The number of counted threads is a natural number, zero only if there   *)
(* is none and one only if there is one.                                   *)
LEMMA Counting ==
  /\ Cardinality(Counted) \in Nat
  /\ Cardinality(Counted) = 0 => Counted = {}
  /\ \A t \in Counted : Cardinality(Counted) = 1 => Counted = {t}
<1>1. IsFiniteSet(Counted)
  BY ThreadsAssumption, FS_Subset DEF Counted
<1>2. ASSUME NEW t \in Counted, Cardinality(Counted) = 1
      PROVE  Counted = {t}
  BY <1>1, <1>2, FS_Singleton
<1>. QED  BY <1>1, <1>2, FS_CardinalityType, FS_EmptySet

(* The counter is -1 and nobody is counted. *)
LEMMA Initial == Init => IInv
<1>. SUFFICES ASSUME Init PROVE IInv
  OBVIOUS
<1>1. Counted = {}
  BY DEF Init, Counted
<1>2. Cardinality(Counted) = 0
  BY <1>1, FS_EmptySet
<1>. QED
  BY <1>2 DEF Init, IInv, TypeOK, CounterExact, MutualExclusion, Locations, Timers,
                Builds

(* Every step of the spin lock keeps the invariant, in either build. *)
LEMMA Inductive == IInv /\ [Next]_vars => IInv'
<1>. SUFFICES ASSUME IInv, [Next]_vars PROVE IInv'
  OBVIOUS
<1>. USE DEF IInv
<1>c. Cardinality(Counted) \in Nat
  BY Counting
<1>1. ASSUME NEW t \in Threads, CallAcquire(t) PROVE IInv'
  <2>1. Counted' = Counted
    BY <1>1, Staying DEF CallAcquire, Goto, Locations, In
  <2>. QED
    BY <1>1, <2>1 DEF CallAcquire, Goto, TypeOK, CounterExact, MutualExclusion,
                      Locations, Timers
<1>2. ASSUME NEW t \in Threads, InterlockedIncrease(t) PROVE IInv'
  <2>1. m_counter' = m_counter + 1 /\ TypeOK'
    BY <1>2 DEF InterlockedIncrease, Goto, TypeOK, Locations
  <2>2. Cardinality(Counted') = Cardinality(Counted) + 1
    BY <1>2, Joining DEF InterlockedIncrease, Goto, In
  <2>3. m_counter' = 0 => Counted = {}
    BY <2>1, <1>c, Counting DEF CounterExact, TypeOK
  <2>4. MutualExclusion'
    BY <1>2, <2>1, <2>3
       DEF InterlockedIncrease, Goto, TypeOK, MutualExclusion, Counted
  <2>. QED  BY <2>1, <2>2, <2>4, <1>c DEF CounterExact, TypeOK
<1>3. ASSUME NEW t \in Threads, ExchangeAndAdd(t) PROVE IInv'
  <2>1. Cardinality(Counted') = Cardinality(Counted) + 1
    BY <1>3, Joining DEF ExchangeAndAdd, Goto, In
  <2>. QED
    BY <1>3, <2>1, <1>c DEF ExchangeAndAdd, Goto, TypeOK, CounterExact,
                            MutualExclusion, Locations
<1>4. ASSUME NEW t \in Threads, ExchangeAndTest(t) PROVE IInv'
  <2>1. Counted' = Counted
    BY <1>4, Staying DEF ExchangeAndTest, Goto, Locations, In
  <2>2. t \in Counted
    BY <1>4 DEF ExchangeAndTest, Goto, Counted
  <2>3. m_counter = 0 => Counted = {t}
    BY <2>2, <1>c, Counting DEF CounterExact, TypeOK
  <2>4. MutualExclusion'
    BY <1>4, <2>3 DEF ExchangeAndTest, Goto, TypeOK, MutualExclusion, Counted
  <2>. QED
    BY <1>4, <2>1, <2>4 DEF ExchangeAndTest, Goto, TypeOK, CounterExact, Locations
<1>5. ASSUME NEW t \in Threads, TakeBack(t) \/ Release(t) PROVE IInv'
  <2>1. /\ m_counter' = m_counter - 1
        /\ pc[t] \in In
        /\ \E to \in Locations \ In : pc' = [pc EXCEPT ![t] = to]
        /\ UNCHANGED <<build, timer>>
    BY <1>5 DEF TakeBack, Release, Goto, Locations, In
  <2>2. /\ Cardinality(Counted') = Cardinality(Counted) - 1
        /\ Cardinality(Counted') \in Nat
    BY <2>1, Leaving
  <2>. QED
    BY <2>1, <2>2, <1>c DEF TypeOK, CounterExact, MutualExclusion, Locations, In
<1>6. ASSUME NEW t \in Threads, PollTimer(t) PROVE IInv'
  <2>1. Counted' = Counted
    BY <1>6, Staying DEF PollTimer, Goto, Locations, In
  <2>. QED
    BY <1>6, <2>1 DEF PollTimer, Goto, TypeOK, CounterExact, MutualExclusion, Locations
<1>7. ASSUME NEW t \in Threads, Expire(t) PROVE IInv'
  BY <1>7 DEF Expire, TypeOK, CounterExact, MutualExclusion, Counted, Timers
<1>8. ASSUME UNCHANGED vars PROVE IInv'
  BY <1>8 DEF vars, TypeOK, CounterExact, MutualExclusion, Counted
<1>. QED  BY <1>1, <1>2, <1>3, <1>4, <1>5, <1>6, <1>7, <1>8 DEF Next, Step

(* Every variable keeps its type.                                          *)
THEOREM TypeCorrect == Spec => []TypeOK
BY Initial, Inductive, PTL DEF Spec, IInv

(* A lost race or an expired timer leaves nothing in m_counter.            *)
THEOREM CounterIsExact == Spec => []CounterExact
BY Initial, Inductive, PTL DEF Spec, IInv

(* acquire() gives the lock to one thread at a time.                       *)
THEOREM Exclusion == Spec => []MutualExclusion
BY Initial, Inductive, PTL DEF Spec, IInv

Holders == {t \in Threads : pc[t] = "held"}

(* Each step of the spin lock is an Acquire, a Release or a stutter of the *)
(* abstract lock.                                                          *)
LEMMA StepRefines ==
  ASSUME IInv, IInv', [Next]_vars
  PROVE  [Abstract!Next]_Holders
<1>. USE DEF IInv, TypeOK, Holders
<1>1. ASSUME NEW t \in Threads, pc[t] # "held", pc' = [pc EXCEPT ![t] = "held"]
      PROVE  Abstract!Acquire(t)
  <2>1. Holders' = {t}
    BY <1>1 DEF MutualExclusion
  <2>2. Holders = {}
    BY <1>1 DEF MutualExclusion
  <2>. QED  BY <2>1, <2>2 DEF Abstract!Acquire
<1>2. ASSUME NEW t \in Threads, Release(t) PROVE Abstract!Release(t)
  BY <1>2 DEF Release, Goto, MutualExclusion, Abstract!Release
<1>3. ASSUME NEW t \in Threads, pc[t] # "held",
             NEW to, to # "held", pc' = [pc EXCEPT ![t] = to]
      PROVE  UNCHANGED Holders
  BY <1>3
<1>4. ASSUME NEW t \in Threads, CallAcquire(t) \/ Step(t)
      PROVE  Abstract!Acquire(t) \/ UNCHANGED Holders
  BY <1>1, <1>3, <1>4 DEF CallAcquire, Step, InterlockedIncrease, ExchangeAndAdd,
                          ExchangeAndTest, TakeBack, PollTimer, Goto
<1>5. ASSUME NEW t \in Threads, Expire(t) PROVE UNCHANGED Holders
  BY <1>5 DEF Expire
<1>6. ASSUME UNCHANGED vars PROVE UNCHANGED Holders
  BY <1>6 DEF vars
<1>. QED  BY <1>2, <1>4, <1>5, <1>6 DEF Next, Abstract!Next

(* The spin lock implements the abstract lock.                             *)
THEOREM Refinement == Spec => ImplementsLock
<1>1. Init => Abstract!Init
  BY DEF Init, Abstract!Init
<1>2. IInv /\ IInv' /\ [Next]_vars => [Abstract!Next]_Holders
  BY StepRefines
<1>. QED
  BY <1>1, <1>2, Initial, Inductive, PTL
     DEF Spec, ImplementsLock, Abstract!Spec, Holders

-----------------------------------------------------------------------------
(* mutex. *)

Exclusive ==
  \A t, u \in MutexThreads : mutexPc[t] = "in" /\ mutexPc[u] = "in" => t = u

Polled ==
  \A t \in MutexThreads :
    /\ mutexPc[t] = "busy" => contended[t]
    /\ mutexPc[t] = "try" /\ MutexOwners # {} => contended[t]

MutexInv == MutexTypeOK /\ Exclusive /\ Polled /\ TimedTruthful

-----------------------------------------------------------------------------

(* The mutex is free and nobody is in a call. *)
LEMMA MutexInitial == MutexInit => MutexInv
BY DEF MutexInit, MutexInv, MutexTypeOK, Exclusive, Polled, TimedTruthful,
       MutexLocations, Deadlines

(* Whatever pthread gives the mutex to has it alone, and whoever tries      *)
(* meanwhile is told.                                                       *)
LEMMA Taking ==
  ASSUME MutexInv, NEW t \in MutexThreads,
         NEW from \in {"lock", "try", "relock"}, Takes(t, from),
         result' \in [MutexThreads -> {"nothing", "true", "false"}],
         \A u \in MutexThreads : result'[u] # result[u] => u = t,
         result'[t] \in {result[t], "true"}
  PROVE  MutexInv'
<1>. USE DEF MutexInv
<1>1. /\ mutexPc' = [mutexPc EXCEPT ![t] = "in"]
      /\ mutexPc[t] = from /\ MutexOwners = {} /\ UNCHANGED deadline
      /\ contended' = [u \in MutexThreads |->
                         contended[u] \/ (u # t /\ u \in Trying)]
  BY DEF Takes, Moves
<1>2. MutexTypeOK'
  BY <1>1 DEF MutexTypeOK, MutexLocations
<1>3. Exclusive'
  BY <1>1 DEF MutexTypeOK, MutexOwners, Exclusive
<1>4. Polled'
  BY <1>1 DEF MutexTypeOK, Trying, Polled
<1>5. TimedTruthful'
  BY <1>1 DEF MutexTypeOK, TimedTruthful
<1>. QED  BY <1>2, <1>3, <1>4, <1>5

(* Every step of the mutex and its condition variable keeps the invariant. *)
LEMMA MutexInductive == MutexInv /\ [MutexNext]_mutexVars => MutexInv'
<1>. SUFFICES ASSUME MutexInv, [MutexNext]_mutexVars PROVE MutexInv'
  OBVIOUS
<1>. USE DEF MutexInv, MutexTypeOK, Exclusive, Polled, TimedTruthful,
             MutexLocations, Deadlines, MutexOwners, Moves
<1>1. ASSUME NEW t \in MutexThreads, CallMutexAcquire(t) PROVE MutexInv'
  BY <1>1 DEF CallMutexAcquire
<1>2. ASSUME NEW t \in MutexThreads, CallMutexTimed(t) PROVE MutexInv'
  <2>1. MutexTypeOK' /\ Exclusive'
    BY <1>2 DEF CallMutexTimed
  <2>2. MutexOwners' = MutexOwners
    BY <1>2 DEF CallMutexTimed
  <2>3. Polled'
    BY <1>2, <2>2 DEF CallMutexTimed
  <2>4. TimedTruthful'
    BY <1>2 DEF CallMutexTimed
  <2>. QED  BY <2>1, <2>3, <2>4
<1>3. ASSUME NEW t \in MutexThreads, MutexRelease(t) PROVE MutexInv'
  BY <1>3 DEF MutexRelease
<1>4. ASSUME NEW t \in MutexThreads, LockMutex(t) PROVE MutexInv'
  BY <1>4, Taking DEF LockMutex
<1>5. ASSUME NEW t \in MutexThreads, TryLock(t) PROVE MutexInv'
  <2>1. /\ result' \in [MutexThreads -> {"nothing", "true", "false"}]
        /\ \A u \in MutexThreads : result'[u] # result[u] => u = t
        /\ result'[t] \in {result[t], "true"}
    BY <1>5 DEF TryLock, Returns
  <2>. QED  BY <1>5, <2>1, Taking DEF TryLock
<1>6. ASSUME NEW t \in MutexThreads, Relock(t) PROVE MutexInv'
  BY <1>6, Taking DEF Relock
<1>7. ASSUME NEW t \in MutexThreads, TryBusy(t) PROVE MutexInv'
  BY <1>7 DEF TryBusy
<1>8. ASSUME NEW t \in MutexThreads, AskTimer(t) PROVE MutexInv'
  <2>1. CASE deadline[t] = "expired"
    BY <1>8, <2>1 DEF AskTimer, Returns
  <2>2. CASE deadline[t] # "expired"
    BY <1>8, <2>2 DEF AskTimer
  <2>. QED  BY <2>1, <2>2
<1>9. ASSUME NEW t \in MutexThreads, CondWaits(t) PROVE MutexInv'
  BY <1>9 DEF CondWaits, CondWait, CondWaitTimed
<1>10. ASSUME NEW t \in MutexThreads, CondSignal(t) PROVE MutexInv'
  BY <1>10 DEF CondSignal, Waiters, Returns
<1>11. ASSUME NEW t \in MutexThreads, CondBroadcast(t) PROVE MutexInv'
  BY <1>11 DEF CondBroadcast, Waiters
<1>12. ASSUME NEW t \in MutexThreads, CondSpurious(t) \/ CondTimesOut(t)
       PROVE MutexInv'
  BY <1>12 DEF CondSpurious, CondTimesOut, Returns
<1>13. ASSUME NEW t \in MutexThreads, MutexExpire(t) PROVE MutexInv'
  BY <1>13 DEF MutexExpire
<1>14. ASSUME UNCHANGED mutexVars PROVE MutexInv'
  BY <1>14 DEF mutexVars
<1>. QED
  BY <1>1, <1>2, <1>3, <1>4, <1>5, <1>6, <1>7, <1>8, <1>9, <1>10, <1>11,
     <1>12, <1>13, <1>14 DEF MutexNext, MutexCalls, MutexStep, CondWakes

(* Every variable keeps its type.                                          *)
THEOREM MutexTypeCorrect == MutexSpec => []MutexTypeOK
BY MutexInitial, MutexInductive, PTL DEF MutexSpec, MutexInv

(* acquire(timer) and wait(timer) return false only when their timer has   *)
(* expired, and the former only if another thread had the mutex.           *)
THEOREM FailsForCause == MutexSpec => []TimedTruthful
BY MutexInitial, MutexInductive, PTL DEF MutexSpec, MutexInv

-----------------------------------------------------------------------------
(* Each step of the mutex is an Acquire, a Release or a stutter of the      *)
(* abstract lock; a wait is a Release and later an Acquire.                 *)
LEMMA MutexStepRefines ==
  ASSUME MutexInv, [MutexNext]_mutexVars
  PROVE  [AbstractMutex!Next]_MutexOwners
<1>. USE DEF MutexInv, MutexTypeOK, MutexOwners, Moves
<1>1. ASSUME NEW t \in MutexThreads, LockMutex(t) \/ TryLock(t) \/ Relock(t)
      PROVE  AbstractMutex!Acquire(t)
  <2>1. MutexOwners = {} /\ mutexPc' = [mutexPc EXCEPT ![t] = "in"]
    BY <1>1 DEF LockMutex, TryLock, Relock, Takes
  <2>2. MutexOwners' = {t}
    BY <2>1
  <2>. QED  BY <2>1, <2>2 DEF AbstractMutex!Acquire
<1>2. ASSUME NEW t \in MutexThreads, MutexRelease(t) \/ CondWaits(t)
      PROVE  AbstractMutex!Release(t)
  <2>1. /\ mutexPc[t] = "in"
        /\ \E to \in {"out", "asleep"} : mutexPc' = [mutexPc EXCEPT ![t] = to]
    BY <1>2 DEF MutexRelease, CondWaits, CondWait, CondWaitTimed
  <2>2. MutexOwners = {t} /\ MutexOwners' = {}
    BY <2>1 DEF Exclusive
  <2>. QED  BY <2>2 DEF AbstractMutex!Release
<1>3. ASSUME NEW t \in MutexThreads, NEW from, from # "in", NEW to, to # "in",
             Moves(t, from, to)
      PROVE  UNCHANGED MutexOwners
  BY <1>3
<1>4. ASSUME NEW t \in MutexThreads,
             CallMutexAcquire(t) \/ CallMutexTimed(t) \/ TryBusy(t)
               \/ AskTimer(t) \/ CondTimesOut(t) \/ CondSpurious(t)
               \/ CondSignal(t)
      PROVE  UNCHANGED MutexOwners
  BY <1>3, <1>4 DEF CallMutexAcquire, CallMutexTimed, TryBusy, AskTimer,
                    CondTimesOut, CondSpurious, CondSignal, Waiters
<1>5. ASSUME NEW t \in MutexThreads, CondBroadcast(t) \/ MutexExpire(t)
      PROVE  UNCHANGED MutexOwners
  BY <1>5 DEF CondBroadcast, MutexExpire, Waiters
<1>6. ASSUME UNCHANGED mutexVars PROVE UNCHANGED MutexOwners
  BY <1>6 DEF mutexVars
<1>. QED
  BY <1>1, <1>2, <1>4, <1>5, <1>6
     DEF MutexNext, MutexCalls, MutexStep, CondWakes, AbstractMutex!Next

(* The mutex implements the abstract lock, with its waits and timers.      *)
THEOREM MutexRefinement == MutexSpec => MutexImplementsLock
<1>1. MutexInit => AbstractMutex!Init
  BY DEF MutexInit, AbstractMutex!Init, MutexOwners
<1>2. MutexInv /\ [MutexNext]_mutexVars => [AbstractMutex!Next]_MutexOwners
  BY MutexStepRefines
<1>. QED
  BY <1>1, <1>2, MutexInitial, MutexInductive, PTL
     DEF MutexSpec, MutexImplementsLock, AbstractMutex!Spec
=============================================================================
