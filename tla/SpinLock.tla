------------------------------ MODULE SpinLock ------------------------------
(***************************************************************************)
(* k2::spin_lock (k2/spin_lock.h) over the two implementations of          *)
(* atomic_increase / atomic_decrease that k2/atomic.h selects between.     *)
(*                                                                         *)
(* The lock is one counter, -1 when free.  acquire() increments it and has *)
(* the lock if the new value is zero; otherwise it takes its increment     *)
(* back and tries again, for ever or until its timer has expired.          *)
(*                                                                         *)
(*   build = "interlocked"  InterlockedIncrement / InterlockedDecrement:   *)
(*                          increment and test are one step.               *)
(*   build = "split"        two __exchange_and_add calls: the increment,   *)
(*                          and a later read that is tested.               *)
(***************************************************************************)
EXTENDS Integers, FiniteSets

CONSTANT Threads

ASSUME ThreadsAssumption == IsFiniteSet(Threads)

VARIABLES
  build,        \* the implementation of the atomics, fixed when compiled
  m_counter,    \* spin_lock::m_counter
  pc,           \* pc[t]: where thread t is in acquire() / release()
  timer         \* timer[t]: the timestamp passed to acquire(), if any

vars == <<build, m_counter, pc, timer>>

(***************************************************************************)
(*   idle   outside          spin   at the head of the while loop          *)
(*   test   incremented, result not read yet ("split" only)                *)
(*   undo   saw a non-zero count, about to take the increment back         *)
(*   poll   about to ask the timer           held   owns the lock          *)
(***************************************************************************)
Builds == {"interlocked", "split"}

Locations == {"idle", "spin", "test", "undo", "poll", "held"}

Timers == {"none", "running", "expired"}

(* Threads whose increment is still in the counter.                        *)
Counted == {t \in Threads : pc[t] \in {"test", "undo", "held"}}

Goto(t, from, to) == /\ pc[t] = from
                     /\ pc' = [pc EXCEPT ![t] = to]

-----------------------------------------------------------------------------
Init == /\ build \in Builds
        /\ m_counter = -1
        /\ pc = [t \in Threads |-> "idle"]
        /\ timer = [t \in Threads |-> "none"]

(* acquire() or acquire(timer) is called; the timer may have expired already. *)
CallAcquire(t) == /\ Goto(t, "idle", "spin")
                  /\ \E tm \in Timers : timer' = [timer EXCEPT ![t] = tm]
                  /\ UNCHANGED <<build, m_counter>>

(* One InterlockedIncrement: the thread tests the value it just stored.    *)
InterlockedIncrease(t) ==
  /\ build = "interlocked"
  /\ m_counter' = m_counter + 1
  /\ Goto(t, "spin", IF m_counter' # 0 THEN "undo" ELSE "held")
  /\ UNCHANGED <<build, timer>>

(* __exchange_and_add(&value, 1): the old value it returns is discarded.   *)
ExchangeAndAdd(t) == /\ build = "split"
                     /\ Goto(t, "spin", "test")
                     /\ m_counter' = m_counter + 1
                     /\ UNCHANGED <<build, timer>>

(* __exchange_and_add(&value, 0): the value tested is the one found now.   *)
ExchangeAndTest(t) ==
  /\ Goto(t, "test", IF m_counter # 0 THEN "undo" ELSE "held")
  /\ UNCHANGED <<build, m_counter, timer>>

(* Mutant: the failed attempt leaves its increment in the counter.         *)
TakeBackForgets(t) ==
  /\ Goto(t, "undo", IF timer[t] = "none" THEN "spin" ELSE "poll")
  /\ UNCHANGED <<build, m_counter, timer>>

(* Mutant: the failed attempt takes back more than it added.               *)
TakeBackTwice(t) ==
  /\ Goto(t, "undo", IF timer[t] = "none" THEN "spin" ELSE "poll")
  /\ m_counter' = m_counter - 2
  /\ UNCHANGED <<build, timer>>

(* The atomic_decrease in the loop body.                                   *)
TakeBack(t) ==
  /\ Goto(t, "undo", IF timer[t] = "none" THEN "spin" ELSE "poll")
  /\ m_counter' = m_counter - 1
  /\ UNCHANGED <<build, timer>>

(* Mutant: the timer's answer is ignored.                                  *)
PollTimerIgnored(t) == /\ Goto(t, "poll", "spin")
                       /\ UNCHANGED <<build, m_counter, timer>>

(* timer.expired(): go round again, or return false.                       *)
PollTimer(t) ==
  /\ Goto(t, "poll", IF timer[t] = "expired" THEN "idle" ELSE "spin")
  /\ UNCHANGED <<build, m_counter, timer>>

Release(t) == /\ Goto(t, "held", "idle")
              /\ m_counter' = m_counter - 1
              /\ UNCHANGED <<build, timer>>

(* The clock passes the timestamp thread t waits for.                      *)
Expire(t) == /\ timer[t] = "running"
             /\ timer' = [timer EXCEPT ![t] = "expired"]
             /\ UNCHANGED <<build, m_counter, pc>>

(* The steps of acquire() once it has been called.                         *)
Step(t) == \/ InterlockedIncrease(t)
           \/ ExchangeAndAdd(t)
           \/ ExchangeAndTest(t)
           \/ TakeBack(t)
           \/ PollTimer(t)

Next == \E t \in Threads : CallAcquire(t) \/ Step(t) \/ Release(t) \/ Expire(t)

Spec == Init /\ [][Next]_vars

(***************************************************************************)
(* A thread inside acquire() keeps being scheduled and time passes; nobody *)
(* has to call acquire(), and a holder does not have to release.           *)
(***************************************************************************)
FairSpec == /\ Spec
            /\ \A t \in Threads : WF_vars(Step(t)) /\ WF_vars(Expire(t))

-----------------------------------------------------------------------------
TypeOK == /\ build \in Builds
          /\ m_counter \in Nat \cup {-1}
          /\ pc \in [Threads -> Locations]
          /\ timer \in [Threads -> Timers]

(* At most one thread owns the lock, with either implementation of the     *)
(* atomics and however many threads are between their increment and their  *)
(* test.                                                                   *)
MutualExclusion ==
  \A t, u \in Threads : pc[t] = "held" /\ pc[u] = "held" => t = u

(* The counter is the number of increments not yet taken back, less one:   *)
(* an acquire() that times out, or loses a race, leaves no trace in it.    *)
CounterExact == m_counter = Cardinality(Counted) - 1

(* acquire(timer) returns, with or without the lock, however the other     *)
(* threads' increments and decrements fall between its own steps.          *)
TimedAcquireReturns ==
  \A t \in Threads :
    (pc[t] # "idle" /\ timer[t] # "none") ~> pc[t] \in {"idle", "held"}

(* The spin lock implements the abstract lock.                             *)
Abstract == INSTANCE Lock WITH holders <- {t \in Threads : pc[t] = "held"}
ImplementsLock == Abstract!Spec
=============================================================================
