----------------------------- MODULE ThreadOnce -----------------------------
(***************************************************************************)
(* k2::thread_once (k2/thread_once.h, thread_once::run_impl in             *)
(* source/threading.cpp): many threads call run(), one of them invokes the *)
(* routine and the others wait until it is done.  k2::singleton constructs *)
(* its instance this way.                                                  *)
(*                                                                         *)
(* build is the implementation of atomic_increase, as in SpinLock.         *)
(***************************************************************************)
EXTENDS Integers

CONSTANT Callers

VARIABLES
  build,      \* the implementation of atomic_increase, fixed when compiled
  started,    \* thread_once::started, -1 from K2_THREAD_ONCE_INIT
  done,       \* thread_once::done
  pc,         \* pc[c]: where caller c is in run_impl()
  runs,       \* history: how many times the routine was entered
  outcome     \* history: what has become of the routine

vars == <<build, started, done, pc, runs, outcome>>

(***************************************************************************)
(*   idle   outside                 check  about to read done              *)
(*   start  about to increment      test   incremented, result not read    *)
(*   run    inside the routine      mark   routine over, done not set yet  *)
(*   wait   in the yield loop       returned / threw   the call is over    *)
(***************************************************************************)
Builds == {"interlocked", "split"}

Locations ==
  {"idle", "check", "start", "test", "run", "mark", "wait", "returned", "threw"}

Goto(c, from, to) == /\ pc[c] = from
                     /\ pc' = [pc EXCEPT ![c] = to]

-----------------------------------------------------------------------------
Init == /\ build \in Builds
        /\ started = -1
        /\ done = FALSE
        /\ pc = [c \in Callers |-> "idle"]
        /\ runs = 0
        /\ outcome = "none"

(* run() may be called at any time, and again by who has called it before. *)
CallRun(c) == /\ pc[c] \in {"idle", "returned", "threw"}
              /\ pc' = [pc EXCEPT ![c] = "check"]
              /\ UNCHANGED <<build, started, done, runs, outcome>>

(* The unsynchronised test of done.                                        *)
Check(c) == /\ Goto(c, "check", IF done THEN "returned" ELSE "start")
            /\ UNCHANGED <<build, started, done, runs, outcome>>

(* Mutant: done is set as soon as the caller is chosen.                    *)
DecideAndMark(c, from, value) ==
  /\ Goto(c, from, IF value = 0 THEN "run" ELSE "wait")
  /\ runs' = IF value = 0 THEN runs + 1 ELSE runs
  /\ done' = (done \/ value = 0)
  /\ UNCHANGED <<build, outcome>>

(* The verdict of atomic_increase on the value it tested.                  *)
Decide(c, from, value) ==
  /\ Goto(c, from, IF value = 0 THEN "run" ELSE "wait")
  /\ runs' = IF value = 0 THEN runs + 1 ELSE runs
  /\ UNCHANGED <<build, done, outcome>>

InterlockedIncrease(c) == /\ build = "interlocked"
                          /\ started' = started + 1
                          /\ Decide(c, "start", started')

(* Mutant: the addition is not atomic, and may overwrite another's.        *)
AddLosingOther(c) == /\ build = "split"
                     /\ Goto(c, "start", "test")
                     /\ started' \in {0, started + 1}
                     /\ UNCHANGED <<build, done, runs, outcome>>

ExchangeAndAdd(c) == /\ build = "split"
                     /\ Goto(c, "start", "test")
                     /\ started' = started + 1
                     /\ UNCHANGED <<build, done, runs, outcome>>

ExchangeAndTest(c) == /\ Decide(c, "test", started)
                      /\ UNCHANGED started

(* once_routine(arg) returns ...                                           *)
RoutineReturns(c) == /\ Goto(c, "run", "mark")
                     /\ outcome' = "built"
                     /\ UNCHANGED <<build, started, done, runs>>

(* ... or throws, and the exception leaves run_impl(): done stays false.   *)
RoutineThrows(c) == /\ Goto(c, "run", "threw")
                    /\ outcome' = "failed"
                    /\ UNCHANGED <<build, started, done, runs>>

(* Mutant: done is never set.                                              *)
MarkForgotten(c) == /\ Goto(c, "mark", "returned")
                    /\ UNCHANGED <<build, started, done, runs, outcome>>

Mark(c) == /\ Goto(c, "mark", "returned")
           /\ done' = TRUE
           /\ UNCHANGED <<build, started, runs, outcome>>

(* while (done == false) os_sched_yield();                                 *)
Wait(c) == /\ Goto(c, "wait", IF done THEN "returned" ELSE "wait")
           /\ UNCHANGED <<build, started, done, runs, outcome>>

Step(c) == \/ Check(c)
           \/ InterlockedIncrease(c)
           \/ ExchangeAndAdd(c)
           \/ ExchangeAndTest(c)
           \/ RoutineReturns(c)
           \/ RoutineThrows(c)
           \/ Mark(c)
           \/ Wait(c)

Next == \E c \in Callers : CallRun(c) \/ Step(c)

Spec == Init /\ [][Next]_vars

(***************************************************************************)
(* A caller inside run() keeps being scheduled, os_sched_yield() included, *)
(* and the routine ends; nobody has to call run().                         *)
(***************************************************************************)
FairSpec == Spec /\ \A c \in Callers : WF_vars(Step(c))

-----------------------------------------------------------------------------
TypeOK == /\ build \in Builds
          /\ started \in Nat \cup {-1}
          /\ done \in BOOLEAN
          /\ outcome \in {"none", "built", "failed"}
          /\ pc \in [Callers -> Locations]
          /\ runs \in Nat

(* The routine is entered at most once, whatever the callers' increments   *)
(* and tests do in between, and also after it has thrown.                  *)
AtMostOneRun == runs <= 1

(* "Follow-up references wait for full construction": no call of run()     *)
(* returns before the routine has run to its end, in whichever thread.     *)
ReturnedMeansBuilt ==
  (\E c \in Callers : pc[c] = "returned") => outcome = "built"

(* An exception is final: once it has left run(), no call ever returns,    *)
(* those that are waiting and those yet to come spin for ever.             *)
FailureIsFinal ==
  []((\E c \in Callers : pc[c] = "threw")
       => [](\A c \in Callers : pc[c] # "returned"))

(* With the interlocked atomics every call returns, the chosen caller's    *)
(* after the routine and the others' when they see done, unless the        *)
(* routine throws.                                                         *)
EveryCallReturns ==
  \A c \in Callers :
    pc[c] = "check" /\ build = "interlocked"
      ~> pc[c] = "returned" \/ outcome = "failed"

(* thread_once.h: the routine "is executed exactly once", so a call of     *)
(* run() leads to an execution of it.                                      *)
SomebodyRuns == \A c \in Callers : pc[c] = "check" ~> runs = 1

-----------------------------------------------------------------------------
(* The state of the one control that the callers share.                    *)
Control == IF done THEN "done"
           ELSE IF outcome = "failed" THEN "failed"
           ELSE IF runs = 0 THEN "untouched" ELSE "running"

(* thread_once implements the abstract control: it goes from untouched to  *)
(* running to done or failed, and never back, whoever moves it.            *)
Abstract == INSTANCE Once
  WITH Controls <- {"once"}, state <- [c \in {"once"} |-> Control]
ImplementsOnce == Abstract!Spec
=============================================================================
