-------------------------- MODULE ThreadOnceProofs --------------------------
(***************************************************************************)
(* Proofs about ThreadOnce, for every set of callers, both implementations *)
(* of atomic_increase, and routines that throw or do not.                  *)
(***************************************************************************)
EXTENDS ThreadOnce, TLAPS

(* Who is between its choice and the end of its call.                      *)
Chosen(c) == pc[c] \in {"run", "mark"}

Failed == /\ runs = 1 /\ outcome = "failed" /\ ~done
          /\ \A c \in Callers : ~Chosen(c)

(* Before the first increment nobody is testing or was chosen.             *)
Untouched == started = -1 => /\ runs = 0
                             /\ \A c \in Callers : pc[c] # "test"

(* Who tests while the counter still shows zero is the only one testing,   *)
(* and nobody was chosen before.                                           *)
FirstTest == started = 0 =>
  \A c \in Callers : pc[c] = "test" =>
    /\ runs = 0
    /\ \A d \in Callers \ {c} : pc[d] # "test"

OneChosen == /\ \A c, d \in Callers : Chosen(c) /\ Chosen(d) => c = d
             /\ \A c \in Callers : Chosen(c) => runs = 1 /\ ~done
             /\ \A c \in Callers : pc[c] = "run" => outcome = "none"

History == /\ outcome = "built" => runs = 1
           /\ runs = 0 => outcome = "none"
           /\ done => outcome = "built"
           /\ outcome = "failed" => Failed
           /\ \A c \in Callers : pc[c] = "mark" => outcome = "built"
           /\ \A c \in Callers : pc[c] = "returned" => done
           /\ \A c \in Callers : pc[c] = "threw" => Failed

IInv == /\ TypeOK /\ AtMostOneRun
        /\ Untouched /\ FirstTest /\ OneChosen /\ History

(* Nobody has incremented, and the routine has not run. *)
LEMMA Initial == Init => IInv
<1>. SUFFICES ASSUME Init PROVE IInv
  OBVIOUS
<1>1. TypeOK
  BY DEF Init, TypeOK, Locations, Builds
<1>2. \A c \in Callers : pc[c] = "idle"
  BY DEF Init
<1>. QED
  BY <1>1, <1>2 DEF Init, IInv, AtMostOneRun, Untouched, FirstTest, OneChosen,
                    Chosen, History, Failed

(* Whoever sees zero is the first to be chosen.                            *)
LEMMA Choice ==
  ASSUME IInv, NEW c \in Callers, NEW from \in {"start", "test"},
         Decide(c, from, 0), started' = 0,
         from = "start" => started = -1, from = "test" => started = 0
  PROVE  IInv'
<1>1. runs = 0
  BY DEF IInv, Untouched, FirstTest, Decide, Goto
<1>2. /\ \A d \in Callers \ {c} : pc[d] # "test"
      /\ \A d \in Callers : pc[d] # "threw" /\ ~Chosen(d)
      /\ outcome = "none" /\ ~done
  BY <1>1 DEF IInv, Untouched, FirstTest, OneChosen, History, Failed, Decide, Goto
<1>. QED
  BY <1>1, <1>2 DEF IInv, TypeOK, AtMostOneRun, Untouched, FirstTest, OneChosen,
     Chosen, History, Failed, Decide, Goto, Locations, Builds

(* Every step of run() keeps the invariant, in either build. *)
LEMMA Inductive == IInv /\ [Next]_vars => IInv'
<1>. SUFFICES ASSUME IInv, [Next]_vars PROVE IInv'
  OBVIOUS
<1>. USE DEF TypeOK, AtMostOneRun, Untouched, FirstTest, OneChosen, Chosen,
             History, Failed, Goto, Locations
<1>1. ASSUME NEW c \in Callers, CallRun(c) PROVE IInv'
  BY <1>1 DEF CallRun, IInv
<1>2. ASSUME NEW c \in Callers, Check(c) PROVE IInv'
  BY <1>2 DEF Check, IInv
<1>3. ASSUME NEW c \in Callers, InterlockedIncrease(c) PROVE IInv'
  <2>1. CASE started = -1
    BY <1>3, <2>1, Choice DEF InterlockedIncrease
  <2>2. CASE started # -1
    BY <1>3, <2>2 DEF InterlockedIncrease, Decide, IInv
  <2>. QED  BY <2>1, <2>2
<1>4. ASSUME NEW c \in Callers, ExchangeAndAdd(c) PROVE IInv'
  BY <1>4 DEF ExchangeAndAdd, IInv
<1>5. ASSUME NEW c \in Callers, ExchangeAndTest(c) PROVE IInv'
  <2>1. CASE started = 0
    BY <1>5, <2>1, Choice DEF ExchangeAndTest
  <2>2. CASE started # 0
    BY <1>5, <2>2 DEF ExchangeAndTest, Decide, IInv
  <2>. QED  BY <2>1, <2>2
<1>6. ASSUME NEW c \in Callers, RoutineReturns(c) PROVE IInv'
  BY <1>6 DEF RoutineReturns, IInv
<1>7. ASSUME NEW c \in Callers, RoutineThrows(c) PROVE IInv'
  BY <1>7 DEF RoutineThrows, IInv
<1>8. ASSUME NEW c \in Callers, Mark(c) PROVE IInv'
  BY <1>8 DEF Mark, IInv
<1>9. ASSUME NEW c \in Callers, Wait(c) PROVE IInv'
  BY <1>9 DEF Wait, IInv
<1>10. ASSUME UNCHANGED vars PROVE IInv'
  BY <1>10 DEF vars, IInv
<1>. QED
  BY <1>1, <1>2, <1>3, <1>4, <1>5, <1>6, <1>7, <1>8, <1>9, <1>10 DEF Next, Step

(* Every variable keeps its type.                                          *)
THEOREM TypeCorrect == Spec => []TypeOK
BY Initial, Inductive, PTL DEF Spec, IInv

(* The routine is entered at most once.                                    *)
THEOREM RunsOnce == Spec => []AtMostOneRun
BY Initial, Inductive, PTL DEF Spec, IInv

(* No run() returns before the routine has run to its end.                 *)
THEOREM WaitsForConstruction == Spec => []ReturnedMeansBuilt
<1>1. IInv => ReturnedMeansBuilt
  BY DEF IInv, History, ReturnedMeansBuilt
<1>. QED  BY <1>1, Initial, Inductive, PTL DEF Spec

(* A failure stays: nobody is left who could set done.                     *)
LEMMA FailureStays == IInv /\ Failed /\ [Next]_vars => Failed'
BY DEF IInv, AtMostOneRun, Untouched, FirstTest, TypeOK, OneChosen, History, Failed,
       Chosen, Next, Step, CallRun, Check, InterlockedIncrease, ExchangeAndAdd,
       ExchangeAndTest, Decide, RoutineReturns, RoutineThrows, Mark, Wait, Goto, vars

(* Once a routine has thrown out of run(), no call ever returns.           *)
THEOREM FailureForEver == Spec => FailureIsFinal
<1>. DEFINE Threw == \E c \in Callers : pc[c] = "threw"
            Stuck == \A c \in Callers : pc[c] # "returned"
<1>1. IInv /\ Threw => Failed
  BY DEF IInv, History
<1>2. IInv /\ Failed => Stuck
  BY DEF IInv, History, Failed
<1>. HIDE DEF Threw, Stuck
<1>3. Spec => [](Threw => []Stuck)
  BY <1>1, <1>2, Initial, Inductive, FailureStays, PTL DEF Spec
<1>. QED  BY <1>3 DEF FailureIsFinal, Threw, Stuck

-----------------------------------------------------------------------------
(* The control that Abstract sees.                                         *)
Mapped == [c \in {"once"} |-> Control]

(* A move of the control is a step of the abstract specification.          *)
LEMMA Move ==
  ASSUME NEW from, NEW to, Control = from, Control' = to,
         \/ from = to
         \/ from = "untouched" /\ to = "running"
         \/ from = "running" /\ to = "done"
         \/ from = "running" /\ to = "failed"
  PROVE  [Abstract!Next]_Mapped
<1>1. /\ Mapped["once"] = from
      /\ Mapped' = [Mapped EXCEPT !["once"] = to]
  BY DEF Mapped
<1>. QED
  BY <1>1 DEF Mapped, Abstract!Next, Abstract!Enter, Abstract!Finish,
              Abstract!Fail, Abstract!Goto

(* Every step moves the control forward or leaves it alone.                *)
LEMMA Simulation == IInv /\ [Next]_vars => [Abstract!Next]_Mapped
<1>. SUFFICES ASSUME IInv, [Next]_vars PROVE [Abstract!Next]_Mapped
  OBVIOUS
<1>. USE DEF Goto, Control
<1>1. ASSUME NEW c \in Callers, CallRun(c) \/ Check(c) \/ ExchangeAndAdd(c) \/ Wait(c)
      PROVE  Control' = Control
  BY <1>1 DEF CallRun, Check, ExchangeAndAdd, Wait
<1>2. ASSUME NEW c \in Callers, NEW from \in {"start", "test"}, NEW value,
             Decide(c, from, value)
      PROVE  [Abstract!Next]_Mapped
  <2>1. CASE runs = 0
    <3>1. Control = "untouched"
      BY <2>1 DEF IInv, History
    <3>2. Control' \in {"untouched", "running"}
      BY <1>2, <2>1 DEF Decide, IInv, History
    <3>. QED  BY <3>1, <3>2, Move
  <2>2. CASE runs # 0
    <3>1. Control' = Control
      BY <1>2, <2>2 DEF Decide, IInv, TypeOK
    <3>. QED  BY <3>1, Move
  <2>. QED  BY <2>1, <2>2
<1>3. ASSUME NEW c \in Callers, RoutineReturns(c) PROVE Control' = Control
  BY <1>3 DEF RoutineReturns, IInv, OneChosen, Chosen
<1>4. ASSUME NEW c \in Callers, RoutineThrows(c)
      PROVE  Control = "running" /\ Control' = "failed"
  BY <1>4 DEF RoutineThrows, IInv, OneChosen, Chosen
<1>5. ASSUME NEW c \in Callers, Mark(c)
      PROVE  Control = "running" /\ Control' = "done"
  BY <1>5 DEF Mark, IInv, OneChosen, Chosen, History
<1>6. ASSUME UNCHANGED vars PROVE Control' = Control
  BY <1>6 DEF vars
<1>. QED
  BY <1>1, <1>2, <1>3, <1>4, <1>5, <1>6, Move
     DEF Next, Step, InterlockedIncrease, ExchangeAndTest

(* thread_once implements the abstract once control.                       *)
THEOREM Refinement == Spec => ImplementsOnce
<1>1. Init => Abstract!Init
  BY DEF Init, Abstract!Init, Control
<1>2. IInv /\ [Next]_vars => [Abstract!Next]_Mapped
  BY Simulation
<1>. QED
  BY <1>1, <1>2, Initial, Inductive, PTL DEF Spec, ImplementsOnce, Abstract!Spec, Mapped
=============================================================================
