----------------------------- MODULE Singleton -----------------------------
(***************************************************************************)
(* k2::singleton (k2/singleton.h): instance() constructs the object on the *)
(* first reference, under a thread_once, and registers its destruction     *)
(* with runtime::atexit.  Constructors and destructors call instance() of  *)
(* other singletons.                                                       *)
(*                                                                         *)
(* thread_once is the abstract control that ThreadOnce implements, and the *)
(* exit is AtExit, with a task per singleton.  The threads but Main have   *)
(* been joined when Main leaves main().                                    *)
(***************************************************************************)
EXTENDS Integers, Sequences, FiniteSets

CONSTANTS
  Threads, Main,
  Singletons,
  Lifetime,   \* Lifetime[s]: the template parameter
  IntMax,     \* the largest value of an int
  UseGraphs,  \* the programs looked at: whose instance() each one calls
  Interlocked,\* the build: atomic_increase() is one operation (atomic.cpp:62)
  Null        \* the null pointer

IntMin == -IntMax - 1

ASSUME ThreadsAssumption    == Main \in Threads
ASSUME SingletonsAssumption == IsFiniteSet(Singletons) /\ Null \notin Singletons
ASSUME LifetimeAssumption   ==
  IntMax \in Nat /\ Lifetime \in [Singletons -> IntMin .. IntMax]
ASSUME BuildAssumption      == Interlocked \in BOOLEAN
ASSUME UsesAssumption == UseGraphs \subseteq [Singletons -> SUBSET Singletons]

VARIABLES
  uses,       \* uses[s]: what the constructor and the destructor of s use
  once,       \* once[s]: the thread_once of s
  object,     \* object[s]: raw memory, alive, or dead
  stack,      \* stack[t]: the calls that thread t is in, the innermost first
  setting, pstack, pnext, heap, phase, local, due, pushed, early, ran,
  dangling, push    \* see AtExit

exitVars == <<setting, pstack, pnext, heap, phase, local, due, pushed, early,
              ran, dangling, push>>
vars == <<uses, once, object, stack, exitVars>>

(* Mutant: the lifetime itself is the priority.                            *)
PrioUnchanged == Lifetime

(* -Lifetime, in an int: the negation of the least int is itself.          *)
Prio == [s \in Singletons |->
           IF Lifetime[s] = IntMin THEN IntMin ELSE -Lifetime[s]]

Settings == [dl : BOOLEAN, nesting : {TRUE}, racing : {FALSE}]

Control == INSTANCE Once WITH Controls <- Singletons, state <- once
AtExit  == INSTANCE AtExit WITH Tasks <- Singletons

(***************************************************************************)
(* A call: of which singleton, where it is, and whose instance() is still  *)
(* to be called there.                                                     *)
(*   call      about to test the control                                   *)
(*   construct in the constructor          destroy   in the destructor     *)
(*   register  constructed, not registered for destruction yet             *)
(*   finish    registered, done not set yet                                *)
(***************************************************************************)
Frame(s, at, left) == [of |-> s, at |-> at, left |-> left]

Frames == [of   : Singletons, left : SUBSET Singletons,
           at   : {"call", "construct", "register", "finish", "destroy"}]

In(t, at) == stack[t] # <<>> /\ Head(stack[t]).at = at
Of(t)     == Head(stack[t]).of
Left(t)   == Head(stack[t]).left

Push(t, frame)    == stack' = [stack EXCEPT ![t] = <<frame>> \o @]
Pop(t)            == stack' = [stack EXCEPT ![t] = Tail(@)]
Continue(t, frame) == stack' = [stack EXCEPT ![t] = <<frame>> \o Tail(@)]

-----------------------------------------------------------------------------
Init == /\ uses \in UseGraphs
        /\ Control!Init
        /\ object = [s \in Singletons |-> "raw"]
        /\ stack = [t \in Threads |-> <<>>]
        /\ AtExit!Init

(* A thread needs s.                                                       *)
Refer(t, s) == /\ stack[t] = <<>>
               /\ phase = "open"
               /\ Push(t, Frame(s, "call", {}))
               /\ UNCHANGED <<uses, once, object, exitVars>>

(* Mutant: done is set before the routine is run.                          *)
EnterDone(t) ==
  /\ In(t, "call")
  /\ once[Of(t)] = "untouched"
  /\ once' = [once EXCEPT ![Of(t)] = "done"]
  /\ Continue(t, Frame(Of(t), "construct", uses[Of(t)]))
  /\ UNCHANGED <<uses, object, exitVars>>

(* s_once.run() chooses this thread ...                                    *)
Enter(t) == /\ In(t, "call")
            /\ Control!Enter(Of(t))
            /\ Continue(t, Frame(Of(t), "construct", uses[Of(t)]))
            /\ UNCHANGED <<uses, object, exitVars>>

(* ... or has nothing to do ...                                            *)
Return(t) == /\ In(t, "call")
             /\ once[Of(t)] = "done"
             /\ Pop(t)
             /\ UNCHANGED <<uses, once, object, exitVars>>

(* ... or waits for the thread that it chose.                              *)
Wait(t) == /\ In(t, "call")
           /\ once[Of(t)] \in {"running", "failed"}
           /\ UNCHANGED vars

(* The constructor or the destructor calls instance() of another.          *)
Use(t, s) == /\ In(t, "construct") \/ In(t, "destroy")
             /\ s \in Left(t)
             /\ stack' = [stack EXCEPT ![t] =
                  <<Frame(s, "call", {}), Frame(Of(t), Head(@).at, Left(t) \ {s})>> \o Tail(@)]
             /\ UNCHANGED <<uses, once, object, exitVars>>

Construct(t) == /\ In(t, "construct")
                /\ Left(t) = {}
                /\ object' = [object EXCEPT ![Of(t)] = "alive"]
                /\ Continue(t, Frame(Of(t), "register", {}))
                /\ UNCHANGED <<uses, once, exitVars>>

(* The constructor throws, at any time; who called it may catch that.      *)
ConstructorThrows(t) == /\ In(t, "construct")
                        /\ Control!Fail(Of(t))
                        /\ Pop(t)
                        /\ UNCHANGED <<uses, object, exitVars>>

Register(t) == /\ In(t, "register")
               /\ AtExit!Register(Of(t))
               /\ Continue(t, Frame(Of(t), "finish", {}))
               /\ UNCHANGED <<uses, once, object>>

(* Mutant: the task stays registered.                                      *)
RegisterFailsLate(t) == /\ In(t, "register")
                        /\ AtExit!Register(Of(t))
                        /\ object' = [object EXCEPT ![Of(t)] = "dead"]
                        /\ Control!Fail(Of(t))
                        /\ Pop(t)
                        /\ UNCHANGED uses

(* There is no memory for the task: the new object is destroyed and the    *)
(* exception goes on.                                                      *)
RegisterFails(t) == /\ In(t, "register")
                    /\ object' = [object EXCEPT ![Of(t)] = "dead"]
                    /\ Control!Fail(Of(t))
                    /\ Pop(t)
                    /\ UNCHANGED <<uses, exitVars>>

(* Mutant: done is not set.                                                *)
FinishForgotten(t) == /\ In(t, "finish")
                      /\ Pop(t)
                      /\ UNCHANGED <<uses, once, object, exitVars>>

Finish(t) == /\ In(t, "finish")
             /\ Control!Finish(Of(t))
             /\ Pop(t)
             /\ UNCHANGED <<uses, object, exitVars>>

-----------------------------------------------------------------------------
(* Main leaves main().                                                     *)
Exit == /\ \A t \in Threads : stack[t] = <<>>
        /\ AtExit!Exit
        /\ UNCHANGED <<uses, once, object, stack>>

(* exec() calls instance_fini() of the head of the list ...                *)
Fini == /\ AtExit!Call
        /\ Push(Main, Frame(pstack, "destroy", uses[pstack]))
        /\ UNCHANGED <<uses, once, object>>

(* ... which calls the destructor, and returns.                            *)
Destroy(t) == /\ In(t, "destroy")
              /\ Left(t) = {}
              /\ object' = [object EXCEPT ![Of(t)] = "dead"]
              /\ Pop(t)
              /\ AtExit!Return
              /\ UNCHANGED <<uses, once>>

Exec == /\ \/ AtExit!ExecStarts
           \/ AtExit!Load
           \/ AtExit!Delete
           \/ AtExit!Advance
           \/ AtExit!Closed
        /\ UNCHANGED <<uses, once, object, stack>>

Proceed(t) == \/ Return(t)
              \/ Wait(t)
              \/ \E s \in Singletons : Use(t, s)
              \/ Construct(t)
              \/ ConstructorThrows(t)
              \/ Register(t)
              \/ RegisterFails(t)
              \/ Finish(t)
              \/ Destroy(t)

Step(t) == Enter(t) \/ Proceed(t)

Next == \/ \E t \in Threads : Step(t) \/ \E s \in Singletons : Refer(t, s)
        \/ Exit \/ Fini \/ Exec

Spec == Init /\ [][Next]_vars

(* Threads that are in a call run, and so does the exit once it has begun. *)
(* One of the first callers of instance() is chosen only if the build has  *)
(* interlocked atomics: with the others all of them may wait for ever, as  *)
(* ThreadOnce has it.                                                      *)
FairSpec ==
  /\ Spec
  /\ WF_vars(Fini \/ Exec)
  /\ \A t \in Threads : WF_vars((Interlocked /\ Enter(t)) \/ Proceed(t))

-----------------------------------------------------------------------------
(* t is somewhere in instance_init() of s.                                 *)
Constructs(t, s) ==
  \E i \in DOMAIN stack[t] :
    stack[t][i].of = s /\ stack[t][i].at \in {"construct", "register", "finish"}

(* Besides the types: a control is running when, and only when, a thread   *)
(* is in the routine.                                                      *)
TypeOK == /\ uses \in UseGraphs
          /\ once \in [Singletons -> Control!States]
          /\ object \in [Singletons -> {"raw", "alive", "dead"}]
          /\ stack \in [Threads -> Seq(Frames)]
          /\ AtExit!TypeOK
          /\ \A s \in Singletons : once[s] = "running" <=> \E t \in Threads : Constructs(t, s)

Open    == phase = "open"
Failed  == \E s \in Singletons : once[s] = "failed"
Acyclic == \A S \in SUBSET Singletons \ {{}} : \E s \in S : uses[s] \cap S = {}

(* The instance() that t is in is called by the destructor of a singleton  *)
(* that was registered before the exit, and exec() prefers u to it or not. *)
InDestructorOf(t, p) == /\ Len(stack[t]) = 2
                        /\ stack[t][2].at = "destroy" /\ stack[t][2].of = p
                        /\ p \in AtExit!EarlyTasks

(* While the program runs, the reference that instance() returns is to a   *)
(* whole object, whoever constructs it; and so it is in the destructor of  *)
(* an instance that uses another of the same or a longer lifetime.         *)
LiveReferences ==
  \A t \in Threads :
    In(t, "call") /\ once[Of(t)] = "done" =>
      /\ object[Of(t)] # "raw"
      /\ Open => object[Of(t)] = "alive"
      /\ \A p \in Singletons :
           InDestructorOf(t, p) /\ Prio[p] >= Prio[Of(t)] => object[Of(t)] = "alive"

(* A destructor is called of a whole object, and once; and whatever was    *)
(* constructed while the program ran is destroyed by the end of the        *)
(* process.                                                                *)
DestroyedWhole ==
  /\ \A t \in Threads : In(t, "destroy") => object[Of(t)] = "alive"
  /\ phase = "closed" =>
       \A s \in Singletons :
         object[s] = "alive" => s \in AtExit!Elements(pushed) \ AtExit!EarlyTasks

(* "Fine-grained control over controlled instance lifetime": of the        *)
(* objects that exist at the exit one with a longer lifetime outlives one  *)
(* with a shorter, unless that is lifetime_short, the least int.           *)
LifetimesKept ==
  \A s, u \in AtExit!EarlyTasks :
    Lifetime[u] < Lifetime[s] /\ Lifetime[u] # IntMin
      => ~(object[s] = "dead" /\ object[u] = "alive")

(* In a build with interlocked atomics every instance() returns, in        *)
(* whichever threads they meet, and so does every destructor that calls    *)
(* it, unless a constructor fails.  The premise is that no singletons use  *)
(* each other in a circle: then one waits for itself, or two threads for   *)
(* each other (singleton.h:122).                                           *)
ReferencesReturn ==
  Interlocked /\ Acyclic =>
    \A t \in Threads : stack[t] # <<>> ~> stack[t] = <<>> \/ Failed
=============================================================================
