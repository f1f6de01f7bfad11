------------------------------ MODULE Process ------------------------------
(***************************************************************************)
(* trail::process of libk2 (k2/process.h, source/process.cpp) on POSIX:    *)
(* objects that stand for child processes, whose constructors fork and     *)
(* whose destructors wait, and children that are detached.                 *)
(*                                                                         *)
(* A failed fork() is not noticed: the object gets -1 for its m_id, which  *)
(* means any child to waitpid().  The child goes round the loop that       *)
(* splits its name (process.cpp:119-127) without ever getting further, and *)
(* so writes argv to beyond its end; from there on it may die at any time. *)
(***************************************************************************)
EXTENDS Naturals, FiniteSets

CONSTANTS Processes,    \* process objects, each constructed once
          Pids,         \* process ids; one is used again when it was waited for
          MaxArgc       \* MAX_ARGC

VARIABLES child,      \* state of the process with each id
          childOf,    \* the object it was forked for, or NoOne
          argc,       \* idx in the child
          object,     \* where each object is in its life
          id,         \* m_id
          failed,     \* objects whose fork() failed
          interrupted,\* objects whose waitpid() was interrupted by a signal
          foreign     \* objects that waited for the child of another one

processVars ==
  <<child, childOf, argc, object, id, failed, interrupted, foreign>>

NoOne == "no one"
AnyChild == "-1"

\* waitpid() tells -1 from the id of a process.
ASSUME ProcessAssumption ==
  MaxArgc \in Nat \ {0} /\ AnyChild \notin Pids /\ NoOne \notin Processes

ProcessInit ==
  /\ child = [p \in Pids |-> "none"]
  /\ childOf = [p \in Pids |-> NoOne]
  /\ argc = [p \in Pids |-> 0]
  /\ object = [o \in Processes |-> "unborn"]
  /\ id = [o \in Processes |-> AnyChild]
  /\ failed = {}
  /\ interrupted = {}
  /\ foreign = {}

ghosts == <<failed, interrupted, foreign>>

\* fork() of a child for o, with an id that is free.
Forks(p, o) ==
  /\ child[p] = "none"
  /\ child' = [child EXCEPT ![p] = "splitting"]
  /\ childOf' = [childOf EXCEPT ![p] = o]
  /\ argc' = [argc EXCEPT ![p] = 1]

CreateDetached ==
  /\ \E p \in Pids : Forks(p, NoOne)
  /\ UNCHANGED <<object, id, ghosts>>

\* process(filename, cmdline).  When there is no memory for the process_impl
\* the constructor throws, and the child is left.
ConstructProcess(o) ==
  /\ object[o] = "unborn"
  /\ \E p \in Pids :
       \/ /\ Forks(p, o)
          /\ object' = [object EXCEPT ![o] = "there"]
          /\ id' = [id EXCEPT ![o] = p]
       \/ /\ Forks(p, NoOne)
          /\ object' = [object EXCEPT ![o] = "threw"]
          /\ UNCHANGED id
  /\ UNCHANGED ghosts

\* The other result that is not zero.
ForkFails(o) ==
  /\ object[o] = "unborn"
  /\ object' = [object EXCEPT ![o] = "there"]
  /\ id' = [id EXCEPT ![o] = AnyChild]
  /\ failed' = failed \cup {o}
  /\ UNCHANGED <<child, childOf, argc, interrupted, foreign>>

\* ~process().
DestroyProcess(o) ==
  /\ object[o] = "there"
  /\ object' = [object EXCEPT ![o] = "joining"]
  /\ UNCHANGED <<child, childOf, argc, id, ghosts>>

Awaited(o) == IF id[o] = AnyChild THEN Pids ELSE {id[o]}

\* Mutant: waitpid(-1).
JoinAnyChild(o) ==
  /\ object[o] = "joining"
  /\ \E p \in Pids :
       /\ child[p] = "zombie"
       /\ child' = [child EXCEPT ![p] = "none"]
       /\ foreign' = IF childOf[p] = o THEN foreign ELSE foreign \cup {o}
  /\ object' = [object EXCEPT ![o] = "gone"]
  /\ UNCHANGED <<childOf, argc, id, failed, interrupted>>

\* waitpid(), of which nobody looks at the result: a child that has ended is
\* taken off the system's list, or there is none to wait for.
JoinAndDestroy(o) ==
  /\ object[o] = "joining"
  /\ \/ \E p \in Awaited(o) :
          /\ child[p] = "zombie"
          /\ child' = [child EXCEPT ![p] = "none"]
          /\ foreign' = IF childOf[p] = o THEN foreign ELSE foreign \cup {o}
     \/ /\ \A p \in Awaited(o) : child[p] = "none"
        /\ UNCHANGED <<child, foreign>>
  /\ object' = [object EXCEPT ![o] = "gone"]
  /\ UNCHANGED <<childOf, argc, id, failed, interrupted>>

\* EINTR.
JoinInterrupted(o) ==
  /\ object[o] = "joining"
  /\ \E p \in Awaited(o) : child[p] # "none"
  /\ object' = [object EXCEPT ![o] = "gone"]
  /\ interrupted' = interrupted \cup {o}
  /\ UNCHANGED <<child, childOf, argc, id, failed, foreign>>

\* Once round the loop, in the child.
SplitOnce(p) ==
  /\ child[p] = "splitting" /\ argc[p] < MaxArgc
  /\ argc' = [argc EXCEPT ![p] = @ + 1]
  /\ UNCHANGED <<child, childOf, object, id, ghosts>>

SplitBeyond(p) ==
  /\ child[p] = "splitting" /\ argc[p] = MaxArgc
  /\ child' = [child EXCEPT ![p] = "overrun"]
  /\ UNCHANGED <<childOf, argc, object, id, ghosts>>

\* With an empty name there is nothing to split and to execute: the exception
\* leaves the constructor, in the child, which goes on as a copy of the
\* program.
ExecFails(p) ==
  /\ child[p] = "splitting" /\ argc[p] = 1
  /\ child' = [child EXCEPT ![p] = "copy"]
  /\ UNCHANGED <<childOf, argc, object, id, ghosts>>

ChildDies(p) ==
  /\ child[p] \in {"splitting", "overrun", "copy"}
  /\ child' = [child EXCEPT ![p] = "zombie"]
  /\ argc' = [argc EXCEPT ![p] = 0]
  /\ UNCHANGED <<childOf, object, id, ghosts>>

ProcessNext ==
  \/ CreateDetached
  \/ \E o \in Processes :
       \/ ConstructProcess(o) \/ ForkFails(o) \/ DestroyProcess(o)
       \/ JoinAndDestroy(o) \/ JoinInterrupted(o)
  \/ \E p \in Pids :
       SplitOnce(p) \/ SplitBeyond(p) \/ ExecFails(p) \/ ChildDies(p)

ProcessSpec == ProcessInit /\ [][ProcessNext]_processVars

-----------------------------------------------------------------------------
(* Properties. *)

\* When ~process() has returned its child is over and not even a zombie,
\* unless a signal cut the wait short: also when the object of a failed fork()
\* has waited for the child in its place, and when the id was then used again
\* for the child of a third one.  As long as no fork() has failed no object
\* waits for the child of another one: ids are used again, but not before the
\* object they belong to is through with them.
EachReapsItsOwn ==
  /\ \A o \in Processes :
       object[o] = "gone" /\ o \notin interrupted =>
         \A p \in Pids : child[p] # "none" => childOf[p] # o
  /\ failed = {} => foreign = {}

=============================================================================
