------------------------------- MODULE TlsPtr -------------------------------
(***************************************************************************)
(* tls_ptr of libk2 (k2/tls_ptr.h, source/threading.cpp): a pointer that   *)
(* every thread has for itself, to an object that is deleted when another  *)
(* one takes its place and when the thread ends.                           *)
(*                                                                         *)
(* The objects have destructors that may use the tls_ptrs of their thread  *)
(* in turn; a thread has a stack of the destructors that run in it.  The   *)
(* keys of the POSIX threads, and what the system does with them when a    *)
(* thread ends, are external.                                              *)
(***************************************************************************)
EXTENDS Integers, Sequences

CONSTANTS TlsThreads,   \* threads of the process
          TlsPtrs,      \* tls_ptr objects
          Objects,      \* what they point to; each is allocated once
          KeysMax,      \* PTHREAD_KEYS_MAX
          Rounds,       \* PTHREAD_DESTRUCTOR_ITERATIONS
          NoObject      \* the null pointer

ASSUME TlsAssumption ==
  KeysMax \in Nat /\ Rounds \in Nat \ {0} /\ NoObject \notin Objects

VARIABLES handle,    \* m_handle: the key of each tls_ptr that is there, or 0
          routine,   \* keys that were created with a destroy routine
          keys,      \* number of keys that were created
          slot,      \* thread and key -> pointer
          state,     \* of each object
          stack,     \* destructors that run in each thread, innermost last
          life,      \* "runs", "ending" or "ended"
          round,     \* how often an ending thread has gone through its slots
          key,       \* how far it is this time
          tangled    \* a destructor has changed the slot it was called for,
                     \* or a slot was left with an object that is deleted

tlsVars ==
  <<handle, routine, keys, slot, state, stack, life, round, key, tangled>>

Keys == 1 .. KeysMax
Pointers == Objects \cup {NoObject}

TlsInit ==
  /\ handle = [p \in TlsPtrs |-> 0]
  /\ routine = {}
  /\ keys = 0
  /\ slot = [t \in TlsThreads |-> [k \in Keys |-> NoObject]]
  /\ state = [o \in Objects |-> "unborn"]
  /\ stack = [t \in TlsThreads |-> <<>>]
  /\ life = [t \in TlsThreads |-> "runs"]
  /\ round = [t \in TlsThreads |-> 0]
  /\ key = [t \in TlsThreads |-> 0]
  /\ tangled = FALSE

ending == <<life, round, key>>

\* The keys whose slots a thread is about to overwrite.
Resetting(t) == {stack[t][i].key : i \in DOMAIN stack[t]}

\* A slot is changed, maybe by a destructor that runs for what is in it.
Changes(t, k) == tangled' = (tangled \/ k \in Resetting(t))

\* The program has control: in the body of the thread, or in a destructor.
Active(t) == life[t] = "runs" \/ stack[t] # <<>>

Stored(t, k, o) == slot' = [slot EXCEPT ![t][k] = o]

\* delete of an object begins: its destructor runs.
Dying(o) ==
  state' = [state EXCEPT ![o] = IF @ = "stored" THEN "dying" ELSE "twice"]

-----------------------------------------------------------------------------
(* tls_ptr. *)

\* Mutant: the key has no destroy routine.
TlsConstructBare(p) ==
  /\ handle[p] = 0
  /\ keys < KeysMax
  /\ keys' = keys + 1
  /\ handle' = [handle EXCEPT ![p] = keys + 1]
  /\ UNCHANGED <<routine, slot, state, stack, ending, tangled>>

\* tls_ptr(), which throws bad_resource_alloc when there is no key.
TlsConstruct(p) ==
  /\ handle[p] = 0
  /\ keys < KeysMax
  /\ keys' = keys + 1
  /\ handle' = [handle EXCEPT ![p] = keys + 1]
  /\ routine' = routine \cup {keys + 1}
  /\ UNCHANGED <<slot, state, stack, ending, tangled>>

\* ~tls_ptr() leaves the key alone.  The program has seen to it that no thread
\* is there that has made use of it.
TlsDestroy(p) ==
  /\ handle[p] # 0
  /\ \A t \in TlsThreads :
       slot[t][handle[p]] = NoObject /\ handle[p] \notin Resetting(t)
  /\ handle' = [handle EXCEPT ![p] = 0]
  /\ UNCHANGED <<routine, keys, slot, state, stack, ending, tangled>>

\* get(), *, -> and release() read the slot of the calling thread.
TlsGet(t, k) == slot[t][k]

\* release(): the object is the program's, unless its destructor runs already.
\* If the slot cannot be emptied release() throws, and nothing has changed.
TlsRelease(t, k) ==
  /\ Active(t)
  /\ TlsGet(t, k) # NoObject
  /\ state' = [state EXCEPT ![TlsGet(t, k)] = IF @ = "stored" THEN "free" ELSE @]
  /\ Stored(t, k, NoObject)
  /\ Changes(t, k)
  /\ UNCHANGED <<handle, routine, keys, stack, ending>>

\* reset(p) in a slot that is empty: pthread_setspecific(), which may be out of
\* memory.  The pointer is then still the caller's.
TlsResetEmpty(t, k, o) ==
  /\ Active(t)
  /\ TlsGet(t, k) = NoObject
  /\ o \in Objects /\ state[o] = "free"
  /\ \/ Stored(t, k, o) /\ state' = [state EXCEPT ![o] = "stored"]
     \/ UNCHANGED <<slot, state>>
  /\ Changes(t, k)
  /\ UNCHANGED <<handle, routine, keys, stack, ending>>

\* Mutant: the old object is not deleted.
TlsResetForgets(t, k, o) ==
  /\ Active(t)
  /\ TlsGet(t, k) # NoObject
  /\ o \in Objects /\ state[o] = "free"
  /\ Stored(t, k, o) /\ state' = [state EXCEPT ![o] = "stored"]
  /\ Changes(t, k)
  /\ UNCHANGED <<handle, routine, keys, stack, ending>>

\* reset(p) in a slot that is not: the old object is destroyed first, with the
\* slot still pointing to it, for its destructor to find there.  p is in the
\* hands of reset() meanwhile.  reset() of the pointer that is there already
\* destroys nothing and changes nothing.
TlsReset(t, k, o) ==
  /\ Active(t)
  /\ TlsGet(t, k) # NoObject
  /\ \/ o = NoObject /\ Dying(TlsGet(t, k))
     \/ /\ o \in Objects /\ state[o] = "free"
        /\ state' = [state EXCEPT ![TlsGet(t, k)] =
                       IF @ = "stored" THEN "dying" ELSE "twice",
                                  ![o] = "passed"]
  /\ stack' = [stack EXCEPT ![t] =
                 Append(@, [key |-> k, old |-> TlsGet(t, k), new |-> o])]
  /\ Changes(t, k)
  /\ UNCHANGED <<handle, routine, keys, slot, ending>>

\* The destructor of the old object returns: its memory is freed, and the new
\* pointer stored.  If that fails reset() throws: the new object is still the
\* caller's, and the slot left as it is.
TlsResetReturns(t) ==
  /\ stack[t] # <<>>
  /\ LET top == stack[t][Len(stack[t])]
         after(label) == [o \in Objects |-> CASE o = top.old -> "deleted"
                                              [] o = top.new -> label
                                              [] OTHER       -> state[o]] IN
       /\ top.key # 0
       /\ \/ /\ Stored(t, top.key, top.new)
             /\ state' = after("stored")
             /\ UNCHANGED tangled
          \/ /\ state' = after("free")
             /\ tangled' = TRUE
             /\ UNCHANGED slot
       /\ stack' = [stack EXCEPT ![t] = SubSeq(@, 1, Len(@) - 1)]
  /\ UNCHANGED <<handle, routine, keys, ending>>

-----------------------------------------------------------------------------
(* The program: new and delete of what is not in a slot. *)

New(o) ==
  /\ state[o] = "unborn"
  /\ state' = [state EXCEPT ![o] = "free"]
  /\ UNCHANGED <<handle, routine, keys, slot, stack, ending, tangled>>

DeleteFree(o) ==
  /\ state[o] = "free"
  /\ state' = [state EXCEPT ![o] = "deleted"]
  /\ UNCHANGED <<handle, routine, keys, slot, stack, ending, tangled>>

(* The end of a thread, as the system has it: for each key with a destroy    *)
(* routine and a pointer, the slot is emptied and the routine called; and    *)
(* again, up to a number of rounds, if there are pointers left.              *)

TlsThreadEnds(t) ==
  /\ life[t] = "runs" /\ stack[t] = <<>>
  /\ life' = [life EXCEPT ![t] = "ending"]
  /\ key' = [key EXCEPT ![t] = 1]
  /\ UNCHANGED <<handle, routine, keys, slot, state, stack, round, tangled>>

\* cleanup(), which deletes the object.
TlsCleanup(t) ==
  /\ life[t] = "ending" /\ stack[t] = <<>>
  /\ key[t] \in routine
  /\ slot[t][key[t]] # NoObject
  /\ Dying(slot[t][key[t]])
  /\ stack' = [stack EXCEPT ![t] =
                 <<[key |-> 0, old |-> slot[t][key[t]], new |-> NoObject]>>]
  /\ Stored(t, key[t], NoObject)
  /\ key' = [key EXCEPT ![t] = @ + 1]
  /\ UNCHANGED <<handle, routine, keys, life, round, tangled>>

TlsCleanupReturns(t) ==
  /\ Len(stack[t]) = 1 /\ stack[t][1].key = 0
  /\ state' = [state EXCEPT ![stack[t][1].old] = "deleted"]
  /\ stack' = [stack EXCEPT ![t] = <<>>]
  /\ UNCHANGED <<handle, routine, keys, slot, ending, tangled>>

\* Keys that were given no object, and those without a routine, are passed.
TlsNextKey(t) ==
  /\ life[t] = "ending" /\ stack[t] = <<>>
  /\ key[t] \in Keys
  /\ slot[t][key[t]] = NoObject \/ key[t] \notin routine
  /\ key' = [key EXCEPT ![t] = @ + 1]
  /\ UNCHANGED <<handle, routine, keys, slot, state, stack, life, round, tangled>>

TlsNextRound(t) ==
  /\ life[t] = "ending" /\ stack[t] = <<>>
  /\ key[t] \notin Keys
  /\ LET left == \E k \in routine : slot[t][k] # NoObject IN
       IF left /\ round[t] + 1 < Rounds
       THEN /\ round' = [round EXCEPT ![t] = @ + 1]
            /\ key' = [key EXCEPT ![t] = 1]
            /\ UNCHANGED life
       ELSE /\ life' = [life EXCEPT ![t] = "ended"]
            /\ key' = [key EXCEPT ![t] = 0]
            /\ UNCHANGED round
  /\ UNCHANGED <<handle, routine, keys, slot, state, stack, tangled>>

\* When an object is destroyed that is being destroyed, or gone, anything may
\* happen; the model stops there.
TlsNext ==
  /\ \A o \in Objects : state[o] # "twice"
  /\ \/ \E p \in TlsPtrs :
          \/ TlsConstruct(p) \/ TlsDestroy(p)
          \/ /\ handle[p] # 0
             /\ \E t \in TlsThreads :
                  \/ TlsRelease(t, handle[p])
                  \/ \E o \in Pointers :
                       TlsResetEmpty(t, handle[p], o) \/ TlsReset(t, handle[p], o)
     \/ \E o \in Objects : New(o) \/ DeleteFree(o)
     \/ \E t \in TlsThreads :
          \/ TlsResetReturns(t)
          \/ TlsThreadEnds(t) \/ TlsCleanup(t) \/ TlsCleanupReturns(t)
          \/ TlsNextKey(t) \/ TlsNextRound(t)

TlsSpec == TlsInit /\ [][TlsNext]_tlsVars

-----------------------------------------------------------------------------
(* Properties. *)

Places(o) == {q \in TlsThreads \X Keys : slot[q[1]][q[2]] = o}

\* An object that was stored and not released has one thread and one tls_ptr
\* that will delete it; one that is deleted, or that the program may delete, is
\* in no slot.  Only while its destructor runs in reset() does a slot point to
\* an object that is going (threading.cpp:254), for its own thread to see.  So
\* none is deleted twice or lost: not by reset() and at the end of the thread,
\* not after release(), not from a destructor that uses other tls_ptrs.  There
\* are two exceptions, from which on nothing is promised: a destructor that
\* calls reset() or release() of the slot its own object is in (see
\* DeletedOnce), and a reset() that fails to store when the old object is gone
\* (threading.cpp:256-257).
OneOwner ==
  tangled \/ \A o \in Objects :
    /\ state[o] # "twice"
    /\ state[o] = "stored" => \E q \in Places(o) : Places(o) = {q}
    /\ state[o] \in {"unborn", "free", "passed", "deleted"} => Places(o) = {}
    /\ state[o] = "dying" =>
         \A q \in Places(o) :
           \E i \in DOMAIN stack[q[1]] :
             stack[q[1]][i].key = q[2] /\ stack[q[1]][i].old = o

\* Not so: each object is deleted once, whatever its destructor does
\* (tls_ptr.h:130, "Deletes stored pointer then take ownership of p").
DeletedOnce == \A o \in Objects : state[o] # "twice"

\* A thread that has ended leaves no object behind (tls_ptr.h:82), even if the
\* destructors have stored others, unless they went on storing until the system
\* gave up.
EndedEmpty ==
  \A t \in TlsThreads :
    life[t] = "ended" =>
      \/ \A k \in Keys : slot[t][k] = NoObject
      \/ round[t] + 1 = Rounds

=============================================================================
