------------------------------ MODULE MCClasses -----------------------------
(***************************************************************************)
(* The classes of libk2 that have nothing to do with each other, for TLC:  *)
(* times, calendars, addresses, tls_ptr, process and mem_pool.  A behaviour *)
(* is about one of them, so that their states add up and do not multiply.  *)
(***************************************************************************)
EXTENDS Calendar, Addr, TlsPtr, Process, MemPool, TLC, Bitwise

VARIABLE which      \* the class that this behaviour is about

(* Calendars in both time zones, read by several threads. *)
MCStampOf == [c1 |-> 5, c2 |-> 8]
MCZoneOf == [c1 |-> "utc", c2 |-> "local"]

(* In bytes of one bit: 0.0.0.0, the loopback, and two more. *)
MCIfs == {<<0, 0, 0, 0>>, <<0, 0, 0, 1>>, <<0, 1, 0, 0>>, <<1, 0, 1, 0>>}

MCXor(x, y) == x ^^ y

\* The threads of a tls_ptr or a mem_pool are alike.
MCSymmetry == Permutations(Threads)

mcVars == <<which, vars, calendarVars, addrVars, tlsVars, processVars, poolVars>>

MCInit ==
  /\ which \in {"timing", "calendar", "addr", "tls_ptr", "process", "mem_pool",
              "allocator"}
  /\ Init /\ (which = "timing" \/ clock = 0)
  /\ CalendarInit
  /\ AddrInit /\ (which = "addr" \/ version = 4)
  /\ TlsInit
  /\ ProcessInit
  /\ PoolInit

TimingMoves ==
  /\ which = "timing" /\ Next
  /\ UNCHANGED <<calendarVars, addrVars, tlsVars, processVars, poolVars>>
CalendarMoves ==
  /\ which = "calendar" /\ CalendarNext
  /\ UNCHANGED <<vars, addrVars, tlsVars, processVars, poolVars>>
AddrMoves ==
  /\ which = "addr" /\ AddrNext
  /\ UNCHANGED <<vars, calendarVars, tlsVars, processVars, poolVars>>
TlsMoves ==
  /\ which = "tls_ptr" /\ TlsNext
  /\ UNCHANGED <<vars, calendarVars, addrVars, processVars, poolVars>>
ProcessMoves ==
  /\ which = "process" /\ ProcessNext
  /\ UNCHANGED <<vars, calendarVars, addrVars, tlsVars, poolVars>>

\* The pool grows, or there are larger pieces beside it.
PoolMoves ==
  /\ \/ which = "mem_pool" /\ PoolNext /\ heap' = {}
     \/ which = "allocator" /\ PoolNext /\ blocks' = 1
  /\ UNCHANGED <<vars, calendarVars, addrVars, tlsVars, processVars>>

MCNext ==
  /\ TimingMoves \/ CalendarMoves \/ AddrMoves \/ TlsMoves \/ ProcessMoves
     \/ PoolMoves
  /\ UNCHANGED which

MCSpec == MCInit /\ [][MCNext]_mcVars

=============================================================================
