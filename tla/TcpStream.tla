----------------------------- MODULE TcpStream -----------------------------
(***************************************************************************)
(* write_all() and read_all() of k2::ipv4::tcp_transport, with and without *)
(* a timeout (source/transport.cpp), on a connection whose two ends each   *)
(* have one thread.                                                        *)
(*                                                                         *)
(* The sockets are the system's: a byte pipe of limited capacity in each   *)
(* direction, a blocking send() that returns when all its bytes are in the *)
(* pipe or a signal has interrupted it, a recv() that returns what is      *)
(* there, select() as Linux has it, which stores the time that is left.    *)
(* Every call moves Bytes bytes, one message.                              *)
(***************************************************************************)
EXTENDS Integers, Sequences

CONSTANTS
  Ends,       \* the two ends of the connection
  Bytes,      \* length of a message
  Capacity,   \* how many bytes the system keeps in each direction
  Timeout,    \* the timeout of the calls that have one, in ticks
  MaxCalls    \* bound on the calls made at each end

ASSUME EndsAssumption  == \E a, b \in Ends : a # b /\ Ends = {a, b}
ASSUME SizesAssumption == /\ {Bytes, Capacity} \subseteq Nat \ {0}
                          /\ {Timeout, MaxCalls} \subseteq Nat

VARIABLES
  pipe,        \* pipe[e]: the bytes end e has sent, not received yet
  desc,        \* desc[e]: the descriptor is open, or closed
  reset,       \* reset[e]: the other end was closed over unread bytes of e
  pc, op,      \* where the thread of each end is, and in which call
  timed,       \* timed[e]: that call has a timeout
  timeout,     \* timeout[e]: what is left of it
  bytes_done,  \* bytes_done[e]: of the call
  buf,         \* buf[e]: what read_all() has put into the caller's buffer
  written,     \* history: how many write_all() have returned
  received,    \* history: the buffers that read_all() has returned
  spent,       \* history: the ticks the call has spent in select()
  stuck,       \* history: and, if timed, in send() or recv(), up to Timeout + 1
  broken,      \* history: a call on the bytes of e failed in mid-message
  discarded,   \* history: read_all() returned 0 in mid-message
  calls        \* for the bound

kernel == <<pipe, desc, reset>>
call   == <<op, timed, timeout, bytes_done, buf, spent, stuck>>
vars   == <<kernel, pc, call, written, received, broken, discarded, calls>>

Peer(e) == CHOOSE p \in Ends : p # e

(* The bytes that e's call moves come from it, or from its peer.           *)
Sender(e) == IF op[e] = "write_all" THEN e ELSE Peer(e)

Message(n) == [i \in 1 .. Bytes |-> <<n, i>>]

Least(m, n) == IF m < n THEN m ELSE n

-----------------------------------------------------------------------------
Init == /\ pipe = [e \in Ends |-> <<>>]
        /\ desc = [e \in Ends |-> "open"]
        /\ reset = [e \in Ends |-> FALSE]
        /\ pc = [e \in Ends |-> "idle"]
        /\ op = [e \in Ends |-> "none"]
        /\ timed = [e \in Ends |-> FALSE]
        /\ timeout = [e \in Ends |-> 0]
        /\ bytes_done = [e \in Ends |-> 0]
        /\ buf = [e \in Ends |-> <<>>]
        /\ written = [e \in Ends |-> 0]
        /\ received = [e \in Ends |-> <<>>]
        /\ spent = [e \in Ends |-> 0]
        /\ stuck = [e \in Ends |-> 0]
        /\ broken = [e \in Ends |-> FALSE]
        /\ discarded = [e \in Ends |-> FALSE]
        /\ calls = [e \in Ends |-> 0]

(* write_all() or read_all() is called, with or without a timeout.         *)
Call(e, operation, withTimeout) ==
  /\ pc[e] = "idle" /\ desc[e] = "open"
  /\ calls[e] < MaxCalls
  /\ calls' = [calls EXCEPT ![e] = @ + 1]
  /\ pc' = [pc EXCEPT ![e] = IF withTimeout THEN "select" ELSE "transfer"]
  /\ op' = [op EXCEPT ![e] = operation]
  /\ timed' = [timed EXCEPT ![e] = withTimeout]
  /\ timeout' = [timeout EXCEPT ![e] = IF withTimeout THEN Timeout ELSE 0]
  /\ UNCHANGED <<kernel, bytes_done, buf, written, received, spent, stuck, broken,
                 discarded>>

(* The call is over, and its locals with it.                               *)
Leave(e) == /\ pc' = [pc EXCEPT ![e] = "idle"]
            /\ op' = [op EXCEPT ![e] = "none"]
            /\ timed' = [timed EXCEPT ![e] = FALSE]
            /\ timeout' = [timeout EXCEPT ![e] = 0]
            /\ bytes_done' = [bytes_done EXCEPT ![e] = 0]
            /\ buf' = [buf EXCEPT ![e] = <<>>]
            /\ spent' = [spent EXCEPT ![e] = 0]
            /\ stuck' = [stuck EXCEPT ![e] = 0]

(* An exception ends the call.                                             *)
Fail(e) == /\ Leave(e)
           /\ broken' = [broken EXCEPT ![Sender(e)] = @ \/ bytes_done[e] > 0]
           /\ UNCHANGED <<kernel, written, received, discarded, calls>>

(* The call has moved some bytes and goes round its loop.                  *)
GoRound(e) == /\ pc' = [pc EXCEPT ![e] = IF timed[e] THEN "select" ELSE "transfer"]
              /\ UNCHANGED <<op, timed, timeout, spent, stuck>>

-----------------------------------------------------------------------------
(* A send() or recv() can go on, which is what select() tells.             *)
Ready(e) == \/ desc[Peer(e)] = "closed"
            \/ op[e] = "read_all"  /\ pipe[Peer(e)] # <<>>
            \/ op[e] = "write_all" /\ Len(pipe[e]) < Capacity

(* socket_wait2().                                                         *)

(* Mutant: the timeout of each select() is that of the call.               *)
SelectAnew(e) ==
  /\ pc[e] = "select" /\ Ready(e)
  /\ pc' = [pc EXCEPT ![e] = "transfer"]
  /\ timeout' = [timeout EXCEPT ![e] = Timeout]
  /\ UNCHANGED <<kernel, op, timed, bytes_done, buf, written, received, spent, stuck,
                 broken, discarded, calls>>

(* select() returns 1.  What is left is stored, the odd microseconds lost. *)
Select(e) ==
  /\ pc[e] = "select" /\ Ready(e)
  /\ pc' = [pc EXCEPT ![e] = "transfer"]
  /\ \E lost \in 0 .. Least(1, timeout[e]) : timeout' = [timeout EXCEPT ![e] = @ - lost]
  /\ UNCHANGED <<kernel, op, timed, bytes_done, buf, written, received, spent, stuck,
                 broken, discarded, calls>>

(* Time passes in it.                                                      *)
Tick(e) ==
  /\ pc[e] = "select" /\ ~Ready(e) /\ timeout[e] > 0
  /\ timeout' = [timeout EXCEPT ![e] = @ - 1]
  /\ spent' = [spent EXCEPT ![e] = @ + 1]
  /\ UNCHANGED <<kernel, pc, op, timed, bytes_done, buf, stuck, written, received,
                 broken, discarded, calls>>

(* Mutant: select() is called again when it has timed out.                 *)
TimeOutRetried(e) ==
  /\ pc[e] = "select" /\ ~Ready(e) /\ timeout[e] = 0
  /\ UNCHANGED vars

(* It returns 0, and socket_timedout_error is thrown.                      *)
TimeOut(e) == /\ pc[e] = "select" /\ ~Ready(e) /\ timeout[e] = 0
              /\ Fail(e)

(* A signal interrupts it; it returns -1, which counts as a timeout.  Or   *)
(* it interrupts a send() or recv() that waits: another -1, and            *)
(* socket_connection_error.                                                *)
Interrupted(e) == /\ pc[e] = "select" \/ (pc[e] = "transfer" /\ ~Ready(e))
                  /\ Fail(e)

(* Time passes in a send() that has no room, or a recv() that has no       *)
(* bytes: they have no timeout.                                            *)
Blocked(e) ==
  /\ pc[e] = "transfer" /\ ~Ready(e) /\ timed[e]
  /\ stuck[e] <= Timeout
  /\ stuck' = [stuck EXCEPT ![e] = @ + 1]
  /\ UNCHANGED <<kernel, pc, op, timed, timeout, bytes_done, buf, written, received, spent,
                 broken, discarded, calls>>

-----------------------------------------------------------------------------
(* Mutant: the loop sends from the start of the buffer again.              *)
SendFromStart(e, n) ==
  /\ n \in 1 .. Least(Bytes - bytes_done[e], Capacity - Len(pipe[e]))
  /\ pipe' = [pipe EXCEPT ![e] = @ \o SubSeq(Message(written[e] + 1), 1, n)]

(* The system takes n bytes from buf + bytes_done.                         *)
Send(e, n) ==
  /\ n \in 1 .. Least(Bytes - bytes_done[e], Capacity - Len(pipe[e]))
  /\ pipe' = [pipe EXCEPT ![e] = @ \o SubSeq(Message(written[e] + 1),
                                             bytes_done[e] + 1, bytes_done[e] + n)]

(* A send() still has bytes to pass on, or returns short: to go round ...  *)
WriteSome(e) ==
  /\ pc[e] = "transfer" /\ op[e] = "write_all"
  /\ \E n \in 1 .. Bytes : /\ Send(e, n)
                           /\ bytes_done[e] + n < Bytes
                           /\ bytes_done' = [bytes_done EXCEPT ![e] = @ + n]
  /\ GoRound(e) \/ UNCHANGED <<pc, op, timed, timeout, spent, stuck>>
  /\ UNCHANGED <<desc, reset, buf, written, received, broken, discarded, calls>>

(* ... or all bytes are done and write_all() returns.                      *)
WriteLast(e) ==
  /\ pc[e] = "transfer" /\ op[e] = "write_all"
  /\ Send(e, Bytes - bytes_done[e])
  /\ Leave(e)
  /\ written' = [written EXCEPT ![e] = @ + 1]
  /\ UNCHANGED <<desc, reset, received, broken, discarded, calls>>

(* Mutant: the -1 of send() is not looked at, and the loop goes on.        *)
WriteErrorIgnored(e) == /\ pc[e] = "transfer" /\ op[e] = "write_all"
                        /\ desc[Peer(e)] = "closed"
                        /\ UNCHANGED vars

(* Nobody will read what is sent: socket_connection_error, in a program    *)
(* that ignores SIGPIPE, which would end it here (send() is given no       *)
(* flag against it).                                                       *)
WriteFails(e) == /\ pc[e] = "transfer" /\ op[e] = "write_all"
                 /\ desc[Peer(e)] = "closed"
                 /\ Fail(e)

-----------------------------------------------------------------------------
(* recv(buf + bytes_done, bytes - bytes_done) returns n bytes.             *)
Recv(e, n) ==
  LET p == Peer(e) IN
  /\ n \in 1 .. Least(Bytes - bytes_done[e], Len(pipe[p]))
  /\ pipe' = [pipe EXCEPT ![p] = SubSeq(@, n + 1, Len(@))]

Incoming(e, n) == buf[e] \o SubSeq(pipe[Peer(e)], 1, n)

ReadSome(e) ==
  /\ pc[e] = "transfer" /\ op[e] = "read_all"
  /\ \E n \in 1 .. Bytes : /\ Recv(e, n)
                           /\ bytes_done[e] + n < Bytes
                           /\ bytes_done' = [bytes_done EXCEPT ![e] = @ + n]
                           /\ buf' = [buf EXCEPT ![e] = Incoming(e, n)]
  /\ GoRound(e)
  /\ UNCHANGED <<desc, reset, written, received, broken, discarded, calls>>

ReadLast(e) ==
  /\ pc[e] = "transfer" /\ op[e] = "read_all"
  /\ Recv(e, Bytes - bytes_done[e])
  /\ received' = [received EXCEPT ![e] = Append(@, Incoming(e, Bytes - bytes_done[e]))]
  /\ Leave(e)
  /\ UNCHANGED <<desc, reset, written, broken, discarded, calls>>

(* recv() returns 0: read_all() returns 0, and what it has read is lost.   *)
ReadEnd(e) ==
  /\ pc[e] = "transfer" /\ op[e] = "read_all"
  /\ pipe[Peer(e)] = <<>> /\ desc[Peer(e)] = "closed" /\ ~reset[e]
  /\ discarded' = [discarded EXCEPT ![e] = @ \/ bytes_done[e] > 0]
  /\ Leave(e)
  /\ UNCHANGED <<kernel, written, received, broken, calls>>

(* recv() returns -1: the connection was reset.                            *)
ReadFails(e) == /\ pc[e] = "transfer" /\ op[e] = "read_all"
                /\ reset[e]
                /\ Fail(e)

(* ~tcp_transport(): socket_desc closes the descriptor.                    *)
Close(e) ==
  /\ pc[e] = "idle" /\ desc[e] = "open"
  /\ desc' = [desc EXCEPT ![e] = "closed"]
  /\ reset' = [reset EXCEPT ![Peer(e)] = (pipe[Peer(e)] # <<>>)]
  /\ UNCHANGED <<pipe, pc, call, written, received, broken, discarded, calls>>

-----------------------------------------------------------------------------
Step(e) == \/ Select(e) \/ Tick(e) \/ TimeOut(e)
           \/ WriteSome(e) \/ WriteLast(e) \/ WriteFails(e)
           \/ ReadSome(e) \/ ReadLast(e) \/ ReadEnd(e) \/ ReadFails(e)

Next == \E e \in Ends :
          \/ \E operation \in {"read_all", "write_all"}, withTimeout \in BOOLEAN :
               Call(e, operation, withTimeout)
          \/ Step(e) \/ Blocked(e) \/ Interrupted(e) \/ Close(e)

Spec == Init /\ [][Next]_vars

(* A call that can go on does, and time passes; nobody has to call.        *)
FairSpec == Spec /\ \A e \in Ends : WF_vars(Step(e))

-----------------------------------------------------------------------------
TypeOK == /\ \A e \in Ends : Len(pipe[e]) <= Capacity
          /\ desc \in [Ends -> {"open", "closed"}]
          /\ reset \in [Ends -> BOOLEAN]
          /\ pc \in [Ends -> {"idle", "select", "transfer"}]
          /\ op \in [Ends -> {"none", "read_all", "write_all"}]
          /\ timed \in [Ends -> BOOLEAN]
          /\ timeout \in [Ends -> 0 .. Timeout]
          /\ bytes_done \in [Ends -> 0 .. Bytes - 1]
          /\ \A e \in Ends : Len(buf[e]) = IF op[e] = "read_all" THEN bytes_done[e] ELSE 0

(* The n-th buffer that read_all() returns is the n-th message written,    *)
(* however it was cut on the way and whichever calls timed out, unless one *)
(* of them, at either end, failed in the middle of a message.  Nor does    *)
(* read_all() throw away the beginning of one ("previous read data is      *)
(* partial, discarded"): a peer that writes and closes in good order loses *)
(* nothing.                                                                *)
WholeMessages ==
  \A e \in Ends :
    ~broken[Peer(e)] =>
      /\ \A n \in DOMAIN received[e] : received[e][n] = Message(n)
      /\ ~discarded[e]

(* All the waits of a read_all(timeout) together take no longer than its   *)
(* timeout, in select() and in recv(), even if the peer sends a byte at a  *)
(* time.  Of a write_all(timeout) this is so of the waits in select()      *)
(* only: after each of them send() waits for room for all the rest, as     *)
(* long as the peer likes (transport.cpp:349, 383).                        *)
BudgetKept ==
  \A e \in Ends :
    timed[e] => spent[e] + (IF op[e] = "read_all" THEN stuck[e] ELSE 0) <= Timeout

(* read_all(timeout) returns, whatever the peer does or does not do.       *)
TimedReadReturns ==
  \A e \in Ends : op[e] = "read_all" /\ timed[e] ~> op[e] = "none"

(* A write_all() returns, with or without a timeout, as long as the peer   *)
(* goes on reading, or closes.  (It may not if both ends write at once.)   *)
WriteReturns ==
  \A e \in Ends :
    []<>(op[Peer(e)] = "read_all" \/ desc[Peer(e)] = "closed")
      => (op[e] = "write_all" ~> op[e] = "none")
=============================================================================
