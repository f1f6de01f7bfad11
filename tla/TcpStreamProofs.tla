--------------------------- MODULE TcpStreamProofs ---------------------------
(***************************************************************************)
(* Proofs about write_all() and read_all(), for messages, capacities and   *)
(* timeouts of any size.                                                   *)
(*                                                                         *)
(* The bytes of a direction are numbered by Place.  Flow says that the     *)
(* k-th byte in the pipe is the one k places after what the reader has,    *)
(* and the last of them is where the writer is.                            *)
(***************************************************************************)
EXTENDS TcpStream, SequenceTheorems, TLAPS

Octets == (Nat \ {0}) \X (1 .. Bytes)

(* How many bytes n messages and i bytes are.                              *)
Place(n, i) == n * Bytes + i

Sent(s) == Place(written[s], IF op[s] = "write_all" THEN bytes_done[s] ELSE 0)

Got(r) == Place(Len(received[r]), IF op[r] = "read_all" THEN bytes_done[r] ELSE 0)

(* What the calls keep for themselves, and the descriptors.                *)
Locals == /\ pc \in [Ends -> {"idle", "select", "transfer"}]
          /\ op \in [Ends -> {"none", "read_all", "write_all"}]
          /\ timed \in [Ends -> BOOLEAN]
          /\ timeout \in [Ends -> 0 .. Timeout]
          /\ spent \in [Ends -> Nat]
          /\ stuck \in [Ends -> Nat]
          /\ bytes_done \in [Ends -> 0 .. Bytes - 1]
          /\ desc \in [Ends -> {"open", "closed"}]

(* What is left of a timeout and what was spent are no more than it was.   *)
Calling(e) ==
  /\ pc[e] = "idle" <=> op[e] = "none"
  /\ pc[e] = "idle" => /\ ~timed[e] /\ bytes_done[e] = 0
  /\ desc[e] = "closed" => pc[e] = "idle"
  /\ pc[e] = "select" => timed[e]
  /\ IF timed[e] THEN spent[e] + timeout[e] <= Timeout ELSE spent[e] = 0

CallInv == Locals /\ \A e \in Ends : Calling(e)

(* The bytes, on their way and arrived.                                    *)
Data == /\ pipe \in [Ends -> Seq(Octets)]
        /\ \A e \in Ends : Len(pipe[e]) <= Capacity
        /\ buf \in [Ends -> Seq(Octets)]
        /\ \A e \in Ends : Len(buf[e]) = IF op[e] = "read_all" THEN bytes_done[e] ELSE 0
        /\ written \in [Ends -> Nat]
        /\ received \in [Ends -> Seq(Seq(Octets))]
        /\ reset \in [Ends -> BOOLEAN]
        /\ broken \in [Ends -> BOOLEAN]
        /\ discarded \in [Ends -> BOOLEAN]

(* From s to r, as long as no call on the bytes of s broke off.            *)
Flow(s) ==
  LET r == Peer(s) IN
  ~broken[s] =>
    /\ Got(r) + Len(pipe[s]) = Sent(s)
    /\ \A k \in 1 .. Len(pipe[s]) :
         Place(pipe[s][k][1] - 1, pipe[s][k][2]) = Got(r) + k
    /\ \A i \in 1 .. Len(buf[r]) : buf[r][i] = <<Len(received[r]) + 1, i>>
    /\ \A n \in 1 .. Len(received[r]) : received[r][n] = Message(n)
    /\ ~discarded[r]

StreamInv == CallInv /\ Data /\ \A s \in Ends : Flow(s)

-----------------------------------------------------------------------------

(* The products with the length of a message that the places of bytes are made of. *)
LEMMA Product ==
  ASSUME NEW m \in Nat, NEW n \in Nat, NEW b \in Nat
  PROVE  /\ m * b \in Nat
         /\ (m + 1) * b = m * b + b
         /\ m < n => m * b + b <= n * b
  <1>1. \A d \in Nat : d * b \in Nat
    BY SMTT(30)
  <1>2. (m + 1) * b = m * b + b
    BY SMTT(30)
  <1>3. ASSUME m < n  PROVE m * b + b <= n * b
    <2>1. n - m - 1 \in Nat
      BY <1>3
    <2>2. n * b = (n - m - 1) * b + (m * b + b)
      BY SMTT(30)
    <2> QED
      BY <1>1, <2>1, <2>2
  <1> QED
    BY <1>1, <1>2, <1>3

(* Places are numbers, and the end of a message is the beginning of the next. *)
LEMMA Places ==
  /\ \A n, i \in Nat : Place(n, i) \in Nat
  /\ \A n \in Nat : Place(n, Bytes) = Place(n + 1, 0)
  <1>1. Bytes \in Nat
    BY SizesAssumption
  <1>2. \A n \in Nat : n * Bytes \in Nat /\ (n + 1) * Bytes = n * Bytes + Bytes
    BY <1>1, Product
  <1> QED
    BY <1>1, <1>2 DEF Place

(* Places in one message are as far apart as their indexes. *)
LEMMA Farther ==
  ASSUME NEW n \in Nat, NEW i \in Nat, NEW j \in Nat
  PROVE  Place(n, j) = Place(n, i) + (j - i)
  <1>1. n * Bytes \in Nat
    BY SizesAssumption, Product
  <1> QED
    BY <1>1 DEF Place

(* The place tells the message, and which of its bytes.                    *)
LEMMA OnePlace ==
  ASSUME NEW m \in Nat, NEW n \in Nat,
         NEW i \in Nat, NEW j \in Nat,
         i \in 1 .. Bytes /\ j \in 1 .. Bytes,
         Place(m, i) = Place(n, j)
  PROVE  m = n /\ i = j
  <1>1. Bytes \in Nat
    BY SizesAssumption
  <1>2. m * Bytes \in Nat /\ n * Bytes \in Nat
    BY <1>1, Product
  <1>3. m < n => m * Bytes + Bytes <= n * Bytes
    BY <1>1, Product
  <1>4. n < m => n * Bytes + Bytes <= m * Bytes
    BY <1>1, Product
  <1>5. m * Bytes + i = n * Bytes + j
    BY DEF Place
  <1>6. ~(m < n) /\ ~(n < m)
    BY <1>1, <1>2, <1>3, <1>4, <1>5
  <1> QED
    BY <1>2, <1>5, <1>6

(* There are two ends, each the other's peer. *)
LEMMA TwoEnds ==
  ASSUME NEW e \in Ends
  PROVE  /\ Peer(e) \in Ends /\ Peer(e) # e /\ Peer(Peer(e)) = e
         /\ \A s \in Ends : s = e \/ s = Peer(e)
  <1>1. PICK a, b \in Ends : a # b /\ Ends = {a, b}
    BY EndsAssumption
  <1>2. \A x \in Ends : Peer(x) \in Ends /\ Peer(x) # x
    BY <1>1 DEF Peer
  <1> QED
    BY <1>1, <1>2

-----------------------------------------------------------------------------

(* What is at most the smaller of two is at most each. *)
LEMMA Smaller ==
  ASSUME NEW m \in Int, NEW n \in Int, NEW k \in 1 .. Least(m, n)
  PROVE  k <= m /\ k <= n
  BY DEF Least

(* A call that ends leaves nothing to account for. *)
LEMMA LeaveKeeps ==
  ASSUME NEW e \in Ends, Leave(e), CallInv,
         UNCHANGED desc, pc[e] # "idle"
  PROVE  CallInv'
  <1>. /\ Timeout \in Nat /\ Bytes \in Nat \ {0}
    BY SizesAssumption
  <1>. Locals /\ \A x \in Ends : Calling(x)
    BY DEF CallInv
  <1>1. Locals'
    BY DEF Leave, Locals
  <1>2. ASSUME NEW x \in Ends  PROVE Calling(x)'
    BY DEF Leave, Locals, Calling
  <1> QED
    BY <1>1, <1>2 DEF CallInv

(* Every step keeps the accounts of the calls. *)
LEMMA CallsKept ==
  ASSUME CallInv, Next
  PROVE  CallInv'
  <1>. /\ Timeout \in Nat /\ Bytes \in Nat \ {0}
    BY SizesAssumption
  <1>. Locals /\ \A x \in Ends : Calling(x)
    BY DEF CallInv
  <1>. PICK e \in Ends :
         \/ \E operation \in {"read_all", "write_all"}, withTimeout \in BOOLEAN :
              Call(e, operation, withTimeout)
         \/ Step(e) \/ Blocked(e) \/ Interrupted(e) \/ Close(e)
    BY DEF Next
  <1>1. CASE \E operation \in {"read_all", "write_all"}, withTimeout \in BOOLEAN :
               Call(e, operation, withTimeout)
    <2>. PICK operation \in {"read_all", "write_all"}, withTimeout \in BOOLEAN :
           Call(e, operation, withTimeout)
      BY <1>1
    <2>1. Locals'
      BY DEF Call, Locals, kernel
    <2>2. ASSUME NEW x \in Ends  PROVE Calling(x)'
      BY DEF Call, Locals, Calling, kernel
    <2> QED
      BY <2>1, <2>2 DEF CallInv
  <1>2. CASE Select(e)
    <2>. PICK lost \in 0 .. Least(1, timeout[e]) :
           timeout' = [timeout EXCEPT ![e] = @ - lost]
      BY <1>2 DEF Select
    <2>0. /\ timeout[e] \in 0 .. Timeout
          /\ timeout[e] - lost \in 0 .. timeout[e]
      BY DEF Locals, Least
    <2>1. Locals'
      BY <1>2, <2>0 DEF Select, Locals, kernel
    <2>2. ASSUME NEW x \in Ends  PROVE Calling(x)'
      BY <1>2, <2>0 DEF Select, Locals, Calling, kernel
    <2> QED
      BY <2>1, <2>2 DEF CallInv
  <1>3. CASE Tick(e)
    <2>1. Locals'
      BY <1>3 DEF Tick, Locals, kernel
    <2>2. ASSUME NEW x \in Ends  PROVE Calling(x)'
      BY <1>3 DEF Tick, Locals, Calling, kernel
    <2> QED
      BY <2>1, <2>2 DEF CallInv
  <1>4. CASE TimeOut(e) \/ Interrupted(e) \/ WriteFails(e) \/ ReadFails(e)
    BY <1>4, LeaveKeeps
       DEF TimeOut, Interrupted, WriteFails, ReadFails, Fail, kernel
  <1>5. CASE WriteLast(e) \/ ReadLast(e) \/ ReadEnd(e)
    BY <1>5, LeaveKeeps DEF WriteLast, ReadLast, ReadEnd, kernel
  <1>6. CASE WriteSome(e) \/ ReadSome(e)
    <2>1. PICK n \in 1 .. Bytes :
            /\ bytes_done[e] + n < Bytes
            /\ bytes_done' = [bytes_done EXCEPT ![e] = @ + n]
      BY <1>6 DEF WriteSome, ReadSome
    <2>2. /\ UNCHANGED <<desc, op, timed, timeout, spent, stuck>>
          /\ \/ UNCHANGED pc
             \/ pc' = [pc EXCEPT ![e] = IF timed[e] THEN "select" ELSE "transfer"]
          /\ pc[e] = "transfer"
      BY <1>6 DEF WriteSome, ReadSome, GoRound
    <2>3. Locals'
      BY <2>1, <2>2 DEF Locals
    <2>4. ASSUME NEW x \in Ends  PROVE Calling(x)'
      BY <2>1, <2>2 DEF Locals, Calling
    <2> QED
      BY <2>3, <2>4 DEF CallInv
  <1>7. CASE Close(e)
    <2>1. Locals'
      BY <1>7 DEF Close, Locals, call
    <2>2. ASSUME NEW x \in Ends  PROVE Calling(x)'
      BY <1>7 DEF Close, Locals, Calling, call
    <2> QED
      BY <2>1, <2>2 DEF CallInv
  <1>8. CASE Blocked(e)
    <2>1. Locals'
      BY <1>8 DEF Blocked, Locals, kernel
    <2>2. ASSUME NEW x \in Ends  PROVE Calling(x)'
      BY <1>8 DEF Blocked, Locals, Calling, kernel
    <2> QED
      BY <2>1, <2>2 DEF CallInv
  <1> QED
    BY <1>1, <1>2, <1>3, <1>4, <1>5, <1>6, <1>7, <1>8 DEF Step

-----------------------------------------------------------------------------

(* A part of a sequence: its length and elements. *)
LEMMA Slice ==
  ASSUME NEW S, NEW s \in Seq(S), NEW m \in Nat, NEW n \in Nat,
         m <= n, n <= Len(s)
  PROVE  /\ SubSeq(s, m + 1, n) \in Seq(S)
         /\ Len(SubSeq(s, m + 1, n)) = n - m
         /\ \A k \in 1 .. n - m : SubSeq(s, m + 1, n)[k] = s[m + k]
  <1>1. \A i \in m + 1 .. n : s[i] \in S
    BY ElementOfSeq
  <1>2. /\ SubSeq(s, m + 1, n) \in Seq(S)
        /\ Len(SubSeq(s, m + 1, n)) = IF m + 1 <= n THEN n - (m + 1) + 1 ELSE 0
        /\ \A i \in 1 .. n - (m + 1) + 1 :
             SubSeq(s, m + 1, n)[i] = s[(m + 1) + i - 1]
    BY <1>1, SubSeqProperties
  <1>3. \A k \in 1 .. n - m : (m + 1) + k - 1 = m + k
    OBVIOUS
  <1>4. n - (m + 1) + 1 = n - m
    OBVIOUS
  <1> QED
    BY <1>2, <1>3, <1>4

(* Two sequences, one after the other: length and elements. *)
LEMMA Join ==
  ASSUME NEW S, NEW s \in Seq(S), NEW t \in Seq(S)
  PROVE  /\ s \o t \in Seq(S)
         /\ Len(s \o t) = Len(s) + Len(t)
         /\ \A k \in 1 .. Len(s) : (s \o t)[k] = s[k]
         /\ \A k \in 1 .. Len(t) : (s \o t)[Len(s) + k] = t[k]
  <1>1. Len(s) \in Nat /\ Len(t) \in Nat
    BY LenProperties
  <1> QED
    BY <1>1, ConcatProperties

(* What send() adds to the pipe: the next n bytes of the message. *)
LEMMA SendAdds ==
  ASSUME CallInv, Data, NEW e \in Ends, NEW n \in Nat, Send(e, n)
  PROVE  /\ n \in 1 .. (Bytes - bytes_done[e])
         /\ pipe' = [pipe EXCEPT ![e] = pipe'[e]]
         /\ pipe'[e] \in Seq(Octets)
         /\ Len(pipe'[e]) = Len(pipe[e]) + n
         /\ Len(pipe'[e]) <= Capacity
         /\ \A k \in 1 .. Len(pipe[e]) : pipe'[e][k] = pipe[e][k]
         /\ \A k \in 1 .. n :
              pipe'[e][Len(pipe[e]) + k] = <<written[e] + 1, bytes_done[e] + k>>
  <1>. /\ Capacity \in Nat /\ Bytes \in Nat
    BY SizesAssumption
  <1>0. /\ bytes_done[e] \in 0 .. Bytes - 1 /\ written[e] \in Nat
        /\ pipe \in [Ends -> Seq(Octets)]
    BY DEF CallInv, Locals, Data
  <1>1. n \in 1 .. (Bytes - bytes_done[e]) /\ n <= Capacity - Len(pipe[e])
    <2>1. n \in 1 .. Least(Bytes - bytes_done[e], Capacity - Len(pipe[e]))
      BY DEF Send
    <2>2. PICK i \in Int, j \in Int : i = Bytes - bytes_done[e] /\ j = Capacity - Len(pipe[e])
      <3>1. pipe[e] \in Seq(Octets) /\ bytes_done[e] \in Int
        BY <1>0
      <3>2. Len(pipe[e]) \in Int
        BY <3>1, LenProperties
      <3>3. (Bytes - bytes_done[e]) \in Int
        BY <3>1
      <3>4. (Capacity - Len(pipe[e])) \in Int
        BY <3>2
      <3> QED
        BY <3>3, <3>4, Zenon
    <2>3. n <= i /\ n <= j
      BY <2>1, <2>2, Smaller
    <2> QED
      BY <1>0, <2>1, <2>2, <2>3
  <1>. DEFINE M == Message(written[e] + 1)
              Part == SubSeq(M, bytes_done[e] + 1, bytes_done[e] + n)
  <1>2. /\ M \in Seq(Octets) /\ Len(M) = Bytes
        /\ \A i \in 1 .. Bytes : M[i] = <<written[e] + 1, i>>
    BY <1>0, SMTT(30) DEF Message, Octets
  <1>3. pipe' = [pipe EXCEPT ![e] = @ \o Part]
    BY DEF Send
  <1>. HIDE DEF M
  <1>4. /\ Part \in Seq(Octets) /\ Len(Part) = n
        /\ \A k \in 1 .. n : Part[k] = M[bytes_done[e] + k]
    <2>1. PICK m \in Nat, q \in Nat :
            m = bytes_done[e] /\ q = bytes_done[e] + n /\ n <= Bytes - m /\ q = m + n
      BY <1>0, <1>1
    <2>2. m <= q /\ q <= Bytes /\ q - m = n
      BY <2>1
    <2>3. /\ SubSeq(M, m + 1, q) \in Seq(Octets) /\ Len(SubSeq(M, m + 1, q)) = q - m
          /\ \A k \in 1 .. q - m : SubSeq(M, m + 1, q)[k] = M[m + k]
      BY <1>2, <2>2, Slice
    <2> QED
      BY <2>1, <2>2, <2>3
  <1>. HIDE DEF Part
  <1>6. ASSUME NEW k \in 1 .. n
        PROVE  Part[k] = <<written[e] + 1, bytes_done[e] + k>>
    <2>1. bytes_done[e] + k \in 1 .. Bytes
      BY <1>0, <1>1
    <2> QED
      BY <1>2, <1>4, <2>1
  <1>7. pipe'[e] = pipe[e] \o Part
    BY <1>0, <1>3
  <1>8. pipe' = [pipe EXCEPT ![e] = pipe'[e]]
    BY <1>0, <1>3, <1>7
  <1>9. /\ pipe'[e] \in Seq(Octets)
        /\ Len(pipe'[e]) = Len(pipe[e]) + n
        /\ \A k \in 1 .. Len(pipe[e]) : pipe'[e][k] = pipe[e][k]
        /\ \A k \in 1 .. n : pipe'[e][Len(pipe[e]) + k] = Part[k]
    <2>1. PICK s \in Seq(Octets), t \in Seq(Octets) : s = pipe[e] /\ t = Part
      BY <1>0, <1>4
    <2>2. /\ s \o t \in Seq(Octets)
          /\ Len(s \o t) = Len(s) + Len(t)
          /\ \A k \in 1 .. Len(s) : (s \o t)[k] = s[k]
          /\ \A k \in 1 .. Len(t) : (s \o t)[Len(s) + k] = t[k]
      BY Join
    <2> QED
      BY <1>0, <1>4, <1>7, <2>1, <2>2
  <1>10. Len(pipe[e]) + n <= Capacity
    BY <1>0, <1>1
  <1> QED
    BY <1>1, <1>6, <1>8, <1>9, <1>10

(* What recv() takes from the pipe, and what read_all() then has. *)
LEMMA RecvTakes ==
  ASSUME CallInv, Data, NEW e \in Ends, NEW p \in Ends, p = Peer(e),
         NEW n \in Nat, Recv(e, n), op[e] = "read_all"
  PROVE  /\ n \in 1 .. (Bytes - bytes_done[e]) /\ n <= Len(pipe[p])
         /\ pipe' = [pipe EXCEPT ![p] = pipe'[p]]
         /\ pipe'[p] \in Seq(Octets)
         /\ Len(pipe'[p]) = Len(pipe[p]) - n
         /\ Len(pipe'[p]) <= Capacity
         /\ \A k \in 1 .. Len(pipe'[p]) : pipe'[p][k] = pipe[p][n + k]
         /\ Incoming(e, n) \in Seq(Octets)
         /\ Len(Incoming(e, n)) = bytes_done[e] + n
         /\ \A k \in 1 .. bytes_done[e] : Incoming(e, n)[k] = buf[e][k]
         /\ \A k \in 1 .. n : Incoming(e, n)[bytes_done[e] + k] = pipe[p][k]
  <1>. Bytes \in Nat /\ Capacity \in Nat
    BY SizesAssumption
  <1>. /\ bytes_done[e] \in 0 .. Bytes - 1 /\ buf[e] \in Seq(Octets)
       /\ Len(buf[e]) = bytes_done[e]
       /\ pipe \in [Ends -> Seq(Octets)] /\ Len(pipe[p]) <= Capacity
    BY DEF CallInv, Locals, Data
  <1>1. n \in 1 .. (Bytes - bytes_done[e]) /\ n <= Len(pipe[p])
    <2>1. n \in 1 .. Least(Bytes - bytes_done[e], Len(pipe[p]))
      BY DEF Recv
    <2>2. PICK i \in Int, j \in Int : i = Bytes - bytes_done[e] /\ j = Len(pipe[p])
      OBVIOUS
    <2>3. n <= i /\ n <= j
      BY <2>1, <2>2, Smaller
    <2> QED
      BY <2>1, <2>2, <2>3
  <1>2. pipe' = [pipe EXCEPT ![p] = SubSeq(@, n + 1, Len(@))]
    BY DEF Recv
  <1>3. pipe'[p] = SubSeq(pipe[p], n + 1, Len(pipe[p]))
    BY <1>2
  <1>4. pipe' = [pipe EXCEPT ![p] = pipe'[p]]
    BY <1>2, <1>3
  <1>5. /\ pipe'[p] \in Seq(Octets)
        /\ Len(pipe'[p]) = Len(pipe[p]) - n
        /\ \A k \in 1 .. Len(pipe'[p]) : pipe'[p][k] = pipe[p][n + k]
    BY <1>1, <1>3, Slice
  <1>. DEFINE Part == SubSeq(pipe[p], 1, n)
  <1>6. Part \in Seq(Octets) /\ Len(Part) = n /\ \A k \in 1 .. n : Part[k] = pipe[p][k]
    BY <1>1, Slice
  <1>7. Incoming(e, n) = buf[e] \o Part
    BY DEF Incoming
  <1>. HIDE DEF Part
  <1>8. /\ Incoming(e, n) \in Seq(Octets)
        /\ Len(Incoming(e, n)) = bytes_done[e] + n
        /\ \A k \in 1 .. bytes_done[e] : Incoming(e, n)[k] = buf[e][k]
        /\ \A k \in 1 .. n : Incoming(e, n)[bytes_done[e] + k] = Part[k]
    <2>1. PICK s \in Seq(Octets), t \in Seq(Octets) : s = buf[e] /\ t = Part
      BY <1>6
    <2>2. /\ s \o t \in Seq(Octets)
          /\ Len(s \o t) = Len(s) + Len(t)
          /\ \A k \in 1 .. Len(s) : (s \o t)[k] = s[k]
          /\ \A k \in 1 .. Len(t) : (s \o t)[Len(s) + k] = t[k]
      BY Join
    <2> QED
      BY <1>6, <1>7, <2>1, <2>2
  <1>9. Len(pipe[p]) - n <= Capacity
    BY <1>1
  <1> QED
    BY <1>1, <1>4, <1>5, <1>6, <1>8, <1>9

(* A step that changes one pipe, within its capacity, keeps the types of both. *)
LEMMA PipesKept ==
  ASSUME Data, NEW x \in Ends, pipe' = [pipe EXCEPT ![x] = pipe'[x]],
         pipe'[x] \in Seq(Octets), Len(pipe'[x]) <= Capacity
  PROVE  /\ pipe' \in [Ends -> Seq(Octets)]
         /\ \A y \in Ends : Len(pipe'[y]) <= Capacity
  <1>1. PICK q \in Seq(Octets) : q = pipe'[x]
    OBVIOUS
  <1> QED
    BY <1>1 DEF Data

(* A call that ends leaves its buffer empty. *)
LEMMA BufsKept ==
  ASSUME CallInv, Data, NEW e \in Ends, Leave(e)
  PROVE  /\ buf' \in [Ends -> Seq(Octets)]
         /\ \A x \in Ends : Len(buf'[x]) = IF op'[x] = "read_all" THEN bytes_done'[x] ELSE 0
  <1>1. \A x \in Ends : x # e => /\ op'[x] = op[x] /\ bytes_done'[x] = bytes_done[x]
                                 /\ buf'[x] = buf[x]
    BY DEF Leave, CallInv, Locals, Data
  <1>2. op'[e] = "none" /\ buf'[e] = <<>>
    BY DEF Leave, CallInv, Locals, Data
  <1>3. buf' \in [Ends -> Seq(Octets)]
    BY DEF Leave, Data
  <1>4. \A x \in Ends : Len(buf[x]) = IF op[x] = "read_all" THEN bytes_done[x] ELSE 0
    BY DEF Data
  <1>5. Len(buf'[e]) = 0
    BY <1>2
  <1> QED
    BY <1>1, <1>2, <1>3, <1>4, <1>5

(* Every step keeps the types of the data. *)
LEMMA DataKept ==
  ASSUME CallInv, Data, Next
  PROVE  Data'
  <1>. /\ Capacity \in Nat /\ Bytes \in Nat \ {0}
    BY SizesAssumption
  <1>. PICK e \in Ends :
         \/ \E operation \in {"read_all", "write_all"}, withTimeout \in BOOLEAN :
              Call(e, operation, withTimeout)
         \/ Step(e) \/ Blocked(e) \/ Interrupted(e) \/ Close(e)
    BY DEF Next
  <1>0. /\ Peer(e) \in Ends /\ bytes_done[e] \in 0 .. Bytes - 1
        /\ op \in [Ends -> {"none", "read_all", "write_all"}]
        /\ bytes_done \in [Ends -> 0 .. Bytes - 1]
        /\ op[e] = "none" => bytes_done[e] = 0
    BY TwoEnds DEF CallInv, Locals, Calling
  <1>1. CASE \E operation \in {"read_all", "write_all"}, withTimeout \in BOOLEAN :
               Call(e, operation, withTimeout)
    <2>1. op[e] = "none"
      BY <1>1 DEF Call, CallInv, Calling
    <2> QED
      BY <1>0, <1>1, <2>1, SMTT(30) DEF Call, Data, kernel
  <1>2. CASE Select(e) \/ Tick(e) \/ Blocked(e)
    BY <1>2 DEF Select, Tick, Blocked, Data, kernel
  <1>3. CASE TimeOut(e) \/ Interrupted(e) \/ WriteFails(e) \/ ReadFails(e)
    <2>1. Fail(e)
      BY <1>3 DEF TimeOut, Interrupted, WriteFails, ReadFails
    <2>2. Leave(e) /\ UNCHANGED <<pipe, written, received, reset, discarded>>
      BY <2>1 DEF Fail, kernel
    <2>3. broken' \in [Ends -> BOOLEAN]
      BY <2>1 DEF Fail, Data
    <2>4. /\ buf' \in [Ends -> Seq(Octets)]
          /\ \A x \in Ends : Len(buf'[x]) = IF op'[x] = "read_all" THEN bytes_done'[x] ELSE 0
      BY <2>2, BufsKept
    <2>5. /\ pipe' \in [Ends -> Seq(Octets)]
          /\ \A x \in Ends : Len(pipe'[x]) <= Capacity
          /\ written' \in [Ends -> Nat]
          /\ received' \in [Ends -> Seq(Seq(Octets))]
          /\ reset' \in [Ends -> BOOLEAN]
          /\ discarded' \in [Ends -> BOOLEAN]
      BY <2>2 DEF Data
    <2> QED
      BY <2>3, <2>4, <2>5 DEF Data
  <1>4. CASE WriteSome(e)
    <2>1. PICK n \in 1 .. Bytes : Send(e, n) /\ bytes_done' = [bytes_done EXCEPT ![e] = @ + n]
      BY <1>4 DEF WriteSome
    <2>2. /\ pipe' \in [Ends -> Seq(Octets)]
          /\ \A x \in Ends : Len(pipe'[x]) <= Capacity
      BY <2>1, SendAdds, PipesKept
    <2>3. /\ op[e] = "write_all"
          /\ UNCHANGED <<op, buf, reset, written, received, broken, discarded>>
      BY <1>4 DEF WriteSome, GoRound
    <2>4. \A x \in Ends : Len(buf'[x]) = IF op'[x] = "read_all" THEN bytes_done'[x] ELSE 0
      BY <1>0, <2>1, <2>3 DEF Data
    <2>5. /\ buf' \in [Ends -> Seq(Octets)]
          /\ written' \in [Ends -> Nat]
          /\ received' \in [Ends -> Seq(Seq(Octets))]
          /\ reset' \in [Ends -> BOOLEAN]
          /\ broken' \in [Ends -> BOOLEAN]
          /\ discarded' \in [Ends -> BOOLEAN]
      BY <2>3 DEF Data
    <2> QED
      BY <2>2, <2>4, <2>5 DEF Data
  <1>5. CASE WriteLast(e)
    <2>1. PICK n \in Nat : n = Bytes - bytes_done[e]
      BY <1>0
    <2>2. /\ Send(e, n) /\ Leave(e) /\ UNCHANGED <<reset, received, broken, discarded>>
          /\ written' = [written EXCEPT ![e] = @ + 1]
      BY <1>5, <2>1 DEF WriteLast
    <2>3. /\ pipe' \in [Ends -> Seq(Octets)]
          /\ \A x \in Ends : Len(pipe'[x]) <= Capacity
      BY <2>2, SendAdds, PipesKept
    <2>4. written' \in [Ends -> Nat]
      BY <2>2 DEF Data
    <2>5. /\ buf' \in [Ends -> Seq(Octets)]
          /\ \A x \in Ends : Len(buf'[x]) = IF op'[x] = "read_all" THEN bytes_done'[x] ELSE 0
      BY <2>2, BufsKept
    <2>6. /\ received' \in [Ends -> Seq(Seq(Octets))]
          /\ reset' \in [Ends -> BOOLEAN]
          /\ broken' \in [Ends -> BOOLEAN]
          /\ discarded' \in [Ends -> BOOLEAN]
      BY <2>2 DEF Data
    <2> QED
      BY <2>3, <2>4, <2>5, <2>6 DEF Data
  <1>6. CASE ReadSome(e)
    <2>1. PICK n \in 1 .. Bytes : /\ Recv(e, n)
                                  /\ bytes_done' = [bytes_done EXCEPT ![e] = @ + n]
                                  /\ buf' = [buf EXCEPT ![e] = Incoming(e, n)]
      BY <1>6 DEF ReadSome
    <2>2. PICK p \in Ends : p = Peer(e)
      BY <1>0
    <2>3. /\ op[e] = "read_all"
          /\ UNCHANGED <<op, reset, written, received, broken, discarded>>
      BY <1>6 DEF ReadSome, GoRound
    <2>4. /\ pipe' = [pipe EXCEPT ![p] = pipe'[p]]
          /\ pipe'[p] \in Seq(Octets) /\ Len(pipe'[p]) <= Capacity
          /\ Incoming(e, n) \in Seq(Octets)
          /\ Len(Incoming(e, n)) = bytes_done[e] + n
      BY <2>1, <2>2, <2>3, RecvTakes
    <2>5. /\ pipe' \in [Ends -> Seq(Octets)]
          /\ \A x \in Ends : Len(pipe'[x]) <= Capacity
      BY <2>4, PipesKept
    <2>6. /\ buf' \in [Ends -> Seq(Octets)]
          /\ \A x \in Ends : Len(buf'[x]) = IF op[x] = "read_all" THEN bytes_done'[x] ELSE 0
      BY <1>0, <2>1, <2>3, <2>4 DEF Data
    <2> QED
      BY <2>3, <2>5, <2>6 DEF Data
  <1>7. CASE ReadLast(e)
    <2>1. PICK n \in Nat : n = Bytes - bytes_done[e]
      BY <1>0
    <2>2. PICK p \in Ends : p = Peer(e)
      BY <1>0
    <2>3. /\ op[e] = "read_all" /\ Recv(e, n)
          /\ received' = [received EXCEPT ![e] = Append(@, Incoming(e, n))]
          /\ Leave(e) /\ UNCHANGED <<reset, written, broken, discarded>>
      BY <1>7, <2>1 DEF ReadLast
    <2>4. /\ pipe' = [pipe EXCEPT ![p] = pipe'[p]]
          /\ pipe'[p] \in Seq(Octets) /\ Len(pipe'[p]) <= Capacity
          /\ Incoming(e, n) \in Seq(Octets)
      BY <2>2, <2>3, RecvTakes
    <2>5. /\ pipe' \in [Ends -> Seq(Octets)]
          /\ \A x \in Ends : Len(pipe'[x]) <= Capacity
      BY <2>4, PipesKept
    <2>6. received' \in [Ends -> Seq(Seq(Octets))]
      BY <2>3, <2>4 DEF Data
    <2>7. /\ buf' \in [Ends -> Seq(Octets)]
          /\ \A x \in Ends : Len(buf'[x]) = IF op'[x] = "read_all" THEN bytes_done'[x] ELSE 0
      BY <2>3, BufsKept
    <2> QED
      BY <2>3, <2>5, <2>6, <2>7 DEF Data
  <1>8. CASE ReadEnd(e)
    <2>1. discarded' \in [Ends -> BOOLEAN]
      BY <1>8 DEF ReadEnd, Data
    <2> QED
      BY <1>0, <1>8, <2>1 DEF ReadEnd, Leave, Data, kernel
  <1>9. CASE Close(e)
    <2>1. reset' \in [Ends -> BOOLEAN]
      BY <1>9 DEF Close, Data
    <2> QED
      BY <1>9, <2>1 DEF Close, Data, call
  <1> QED
    BY <1>1, <1>2, <1>3, <1>4, <1>5, <1>6, <1>7, <1>8, <1>9 DEF Step

-----------------------------------------------------------------------------

(* A step that leaves a direction alone, or breaks it, keeps its order. *)
LEMMA Undisturbed ==
  ASSUME NEW s \in Ends, NEW r, r = Peer(s), Flow(s),
         broken'[s] \/ /\ ~broken[s] /\ pipe'[s] = pipe[s]
                       /\ Sent(s)' = Sent(s) /\ Got(r)' = Got(r)
                       /\ received'[r] = received[r]
                       /\ buf'[r] \in {buf[r], <<>>}
                       /\ discarded'[r] = discarded[r]
  PROVE  Flow(s)'
  <1>1. Len(<<>>) = 0
    OBVIOUS
  <1> QED
    BY <1>1, SMTT(30) DEF Flow

(* The quantities that are compared are numbers. *)
LEMMA Measures ==
  ASSUME CallInv, Data, NEW x \in Ends
  PROVE  /\ bytes_done[x] \in Nat /\ bytes_done[x] < Bytes
         /\ written[x] \in Nat /\ Len(received[x]) \in Nat
         /\ pipe[x] \in Seq(Octets) /\ Len(pipe[x]) \in Nat
         /\ Got(x) \in Nat /\ Sent(x) \in Nat /\ Bytes \in Nat
  <1>1. Bytes \in Nat
    BY SizesAssumption
  <1>2. bytes_done[x] \in Nat /\ bytes_done[x] < Bytes
    BY <1>1 DEF CallInv, Locals
  <1>3. received[x] \in Seq(Seq(Octets)) /\ pipe[x] \in Seq(Octets) /\ written[x] \in Nat
    BY DEF Data
  <1>4. Len(received[x]) \in Nat /\ Len(pipe[x]) \in Nat
    BY <1>3, LenProperties
  <1>5. Got(x) \in Nat /\ Sent(x) \in Nat
    BY <1>2, <1>3, <1>4, Places DEF Got, Sent
  <1> QED
    BY <1>1, <1>2, <1>3, <1>4, <1>5

(* A send() of the n bytes that follow.                                    *)
LEMMA FlowWrite ==
  ASSUME CallInv, Data, NEW e \in Ends, NEW r \in Ends, r = Peer(e), Flow(e),
         NEW n \in Nat, Send(e, n), op[e] = "write_all",
         Sent(e)' = Sent(e) + n, Got(r)' = Got(r),
         broken'[e] = broken[e], received'[r] = received[r], buf'[r] = buf[r],
         discarded'[r] = discarded[r]
  PROVE  Flow(e)'
  <1>0. PICK l \in Nat, w \in Nat, b \in Nat, g \in Nat :
         l = Len(pipe[e]) /\ w = written[e] /\ b = bytes_done[e] /\ g = Got(r)
    BY Measures
  <1>. SUFFICES ASSUME ~broken[e]  PROVE Flow(e)'
    BY DEF Flow
  <1>1. /\ Len(pipe'[e]) = l + n
        /\ \A k \in 1 .. l : pipe'[e][k] = pipe[e][k]
        /\ \A k \in 1 .. n : pipe'[e][l + k] = <<w + 1, b + k>>
    BY <1>0, SendAdds
  <1>2. /\ g + l = Place(w, b)
        /\ \A k \in 1 .. l : Place(pipe[e][k][1] - 1, pipe[e][k][2]) = g + k
    BY <1>0 DEF Flow, Sent
  <1>3. ASSUME NEW k \in 1 .. (l + n)
        PROVE  Place(pipe'[e][k][1] - 1, pipe'[e][k][2]) = g + k
    <2>1. CASE k \in 1 .. l
      BY <1>1, <1>2, <2>1
    <2>2. CASE k \notin 1 .. l
      <3>1. PICK i \in 1 .. n : k = l + i
        <4>1. k - l \in 1 .. n /\ k = l + (k - l)
          BY <2>2
        <4> QED
          BY <4>1
      <3>2. pipe'[e][k] = <<w + 1, b + i>>
        BY <1>1, <3>1
      <3>3. pipe'[e][k][1] - 1 = w /\ pipe'[e][k][2] = b + i
        BY <3>2
      <3>4. Place(w, b + i) = Place(w, b) + ((b + i) - b)
        BY <3>1, Farther
      <3>5. (g + l) + ((b + i) - b) = g + k
        BY <3>1
      <3> QED
        BY <1>2, <3>3, <3>4, <3>5
    <2> QED
      BY <2>1, <2>2
  <1>4. g + (l + n) = Sent(e)'
    BY <1>0, <1>2 DEF Flow, Sent
  <1> QED
    BY <1>0, <1>1, <1>3, <1>4 DEF Flow

(* What recv() gives continues the message that the reader is in ...       *)
LEMMA FlowsIn ==
  ASSUME CallInv, Data, NEW e \in Ends, NEW p \in Ends, p = Peer(e), e = Peer(p),
         Flow(p), ~broken[p], NEW n \in Nat, Recv(e, n), op[e] = "read_all"
  PROVE  \A i \in 1 .. (bytes_done[e] + n) :
           Incoming(e, n)[i] = <<Len(received[e]) + 1, i>>
  <1>0. PICK l \in Nat, b \in Nat, c \in Nat :
         l = Len(pipe[p]) /\ b = bytes_done[e] /\ c = Len(received[e])
    BY Measures
  <1>1. Bytes \in Nat /\ Len(buf[e]) = b
    BY <1>0, SizesAssumption DEF Data
  <1>2. /\ n <= Bytes - b /\ n <= l
        /\ \A k \in 1 .. b : Incoming(e, n)[k] = buf[e][k]
        /\ \A k \in 1 .. n : Incoming(e, n)[b + k] = pipe[p][k]
    <2>1. /\ n \in 1 .. (Bytes - bytes_done[e]) /\ n <= Len(pipe[p])
          /\ \A k \in 1 .. bytes_done[e] : Incoming(e, n)[k] = buf[e][k]
          /\ \A k \in 1 .. n : Incoming(e, n)[bytes_done[e] + k] = pipe[p][k]
      BY RecvTakes, SMTT(60)
    <2>2. n \in 1 .. (Bytes - b) /\ n <= l
      BY <1>0, <2>1, Zenon
    <2>3. /\ \A k \in 1 .. b : Incoming(e, n)[k] = buf[e][k]
          /\ \A k \in 1 .. n : Incoming(e, n)[b + k] = pipe[p][k]
      BY <1>0, <2>1, Zenon
    <2> QED
      BY <1>1, <2>2, <2>3
  <1>3. ASSUME NEW k \in 1 .. n
        PROVE  pipe[p][k] = <<c + 1, b + k>>
    <2>1. k \in 1 .. l /\ b + k \in 1 .. Bytes /\ b + k \in Nat
      BY <1>1, <1>2
    <2>2. PICK m \in Nat, j \in 1 .. Bytes : pipe[p][k] = <<m + 1, j>>
      <3>1. pipe[p][k] \in Octets
        BY <1>0, <2>1, Measures, ElementOfSeq
      <3>2. PICK m1 \in Nat \ {0}, j \in 1 .. Bytes : pipe[p][k] = <<m1, j>>
        BY <3>1 DEF Octets
      <3>3. m1 - 1 \in Nat /\ (m1 - 1) + 1 = m1
        OBVIOUS
      <3> QED
        BY <3>2, <3>3
    <2>3. Place(m, j) = Got(e) + k
      <3>1. Place(pipe[p][k][1] - 1, pipe[p][k][2]) = Got(e) + k
        BY <1>0, <2>1 DEF Flow
      <3>2. pipe[p][k][1] - 1 = m /\ pipe[p][k][2] = j
        BY <2>2
      <3> QED
        BY <3>1, <3>2
    <2>4. Got(e) = Place(c, b)
      BY <1>0 DEF Got
    <2>5. Place(c, b + k) = Place(c, b) + k
      <3>1. Place(c, b + k) = Place(c, b) + ((b + k) - b)
        BY <2>1, Farther
      <3>2. (b + k) - b = k
        OBVIOUS
      <3> QED
        BY <3>1, <3>2
    <2>6. m = c /\ j = b + k
      <3>1. j \in Nat /\ Place(m, j) = Place(c, b + k)
        BY <1>1, <2>3, <2>4, <2>5
      <3> QED
        BY <2>1, <3>1, OnePlace
    <2> QED
      BY <2>2, <2>6
  <1>4. \A i \in 1 .. b : buf[e][i] = <<c + 1, i>>
    BY <1>0, <1>1 DEF Flow
  <1>5. ASSUME NEW i \in 1 .. (b + n)
        PROVE  Incoming(e, n)[i] = <<c + 1, i>>
    <2>1. CASE i \in 1 .. b
      BY <1>2, <1>4, <2>1
    <2>2. CASE i \notin 1 .. b
      <3>1. PICK k \in 1 .. n : i = b + k
        <4>1. i - b \in 1 .. n /\ i = b + (i - b)
          BY <2>2
        <4> QED
          BY <4>1
      <3> QED
        BY <1>2, <1>3, <3>1
    <2> QED
      BY <2>1, <2>2
  <1> QED
    BY <1>0, <1>5

(* ... and the rest stays in order.                                        *)
LEMMA FlowsOn ==
  ASSUME CallInv, Data, NEW e \in Ends, NEW p \in Ends, p = Peer(e), e = Peer(p),
         Flow(p), ~broken[p], NEW n \in Nat, Recv(e, n), op[e] = "read_all",
         Got(e)' = Got(e) + n, Sent(p)' = Sent(p)
  PROVE  /\ Got(e)' + Len(pipe'[p]) = Sent(p)'
         /\ \A k \in 1 .. Len(pipe'[p]) :
              Place(pipe'[p][k][1] - 1, pipe'[p][k][2]) = Got(e)' + k
  <1>0. PICK l \in Nat, g \in Nat : l = Len(pipe[p]) /\ g = Got(e)
    BY Measures
  <1>1. /\ n <= l
        /\ Len(pipe'[p]) = l - n
        /\ \A k \in 1 .. (l - n) : pipe'[p][k] = pipe[p][n + k]
    <2>1. /\ n <= Len(pipe[p])
          /\ Len(pipe'[p]) = Len(pipe[p]) - n
          /\ \A k \in 1 .. Len(pipe'[p]) : pipe'[p][k] = pipe[p][n + k]
      BY RecvTakes
    <2> QED
      BY <1>0, <2>1
  <1>2. /\ g + l = Sent(p)
        /\ \A k \in 1 .. l : Place(pipe[p][k][1] - 1, pipe[p][k][2]) = g + k
    BY <1>0 DEF Flow
  <1>3. ASSUME NEW k \in 1 .. (l - n)
        PROVE  Place(pipe'[p][k][1] - 1, pipe'[p][k][2]) = (g + n) + k
    <2>1. n + k \in 1 .. l /\ g + (n + k) = (g + n) + k
      BY <1>1
    <2> QED
      BY <1>1, <1>2, <2>1
  <1>4. (g + n) + (l - n) = g + l
    OBVIOUS
  <1> QED
    BY <1>0, <1>1, <1>2, <1>3, <1>4

-----------------------------------------------------------------------------
(* What Sent and Got are for an end that a step does not touch, or that    *)
(* has left its call.                                                      *)
LEMMA Still ==
  ASSUME CallInv, NEW e \in Ends, NEW x \in Ends, x # e,
         op'[x] = op[x], bytes_done'[x] = bytes_done[x],
         written'[x] = written[x], received'[x] = received[x]
  PROVE  Sent(x)' = Sent(x) /\ Got(x)' = Got(x)
  BY DEF Sent, Got

(* What a call that ends leaves, and that the other end's call goes on. *)
LEMMA LeftBehind ==
  ASSUME CallInv, Data, NEW e \in Ends, Leave(e)
  PROVE  /\ op'[e] = "none" /\ bytes_done'[e] = 0 /\ buf'[e] = <<>>
         /\ \A x \in Ends : x # e => /\ op'[x] = op[x]
                                     /\ bytes_done'[x] = bytes_done[x]
                                     /\ buf'[x] = buf[x]
  BY DEF Leave, CallInv, Locals, Data

(* Steps that move no byte.                                                *)
LEMMA FlowStays ==
  ASSUME CallInv, Data, NEW e \in Ends, NEW p \in Ends, p # e, p = Peer(e), e = Peer(p),
         UNCHANGED <<pipe, written, received, broken, discarded>>,
         op'[p] = op[p], bytes_done'[p] = bytes_done[p], buf'[p] = buf[p],
         buf'[e] \in {buf[e], <<>>}, bytes_done'[e] = bytes_done[e],
         bytes_done[e] # 0 => op'[e] = op[e],
         Flow(e), Flow(p)
  PROVE  Flow(e)' /\ Flow(p)'
  <1>1. Sent(p)' = Sent(p) /\ Got(p)' = Got(p)
    BY Still
  <1>2. Sent(e)' = Sent(e) /\ Got(e)' = Got(e)
    BY DEF Sent, Got
  <1>3. Flow(e)'
    BY <1>1, <1>2, Undisturbed DEF Data
  <1>4. Flow(p)'
    BY <1>1, <1>2, Undisturbed DEF Data
  <1> QED
    BY <1>3, <1>4

(* A call that fails keeps the order of both directions, or breaks the one. *)
LEMMA FlowFails ==
  ASSUME CallInv, Data, NEW e \in Ends, NEW p \in Ends, p # e, p = Peer(e), e = Peer(p),
         pc[e] # "idle", Fail(e), Flow(e), Flow(p)
  PROVE  Flow(e)' /\ Flow(p)'
  <1>1. /\ Leave(e) /\ UNCHANGED <<pipe, written, received, discarded>>
        /\ broken' = [broken EXCEPT ![Sender(e)] = @ \/ bytes_done[e] > 0]
    BY DEF Fail, kernel
  <1>2. /\ op'[e] = "none" /\ bytes_done'[e] = 0 /\ buf'[e] = <<>>
        /\ op'[p] = op[p] /\ bytes_done'[p] = bytes_done[p] /\ buf'[p] = buf[p]
    BY <1>1, LeftBehind
  <1>3. Sent(p)' = Sent(p) /\ Got(p)' = Got(p)
    BY <1>1, <1>2, Still
  <1>4. broken \in [Ends -> BOOLEAN] /\ bytes_done[e] \in Nat
    BY Measures DEF Data
  <1>5. CASE bytes_done[e] = 0
    <2>1. Sender(e) \in Ends
      BY DEF Sender
    <2>2. broken' = broken
      BY <1>1, <1>4, <1>5, <2>1
    <2> QED
      BY <1>1, <1>2, <1>5, <2>2, FlowStays
  <1>6. CASE bytes_done[e] # 0 /\ op[e] = "write_all"
    <2>1. broken'[e] /\ broken'[p] = broken[p]
      <3>1. Sender(e) = e /\ bytes_done[e] > 0
        BY <1>4, <1>6 DEF Sender
      <3>2. broken' = [broken EXCEPT ![e] = TRUE]
        BY <1>1, <3>1
      <3> QED
        BY <1>4, <3>2
    <2>2. Got(e)' = Got(e)
      BY <1>1, <1>2, <1>6 DEF Got
    <2>3. Flow(e)'
      BY <2>1, Undisturbed
    <2>4. Flow(p)'
      BY <1>1, <1>2, <1>3, <2>1, <2>2, Undisturbed
    <2> QED
      BY <2>3, <2>4
  <1>7. CASE bytes_done[e] # 0 /\ op[e] = "read_all"
    <2>1. broken'[p] /\ broken'[e] = broken[e]
      <3>1. Sender(e) = p /\ bytes_done[e] > 0
        BY <1>4, <1>7 DEF Sender
      <3>2. broken' = [broken EXCEPT ![p] = TRUE]
        BY <1>1, <3>1
      <3> QED
        BY <1>4, <3>2
    <2>2. Sent(e)' = Sent(e)
      BY <1>1, <1>2, <1>7 DEF Sent
    <2>3. Flow(p)'
      BY <2>1, Undisturbed
    <2>4. Flow(e)'
      BY <1>1, <1>2, <1>3, <2>1, <2>2, Undisturbed
    <2> QED
      BY <2>3, <2>4
  <1>8. op[e] \in {"read_all", "write_all"}
    BY DEF CallInv, Locals, Calling
  <1> QED
    BY <1>5, <1>6, <1>7, <1>8

(* write_all() puts the bytes that come next into the pipe. *)
LEMMA FlowWrites ==
  ASSUME CallInv, Data, NEW e \in Ends, NEW p \in Ends, p # e, p = Peer(e), e = Peer(p),
         WriteSome(e) \/ WriteLast(e), Flow(e), Flow(p)
  PROVE  Flow(e)' /\ Flow(p)'
  <1>0. /\ written[e] \in Nat /\ bytes_done[e] \in Nat /\ Bytes \in Nat
        /\ bytes_done[e] < Bytes
    BY Measures
  <1>1. /\ op[e] = "write_all" /\ UNCHANGED <<received, broken, discarded>>
        /\ op'[p] = op[p] /\ bytes_done'[p] = bytes_done[p] /\ buf'[p] = buf[p]
        /\ written'[p] = written[p] /\ buf'[e] \in {buf[e], <<>>}
        /\ op'[e] # "read_all"
    <2>1. CASE WriteSome(e)
      BY <2>1 DEF WriteSome, GoRound, CallInv, Locals
    <2>2. CASE WriteLast(e)
      BY <2>2, LeftBehind DEF WriteLast, Data
    <2> QED
      BY <2>1, <2>2
  <1>2. PICK n \in Nat : Send(e, n) /\ Sent(e)' = Sent(e) + n
    <2>1. CASE WriteSome(e)
      <3>1. PICK n \in 1 .. Bytes : /\ Send(e, n)
                                    /\ bytes_done' = [bytes_done EXCEPT ![e] = @ + n]
        BY <2>1 DEF WriteSome
      <3>2. /\ bytes_done'[e] = bytes_done[e] + n /\ op'[e] = "write_all"
            /\ written'[e] = written[e]
        BY <2>1, <3>1 DEF WriteSome, GoRound, CallInv, Locals
      <3>3. Place(written[e], bytes_done[e] + n) = Place(written[e], bytes_done[e]) + n
        BY <1>0, <3>1, Product DEF Place
      <3>4. Sent(e)' = Sent(e) + n
        BY <1>1, <3>2, <3>3 DEF Sent
      <3> QED
        BY <3>1, <3>4
    <2>2. CASE WriteLast(e)
      <3>1. PICK n \in Nat : n = Bytes - bytes_done[e]
        BY <1>0
      <3>2. Send(e, n) /\ written'[e] = written[e] + 1 /\ op'[e] = "none"
        BY <2>2, <3>1, LeftBehind DEF WriteLast, Data
      <3>3. Place(written[e] + 1, 0) = Place(written[e], bytes_done[e]) + n
        BY <1>0, <3>1, Product DEF Place
      <3>4. Sent(e)' = Sent(e) + n
        BY <1>1, <3>2, <3>3 DEF Sent
      <3> QED
        BY <3>2, <3>4
    <2> QED
      BY <2>1, <2>2
  <1>3. Sent(p)' = Sent(p) /\ Got(p)' = Got(p)
    BY <1>1, Still
  <1>4. Flow(e)'
    BY <1>1, <1>2, <1>3, FlowWrite
  <1>5. Got(e)' = Got(e)
    BY <1>1 DEF Got
  <1>6. pipe'[p] = pipe[p]
    <2>1. pipe' = [pipe EXCEPT ![e] = pipe'[e]]
      BY <1>2, SendAdds
    <2> QED
      BY <2>1 DEF Data
  <1>7. Flow(p)'
    BY <1>1, <1>3, <1>5, <1>6, Undisturbed DEF Data
  <1> QED
    BY <1>4, <1>7

(* read_all() takes the bytes that come next out of it. *)
LEMMA FlowReads ==
  ASSUME CallInv, Data, NEW e \in Ends, NEW p \in Ends, p # e, p = Peer(e), e = Peer(p),
         ReadSome(e) \/ ReadLast(e), Flow(e), Flow(p)
  PROVE  Flow(e)' /\ Flow(p)'
  <1>0. /\ bytes_done[e] \in Nat /\ Bytes \in Nat /\ bytes_done[e] < Bytes
        /\ received[e] \in Seq(Seq(Octets)) /\ Len(received[e]) \in Nat
    BY Measures DEF Data
  <1>1. /\ op[e] = "read_all" /\ UNCHANGED <<written, broken, discarded>>
        /\ op'[p] = op[p] /\ bytes_done'[p] = bytes_done[p] /\ buf'[p] = buf[p]
        /\ received'[p] = received[p]
        /\ op'[e] # "write_all"
    <2>1. CASE ReadSome(e)
      BY <2>1 DEF ReadSome, GoRound, CallInv, Locals, Data
    <2>2. CASE ReadLast(e)
      BY <2>2, LeftBehind DEF ReadLast, Data
    <2> QED
      BY <2>1, <2>2
  <1>2. Sent(p)' = Sent(p) /\ Got(p)' = Got(p)
    BY <1>1, Still
  <1>3. Sent(e)' = Sent(e)
    BY <1>1 DEF Sent
  <1>4. PICK n \in Nat : Recv(e, n) /\ Got(e)' = Got(e) + n
                         /\ \/ ReadSome(e) /\ buf'[e] = Incoming(e, n)
                               /\ bytes_done'[e] = bytes_done[e] + n
                            \/ ReadLast(e) /\ n = Bytes - bytes_done[e]
    <2>1. CASE ReadSome(e)
      <3>1. PICK n \in 1 .. Bytes : /\ Recv(e, n)
                                    /\ bytes_done' = [bytes_done EXCEPT ![e] = @ + n]
                                    /\ buf' = [buf EXCEPT ![e] = Incoming(e, n)]
        BY <2>1 DEF ReadSome
      <3>2. /\ bytes_done'[e] = bytes_done[e] + n /\ op'[e] = "read_all"
            /\ received'[e] = received[e] /\ buf'[e] = Incoming(e, n)
        BY <2>1, <3>1 DEF ReadSome, GoRound, CallInv, Locals, Data
      <3>3. \A c \in Nat : Place(c, bytes_done[e] + n) = Place(c, bytes_done[e]) + n
        BY <1>0, <3>1, Product DEF Place
      <3>4. Got(e)' = Got(e) + n
        BY <1>0, <1>1, <3>2, <3>3 DEF Got
      <3> QED
        BY <2>1, <3>1, <3>2, <3>4
    <2>2. CASE ReadLast(e)
      <3>1. PICK n \in Nat : n = Bytes - bytes_done[e]
        BY <1>0
      <3>2. Recv(e, n) /\ op'[e] = "none"
        BY <2>2, <3>1, LeftBehind DEF ReadLast
      <3>3. \A c \in Nat : Place(c + 1, 0) = Place(c, bytes_done[e]) + n
        BY <1>0, <3>1, Product DEF Place
      <3>4. received'[e] = Append(received[e], Incoming(e, n))
        BY <2>2, <3>1 DEF ReadLast, Data
      <3>5. Len(received'[e]) = Len(received[e]) + 1
        BY <1>0, <3>4
      <3>6. Got(e)' = Got(e) + n
        BY <1>0, <1>1, <3>2, <3>3, <3>5 DEF Got
      <3> QED
        BY <2>2, <3>1, <3>2, <3>6
    <2> QED
      BY <2>1, <2>2
  <1>5. pipe'[e] = pipe[e]
    <2>1. pipe' = [pipe EXCEPT ![p] = pipe'[p]]
      BY <1>1, <1>4, RecvTakes
    <2> QED
      BY <2>1 DEF Data
  <1>6. Flow(e)'
    BY <1>1, <1>2, <1>3, <1>5, Undisturbed DEF Data
  <1>7. CASE broken[p]
    BY <1>1, <1>6, <1>7, Undisturbed
  <1>8. CASE ~broken[p]
    <2>1. /\ Got(e)' + Len(pipe'[p]) = Sent(p)'
          /\ \A k \in 1 .. Len(pipe'[p]) :
               Place(pipe'[p][k][1] - 1, pipe'[p][k][2]) = Got(e)' + k
      BY <1>1, <1>2, <1>4, <1>8, FlowsOn
    <2>2. PICK c \in Nat : c = Len(received[e])
      BY <1>0
    <2>3. \A i \in 1 .. (bytes_done[e] + n) : Incoming(e, n)[i] = <<c + 1, i>>
      BY <1>1, <1>4, <1>8, <2>2, FlowsIn
    <2>4. /\ Incoming(e, n) \in Seq(Octets)
          /\ Len(Incoming(e, n)) = bytes_done[e] + n
      BY <1>1, <1>4, RecvTakes
    <2>5. \A m \in 1 .. c : received[e][m] = Message(m)
      BY <1>8, <2>2 DEF Flow
    <2>6. ~discarded'[e]
      BY <1>1, <1>8 DEF Flow
    <2>7. /\ \A i \in 1 .. Len(buf'[e]) : buf'[e][i] = <<Len(received'[e]) + 1, i>>
          /\ \A m \in 1 .. Len(received'[e]) : received'[e][m] = Message(m)
      <3>1. CASE ReadSome(e) /\ buf'[e] = Incoming(e, n)
        <4>1. received'[e] = received[e]
          BY <3>1 DEF ReadSome
        <4> QED
          BY <2>2, <2>3, <2>4, <2>5, <3>1, <4>1
      <3>2. CASE ReadLast(e) /\ n = Bytes - bytes_done[e]
        <4>1. buf'[e] = <<>>
          BY <3>2, LeftBehind DEF ReadLast
        <4>2. received'[e] = Append(received[e], Incoming(e, n))
          BY <3>2 DEF ReadLast, Data
        <4>3. Incoming(e, n) = Message(c + 1)
          <5>1. Len(Incoming(e, n)) = Bytes /\ bytes_done[e] + n = Bytes
            BY <1>0, <2>4, <3>2
          <5>2. Incoming(e, n) = [i \in 1 .. Bytes |-> Incoming(e, n)[i]]
            BY <2>4, <5>1
          <5> QED
            BY <2>3, <5>1, <5>2 DEF Message
        <4>4. \A m \in 1 .. Len(received'[e]) : received'[e][m] = Message(m)
          BY <1>0, <2>2, <2>5, <4>2, <4>3
        <4> QED
          BY <4>1, <4>4
      <3> QED
        BY <1>4, <3>1, <3>2
    <2>8. Flow(p)'
      BY <2>1, <2>6, <2>7 DEF Flow
    <2> QED
      BY <1>6, <2>8
  <1> QED
    BY <1>7, <1>8

(* recv() returns 0 in the middle of a message only if the sender failed   *)
(* there: a writer that has closed has written whole ones.                 *)
LEMMA FlowEnds ==
  ASSUME CallInv, Data, NEW e \in Ends, NEW p \in Ends, p # e, p = Peer(e), e = Peer(p),
         ReadEnd(e), Flow(e), Flow(p)
  PROVE  Flow(e)' /\ Flow(p)'
  <1>1. /\ Leave(e) /\ UNCHANGED <<pipe, written, received, broken>>
        /\ discarded' = [discarded EXCEPT ![e] = @ \/ bytes_done[e] > 0]
        /\ op[e] = "read_all" /\ pipe[p] = <<>> /\ desc[p] = "closed"
    BY DEF ReadEnd, kernel
  <1>2. /\ op'[e] = "none" /\ bytes_done'[e] = 0 /\ buf'[e] = <<>>
        /\ op'[p] = op[p] /\ bytes_done'[p] = bytes_done[p] /\ buf'[p] = buf[p]
    BY <1>1, LeftBehind
  <1>3. Sent(p)' = Sent(p) /\ Got(p)' = Got(p)
    BY <1>1, <1>2, Still
  <1>4. Sent(e)' = Sent(e)
    BY <1>1, <1>2 DEF Sent
  <1>5. discarded'[p] = discarded[p]
    BY <1>1 DEF Data
  <1>6. Flow(e)'
    BY <1>1, <1>2, <1>3, <1>4, <1>5, Undisturbed DEF Data
  <1>7. CASE broken[p]
    BY <1>1, <1>6, <1>7, Undisturbed
  <1>8. CASE ~broken[p]
    <2>1. op[p] = "none"
      BY <1>1 DEF CallInv, Calling
    <2>2. PICK c \in Nat, b \in Nat, w \in Nat :
            c = Len(received[e]) /\ b = bytes_done[e] /\ w = written[p]
      BY Measures
    <2>3. Place(c, b) = Place(w, 0)
      <3>1. Got(e) + Len(pipe[p]) = Sent(p) /\ Len(pipe[p]) = 0 /\ Got(e) \in Nat
        BY <1>1, <1>8, Measures DEF Flow
      <3>2. Got(e) = Sent(p)
        BY <3>1
      <3> QED
        BY <1>1, <2>1, <2>2, <3>2 DEF Got, Sent
    <2>4. b < Bytes /\ 0 < Bytes
      BY <2>2, Measures
    <2>5. b = 0
      <3>1. Bytes \in Nat /\ c * Bytes \in Nat /\ w * Bytes \in Nat
        BY SizesAssumption, Product
      <3>2. /\ c < w => c * Bytes + Bytes <= w * Bytes
            /\ w < c => w * Bytes + Bytes <= c * Bytes
        BY <3>1, Product
      <3>3. c * Bytes + b = w * Bytes
        BY <2>3, <3>1 DEF Place
      <3>4. ~(c < w) /\ ~(w < c)
        BY <2>4, <3>1, <3>2, <3>3
      <3>5. c = w
        BY <3>4
      <3> QED
        BY <3>1, <3>3, <3>5
    <2>6. discarded' = discarded
      BY <1>1, <2>2, <2>5 DEF Data
    <2> QED
      BY <1>1, <1>2, <2>2, <2>5, <2>6, FlowStays
  <1> QED
    BY <1>7, <1>8

(* Every step keeps the order of the bytes in both directions. *)
LEMMA FlowKept ==
  ASSUME StreamInv, Next
  PROVE  \A s \in Ends : Flow(s)'
  <1>. CallInv /\ Data /\ \A s \in Ends : Flow(s)
    BY DEF StreamInv
  <1>. PICK e \in Ends :
         \/ \E operation \in {"read_all", "write_all"}, withTimeout \in BOOLEAN :
              Call(e, operation, withTimeout)
         \/ Step(e) \/ Blocked(e) \/ Interrupted(e) \/ Close(e)
    BY DEF Next
  <1>. PICK p \in Ends : p # e /\ p = Peer(e) /\ e = Peer(p)
    BY TwoEnds
  <1>. SUFFICES Flow(e)' /\ Flow(p)'
    BY TwoEnds
  <1>. Flow(e) /\ Flow(p)
    OBVIOUS
  <1>1. CASE \E operation \in {"read_all", "write_all"}, withTimeout \in BOOLEAN :
               Call(e, operation, withTimeout)
    <2>1. /\ bytes_done[e] = 0 /\ op'[p] = op[p]
          /\ UNCHANGED <<pipe, written, received, broken, discarded, bytes_done, buf>>
      BY <1>1 DEF Call, CallInv, Locals, Calling, kernel
    <2> QED
      BY <2>1, FlowStays
  <1>2. CASE Select(e) \/ Tick(e) \/ Blocked(e) \/ Close(e)
    <2>1. UNCHANGED <<pipe, written, received, broken, discarded, bytes_done, buf, op>>
      BY <1>2 DEF Select, Tick, Blocked, Close, kernel, call
    <2> QED
      BY <2>1, FlowStays
  <1>3. CASE TimeOut(e) \/ Interrupted(e) \/ WriteFails(e) \/ ReadFails(e)
    BY <1>3, FlowFails DEF TimeOut, Interrupted, WriteFails, ReadFails
  <1>4. CASE WriteSome(e) \/ WriteLast(e)
    BY <1>4, FlowWrites
  <1>5. CASE ReadSome(e) \/ ReadLast(e)
    BY <1>5, FlowReads
  <1>6. CASE ReadEnd(e)
    BY <1>6, FlowEnds
  <1> QED
    BY <1>1, <1>2, <1>3, <1>4, <1>5, <1>6 DEF Step

(* The invariant holds in every state.                                     *)
LEMMA Invariance == Spec => []StreamInv
  <1>1. Init => StreamInv
    <2>. SUFFICES ASSUME Init  PROVE StreamInv
      OBVIOUS
    <2>1. CallInv
      BY SizesAssumption DEF Init, CallInv, Locals, Calling
    <2>2. Data
      BY SizesAssumption DEF Init, Data
    <2>3. ASSUME NEW s \in Ends  PROVE Flow(s)
      <3>1. PICK r \in Ends : r = Peer(s)
        BY TwoEnds
      <3>2. Got(r) = Sent(s) /\ Got(r) \in Nat
        BY <2>1, <2>2, Measures DEF Init, Got, Sent
      <3>3. pipe[s] = <<>> /\ buf[r] = <<>> /\ received[r] = <<>> /\ ~discarded[r]
        BY DEF Init
      <3> QED
        BY <3>1, <3>2, <3>3 DEF Flow
    <2> QED
      BY <2>1, <2>2, <2>3 DEF StreamInv
  <1>2. StreamInv /\ [Next]_vars => StreamInv'
    <2>1. ASSUME StreamInv, UNCHANGED vars  PROVE StreamInv'
      <3>1. CallInv' /\ Data'
        BY <2>1 DEF StreamInv, CallInv, Locals, Calling, Data, vars, kernel, call
      <3>2. ASSUME NEW s \in Ends  PROVE Flow(s)'
        BY <2>1 DEF StreamInv, Flow, Got, Sent, vars, kernel, call
      <3> QED
        BY <3>1, <3>2 DEF StreamInv
    <2>2. ASSUME StreamInv, Next  PROVE StreamInv'
      BY <2>2, CallsKept, DataKept, FlowKept DEF StreamInv
    <2> QED
      BY <2>1, <2>2
  <1> QED
    BY <1>1, <1>2, PTL DEF Spec

(* A pipe holds no more than it can, a call has done less than a message,  *)
(* and a buffer has what was read: the other variables keep their types.   *)
THEOREM TypeCorrect == Spec => []TypeOK
  <1>1. StreamInv => TypeOK
    BY DEF StreamInv, CallInv, Locals, Data, TypeOK
  <1> QED
    BY <1>1, Invariance, PTL

(* The n-th buffer that read_all() returns is the n-th message written,    *)
(* and nothing is thrown away, unless a call on those bytes failed in the  *)
(* middle of a message: the loops of write_all() and read_all() go on      *)
(* exactly where the last send() or recv() stopped.                        *)
THEOREM MessagesArrive == Spec => []WholeMessages
  <1>1. StreamInv => WholeMessages
    <2>. SUFFICES ASSUME StreamInv, NEW e \in Ends, ~broken[Peer(e)]
                  PROVE  /\ \A n \in DOMAIN received[e] : received[e][n] = Message(n)
                         /\ ~discarded[e]
      BY DEF WholeMessages
    <2>1. Peer(e) \in Ends /\ Peer(Peer(e)) = e
      BY TwoEnds
    <2>2. DOMAIN received[e] = 1 .. Len(received[e])
      BY LenProperties DEF StreamInv, Data
    <2> QED
      BY <2>1, <2>2 DEF StreamInv, Flow
  <1> QED
    BY <1>1, Invariance, PTL

-----------------------------------------------------------------------------
(* recv() is called with a timeout only when there are bytes or the peer   *)
(* has closed, and so it does not wait.                                    *)
Fed(e) ==
  /\ op[e] = "write_all" \/ stuck[e] = 0
  /\ timed[e] /\ op[e] = "read_all" /\ pc[e] = "transfer" =>
       pipe[Peer(e)] # <<>> \/ desc[Peer(e)] = "closed"

(* What was sent is there until it is received, at one end only.           *)
LEMMA FedKept ==
  ASSUME StreamInv, \A x \in Ends : Fed(x), Next
  PROVE  \A x \in Ends : Fed(x)'
  <1>. CallInv /\ Data /\ Locals /\ \A x \in Ends : Calling(x)
    BY DEF StreamInv, CallInv
  <1>. PICK e \in Ends :
         \/ \E operation \in {"read_all", "write_all"}, withTimeout \in BOOLEAN :
              Call(e, operation, withTimeout)
         \/ Step(e) \/ Blocked(e) \/ Interrupted(e) \/ Close(e)
    BY DEF Next
  <1>. PICK p \in Ends : p # e /\ p = Peer(e) /\ e = Peer(p)
    BY TwoEnds
  <1>. SUFFICES Fed(e)' /\ Fed(p)'
    BY TwoEnds
  <1>. Fed(e) /\ Fed(p)
    OBVIOUS
  <1>1. CASE \E operation \in {"read_all", "write_all"}, withTimeout \in BOOLEAN :
               Call(e, operation, withTimeout)
    BY <1>1 DEF Call, Fed, Locals, Calling, kernel
  <1>2. CASE Select(e) \/ Tick(e)
    BY <1>2 DEF Select, Tick, Ready, Fed, Locals, kernel
  <1>3. CASE Blocked(e)
    <2>1. /\ UNCHANGED <<pipe, desc, op, timed, pc>> /\ pc[e] = "transfer" /\ timed[e]
          /\ stuck' = [stuck EXCEPT ![e] = @ + 1] /\ ~Ready(e)
      BY <1>3 DEF Blocked, kernel
    <2>2. op[e] = "write_all"
      BY <2>1 DEF Ready, Fed, Locals, Calling
    <2> QED
      BY <2>1, <2>2 DEF Fed, Locals
  <1>4. CASE TimeOut(e) \/ Interrupted(e) \/ WriteFails(e) \/ ReadFails(e) \/ ReadEnd(e)
    <2>1. Leave(e) /\ UNCHANGED <<pipe, desc>>
      BY <1>4 DEF TimeOut, Interrupted, WriteFails, ReadFails, ReadEnd, Fail, kernel
    <2> QED
      BY <2>1 DEF Leave, Fed, Locals
  <1>5. CASE WriteSome(e) \/ WriteLast(e)
    <2>1. pipe'[p] = pipe[p] /\ pipe'[e] # <<>> /\ UNCHANGED desc
      <3>1. PICK n \in Nat : Send(e, n)
        <4>1. bytes_done[e] \in 0 .. Bytes - 1 /\ Bytes \in Nat
          BY SizesAssumption DEF Locals
        <4>2. Bytes - bytes_done[e] \in Nat /\ 1 .. Bytes \subseteq Nat
          BY <4>1
        <4> QED
          BY <1>5, <4>2 DEF WriteSome, WriteLast
      <3>2. /\ n \in 1 .. (Bytes - bytes_done[e])
            /\ pipe' = [pipe EXCEPT ![e] = pipe'[e]]
            /\ Len(pipe'[e]) = Len(pipe[e]) + n /\ pipe[e] \in Seq(Octets)
        BY <3>1, SendAdds DEF Data
      <3>3. Len(pipe'[e]) # 0
        BY <3>2
      <3> QED
        BY <1>5, <3>2, <3>3 DEF WriteSome, WriteLast, Data
    <2>2. op[e] = "write_all" /\ op'[e] \in {"write_all", "none"}
          /\ (op'[e] = "none" => stuck'[e] = 0)
      BY <1>5 DEF WriteSome, WriteLast, GoRound, Leave, Locals
    <2>3. /\ op'[p] = op[p] /\ stuck'[p] = stuck[p] /\ timed'[p] = timed[p]
          /\ pc'[p] = pc[p]
      BY <1>5 DEF WriteSome, WriteLast, GoRound, Leave, Locals
    <2> QED
      BY <2>1, <2>2, <2>3 DEF Fed
  <1>6. CASE ReadSome(e) \/ ReadLast(e)
    <2>1. pipe'[e] = pipe[e] /\ UNCHANGED desc
      BY <1>6 DEF ReadSome, ReadLast, Recv, Data
    <2>2. /\ op'[p] = op[p] /\ stuck'[p] = stuck[p] /\ timed'[p] = timed[p]
          /\ pc'[p] = pc[p]
      BY <1>6 DEF ReadSome, ReadLast, GoRound, Leave, Locals
    <2>3. stuck'[e] = 0 /\ (timed'[e] => pc'[e] # "transfer")
      BY <1>6 DEF ReadSome, ReadLast, GoRound, Leave, Locals, Fed
    <2> QED
      BY <2>1, <2>2, <2>3 DEF Fed
  <1>7. CASE Close(e)
    BY <1>7 DEF Close, Fed, Locals, call
  <1> QED
    BY <1>1, <1>2, <1>3, <1>4, <1>5, <1>6, <1>7 DEF Step

(* All the waits of a read_all(timeout) together, in select() and recv(),  *)
(* take no longer than its timeout, whatever the peer does: socket_wait2() *)
(* stores what is left of the timeout for the next wait, and recv() does   *)
(* not wait after it.  The waits of a write_all(timeout) in select() take  *)
(* no longer either; those in send() are as long as the peer likes.        *)
THEOREM WaitsBounded == Spec => []BudgetKept
  <1>1. Init => \A e \in Ends : Fed(e)
    BY DEF Init, Fed
  <1>2. /\ \A e \in Ends : Fed(e)
        /\ [Next]_vars /\ StreamInv
        => (\A e \in Ends : Fed(e))'
    <2>1. ASSUME \A e \in Ends : Fed(e), UNCHANGED vars
          PROVE  (\A e \in Ends : Fed(e))'
      BY <2>1 DEF Fed, vars, kernel, call
    <2> QED
      BY <2>1, FedKept
  <1>3. StreamInv /\ (\A e \in Ends : Fed(e)) => BudgetKept
    <2>. SUFFICES ASSUME StreamInv, NEW e \in Ends, Fed(e), timed[e]
                  PROVE  spent[e] + (IF op[e] = "read_all" THEN stuck[e] ELSE 0) <= Timeout
      BY DEF BudgetKept
    <2>1. /\ timeout[e] \in Nat /\ spent[e] \in Nat /\ Timeout \in Nat
          /\ spent[e] + timeout[e] <= Timeout
      BY SizesAssumption DEF StreamInv, CallInv, Locals, Calling
    <2>2. op[e] = "read_all" => stuck[e] = 0
      BY DEF Fed
    <2> QED
      BY <2>1, <2>2
  <1> QED
    BY <1>1, <1>2, <1>3, Invariance, PTL DEF Spec
=============================================================================
