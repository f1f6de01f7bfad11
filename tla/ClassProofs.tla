---------------------------- MODULE ClassProofs ----------------------------
(***************************************************************************)
(* Proofs about the smaller classes of libk2.                              *)
(*                                                                         *)
(* timestamp and time_span, for words of any width and any number of       *)
(* milliseconds to the second.  The invariant behind StampExact is Near:   *)
(* the number in the timestamp is the exact one, or one word off it.  That *)
(* it is never two words off is what the bounds on exact say, which TypeOK *)
(* has to carry along.                                                     *)
(*                                                                         *)
(* Calendars, for any threads, calendars, zones and offsets; process,      *)
(* which holds a child, for any number of objects; and tls_ptr, which      *)
(* holds an object for each thread, for any number of threads and keys.    *)
(*                                                                         *)
(* mem_pool: no chunk is lost or has two owners, for any number of         *)
(* threads, chunks and blocks.  The inductive invariant says which chunks  *)
(* are free: those of the blocks so far that nobody owns and nobody is     *)
(* giving back.  Apart: a chunk that is given back is given back once.     *)
(* List: from m_frees on, the words of the free chunks lead through all of *)
(* them, through each once, and to Null; it needs no exception inside      *)
(* alloc() and dealloc(), because each of them changes the list in its     *)
(* last statement alone, once that is prepared (Operating).                *)
(***************************************************************************)
EXTENDS Calendar, Process, TlsPtr, MemPool, WellFoundedInduction,
        FiniteSetTheorems, TLAPS

-----------------------------------------------------------------------------
(* timestamp and time_span. *)

Near == exact = stamp \/ exact = stamp + Word \/ exact = stamp - Word

Bounded == exact > -Word /\ exact < 2 * Word

IInv == TypeOK /\ Bounded /\ Near

-----------------------------------------------------------------------------
(* Sums and differences of two values of a word are values of a word, and   *)
(* undo each other.                                                         *)
LEMMA PlusMinus ==
  ASSUME NEW a \in Msec, NEW b \in Msec
  PROVE  /\ Plus(a, b) \in Msec /\ Minus(a, b) \in Msec
         /\ Plus(a, b) = a + b \/ Plus(a, b) = a + b - Word
         /\ Minus(a, b) = a - b \/ Minus(a, b) = a - b + Word
         /\ Minus(a, Minus(a, b)) = b
  BY TimingAssumption DEF Msec, Plus, Minus

(* A product, a quotient and what select() gives back are held to a word.   *)
LEMMA Remainder ==
  ASSUME NEW x \in Nat
  PROVE  x % Word \in Msec
  BY TimingAssumption DEF Msec

(* The quotient of two spans is a span, of any width of the words. *)
LEMMA Quotient ==
  ASSUME NEW a \in Msec, NEW m \in Msec \ {0}
  PROVE  SpanDivide(a, m) \in Msec
  <1>1. a \in Nat /\ m \in Nat /\ m >= 1
    BY TimingAssumption DEF Msec
  <1>2. a \div m \in Nat
    BY <1>1
  <1>3. m * (a \div m) <= a
    BY <1>1
  <1>4. (a \div m) <= m * (a \div m)
    BY <1>1, <1>2
  <1> QED
    BY <1>1, <1>2, <1>3, <1>4, TimingAssumption DEF SpanDivide, Msec

(* Their product is one, since it wraps. *)
LEMMA Product ==
  ASSUME NEW a \in Msec, NEW m \in Msec
  PROVE  SpanTimes(a, m) \in Msec
  <1>1. a * m \in Nat
    BY TimingAssumption DEF Msec
  <1> QED
    BY <1>1, Remainder DEF SpanTimes, Times

(* A timeval that comes back from select() makes a time_span. *)
LEMMA Returned ==
  ASSUME NEW sec \in Nat, NEW usec \in Nat
  PROVE  FromTimeval([sec |-> sec, usec |-> usec]) \in Msec
  <1>1. sec * Thousand \in Nat /\ usec \div Thousand \in Nat
    BY TimingAssumption
  <1>2. sec * Thousand + usec \div Thousand \in Nat
    BY <1>1
  <1> QED
    BY <1>2, Remainder DEF FromTimeval

-----------------------------------------------------------------------------

(* The first timestamp, time_span and clock. *)
LEMMA InitInv == Init => IInv
  BY TimingAssumption DEF Init, IInv, TypeOK, Bounded, Near, Msec

(* One step for each action; those of the span leave the timestamp alone.   *)
LEMMA NextInv == IInv /\ [Next]_vars => IInv'
  <1> SUFFICES ASSUME IInv, [Next]_vars PROVE IInv'
    OBVIOUS
  <1> USE TimingAssumption DEF IInv, TypeOK, Bounded, Near
  <1>w. /\ clock \in Int /\ stamp \in Int /\ span \in Int /\ exact \in Int
        /\ 0 <= clock /\ clock < Word /\ 0 <= stamp /\ stamp < Word
        /\ 0 <= span /\ span < Word
    BY DEF Msec
  <1>1. CASE Now
    BY <1>1, <1>w DEF Now
  <1>2. CASE NowPlusSpan
    BY <1>2, <1>w DEF NowPlusSpan, LaterThanClock, Plus, Msec
  <1>3. CASE NowMinusSpan
    BY <1>3, <1>w DEF NowMinusSpan, EarlierThanClock, Minus, Msec
  <1>4. CASE Increase
    BY <1>4, <1>w DEF Increase, Later, Plus, Msec
  <1>5. CASE Decrease
    BY <1>5, <1>w DEF Decrease, Earlier, Minus, Msec
  <1>6. CASE NewSpan
    BY <1>6 DEF NewSpan
  <1>7. CASE TimeLeft
    BY <1>7, PlusMinus, <1>w DEF TimeLeft, AheadOfClock, Msec
  <1>8. CASE TimeGone
    BY <1>8, PlusMinus DEF TimeGone, ClockAhead
  <1>9. CASE Waited
    <2>1. 0 \in Msec
      BY DEF Msec
    <2>2. Minus(clock, stamp) \in Msec
      BY PlusMinus
    <2>3. Ahead(clock, stamp) \in Msec
      BY <2>1, <2>2 DEF Ahead
    <2>4. Minus(span, Ahead(clock, stamp)) \in Msec
      BY <2>3, PlusMinus
    <2>5. Left(span, Ahead(clock, stamp)) \in Msec
      BY <2>1, <2>4 DEF Left, SpanMinus
    <2> QED
      BY <1>9, <2>5 DEF Waited
  <1>10. CASE Selected
    <2>1. SpanInSec(span) \in Nat
      BY <1>w DEF SpanInSec, Truncated
    <2>2. PICK sec \in Nat, usec \in Nat :
            span' = FromTimeval([sec |-> sec, usec |-> usec])
      <3>1. PICK tv \in [sec : 0 .. SpanInSec(span),
                         usec : 0 .. Thousand * Thousand - 1] :
              span' = FromTimeval(tv)
        BY <1>10 DEF Selected
      <3>2. /\ tv = [sec |-> tv.sec, usec |-> tv.usec]
            /\ tv.sec \in 0 .. SpanInSec(span)
            /\ tv.usec \in 0 .. Thousand * Thousand - 1
        BY Zenon
      <3>3. Thousand * Thousand \in Nat
        BY TimingAssumption
      <3>4. tv.sec \in Nat /\ tv.usec \in Nat
        BY <2>1, <3>2, <3>3
      <3> QED
        BY <3>1, <3>2, <3>4
    <2>3. span' \in Msec
      BY <2>2, Returned
    <2> QED
      BY <1>10, <2>3 DEF Selected
  <1>11. CASE Longer
    BY <1>11, PlusMinus DEF Longer, SpanPlus
  <1>12. CASE Shorter
    BY <1>12, PlusMinus DEF Shorter, SpanMinus
  <1>13. CASE Multiplied
    BY <1>13, Product DEF Multiplied
  <1>14. CASE Divided
    BY <1>14, Quotient DEF Divided
  <1>15. CASE ClockChanges
    BY <1>15 DEF ClockChanges
  <1>16. CASE UNCHANGED vars
    BY <1>16 DEF vars
  <1> QED
    BY <1>1, <1>2, <1>3, <1>4, <1>5, <1>6, <1>7, <1>8, <1>9, <1>10, <1>11,
       <1>12, <1>13, <1>14, <1>15, <1>16 DEF Next

(* The invariant of the times holds in every behaviour. *)
LEMMA Invariance == Spec => []IInv
  BY InitInv, NextInv, PTL DEF Spec

-----------------------------------------------------------------------------
(* Every timestamp and every time_span stays in its word, whatever sequence *)
(* of operators of timing.cpp computed it and however the clock was set.    *)
THEOREM TypeCorrect == Spec => []TypeOK
  <1>1. IInv => TypeOK
    BY DEF IInv
  <1> QED
    BY Invariance, <1>1, PTL

(* A timestamp is the exact point in time modulo a word: += and -= of       *)
(* timing.cpp:110-121 may overflow on the way and still come out right.     *)
THEOREM TimestampExact == Spec => []StampExact
  <1>1. IInv => StampExact
    <2> SUFFICES ASSUME IInv PROVE StampExact
      OBVIOUS
    <2> USE TimingAssumption DEF IInv, TypeOK, Near
    <2>1. exact - stamp = 0 \/ exact - stamp = Word \/ exact - stamp = -Word
      BY DEF Msec
    <2>2. (exact - stamp) % Word = 0
      <3>1. 0 % Word = 0 /\ Word % Word = 0 /\ (-Word) % Word = 0
        OBVIOUS
      <3> QED
        BY <2>1, <3>1
    <2>3. exact \in Msec => stamp = exact
      BY <2>1 DEF Msec
    <2> QED
      BY <2>2, <2>3 DEF StampExact
  <1> QED
    BY Invariance, <1>1, PTL

(* expired(), the differences and the comparisons with timestamp::now,      *)
(* which timing.cpp computes in separate functions, agree with each other.  *)
THEOREM OrdersAgree == Spec => []OrderAgrees
  <1>1. TypeOK => OrderAgrees
    BY TimingAssumption
    DEF TypeOK, Msec, OrderAgrees, Expired, AheadOfClock, Ahead, ClockAhead,
        ClockCompare, CompareWithClock, SpanCompare, Compare, Minus
  <1> QED
    BY TypeCorrect, <1>1, PTL

(* The span that was taken from the clock, or handed to select(), is the    *)
(* span that comes back.                                                    *)
THEOREM SpanComesBack == Spec => []SpansComeBack
  <1>1. TypeOK => SpansComeBack
    <2> SUFFICES ASSUME TypeOK PROVE SpansComeBack
      OBVIOUS
    <2> USE TimingAssumption DEF TypeOK
    <2>1. ClockAhead(clock, EarlierThanClock(clock, span)) = span
      BY PlusMinus DEF ClockAhead, EarlierThanClock
    <2>2. span <= clock =>
            Ahead(clock, EarlierThanClock(clock, span)) = span
      BY DEF Ahead, EarlierThanClock, Minus, Msec
    <2>3. ASSUME span < Word32 * Thousand
          PROVE  FromTimeval(Timeval(span)) = span
      <3> DEFINE q == span \div Thousand
                 r == span % Thousand
      <3>1. /\ span \in Nat /\ q \in Nat /\ r \in Nat
            /\ span = q * Thousand + r
        BY DEF Msec
      <3>2. q < Word32
        BY <2>3, <3>1
      <3>3. SpanInSec(span) = q
        BY <3>1, <3>2 DEF SpanInSec, Truncated
      <3>4. (r * Thousand) \div Thousand = r
        BY <3>1
      <3>5. span % Word = span
        BY DEF Msec
      <3> QED
        BY <3>1, <3>3, <3>4, <3>5 DEF FromTimeval, Timeval, SpanMsecOfSec
    <2> QED
      BY <2>1, <2>2, <2>3 DEF SpansComeBack
  <1> QED
    BY TypeCorrect, <1>1, PTL

-----------------------------------------------------------------------------
(* Calendars. *)

Labels == {"out", "check", "lock", "break", "copy", "mark", "late", "read"}

CalendarTypes ==
  /\ validated \in [Calendars -> BOOLEAN]
  /\ DOMAIN fields = Calendars /\ DOMAIN msec = Calendars
  /\ at \in [Readers -> Labels]
  /\ DOMAIN reading = Readers /\ DOMAIN got = Readers /\ DOMAIN raced = Readers

Broken(c) == Tm(ZoneOf[c], InSec(StampOf[c]))

(* What one reader knows: it has the lock while the buffer matters to it,    *)
(* and finds there, and later in the fields, what belongs to its calendar.   *)
Known(r) ==
  /\ at[r] \in {"break", "copy"} => holder = r
  /\ at[r] # "out" \/ got[r] # <<>> => Cal(r) \in Calendars /\ Getter(r) \in Getters
  /\ at[r] = "copy" => buffer = Broken(Cal(r))
  /\ at[r] \in {"mark", "late", "read"} =>
       fields[Cal(r)] = FieldsOf(Broken(Cal(r)))
  /\ at[r] \in {"late", "read"} => validated[Cal(r)]

Truthful(r) ==
  got[r] # <<>> =>
    \/ Getter(r) # "year" /\ got[r][1] = Truth(Cal(r), Getter(r))
    \/ Getter(r) = "year" /\ got[r][1] = Truth(Cal(r), "year") + 70
    \/ Getter(r) = "msec_of_sec" /\ raced[r] /\ got[r][1] = Garbage

Late(c) == \E q \in Readers : at[q] = "late" /\ Cal(q) = c

(* A calendar that is marked has the right fields, and the right number of   *)
(* milliseconds unless some thread is still about to store it.               *)
Marked(c) ==
  /\ validated[c] => fields[c] = FieldsOf(Broken(c))
  /\ \/ msec[c] = MsecOfSec(StampOf[c])
     \/ msec[c] = Garbage /\ (validated[c] => Late(c))

CalendarInv ==
  /\ CalendarTypes
  /\ \A r \in Readers : Known(r) /\ Truthful(r)
  /\ \A c \in Calendars : Marked(c)

(* Calendars that have computed nothing yet. *)
LEMMA CalendarInitInv == CalendarInit => CalendarInv
  BY DEF CalendarInit, CalendarInv, CalendarTypes, Known, Truthful, Marked, Labels

(* What the code makes of the C library's answer is the truth about the      *)
(* timestamp in the zone of the calendar, but for the year.                  *)
LEMMA FieldsTrue ==
  ASSUME NEW c \in Calendars
  PROVE  /\ FieldsOf(Broken(c))["year"] = Truth(c, "year") + 70
         /\ FieldsOf(Broken(c))["day_of_month"] = Truth(c, "day_of_month")
         /\ FieldsOf(Broken(c))["sec_of_min"] = Truth(c, "sec_of_min")
  <1> DEFINE t == InSec(StampOf[c])
             s == IF ZoneOf[c] = "local" THEN t + Offset ELSE t
  <1>1. t \in Int
    BY CalendarAssumption, TimingAssumption DEF InSec, Truncated, Msec
  <1>2. s \in Int /\ s = t + (IF ZoneOf[c] = "local" THEN Offset ELSE 0)
    BY <1>1, CalendarAssumption
  <1>3. Truth(c, "year") = 1970 + s \div Year
    BY <1>2 DEF Truth
  <1>4. Truth(c, "day_of_month") = (s % Year) \div Day
    BY <1>2 DEF Truth
  <1>5. Truth(c, "sec_of_min") = s % Day
    BY <1>2 DEF Truth
  <1>6. Broken(c) = [tm_year |-> 70 + s \div Year,
                     tm_mday |-> 1 + (s % Year) \div Day, tm_sec |-> s % Day]
    BY DEF Broken, Tm
  <1>7. s \div Year \in Int /\ (s % Year) \div Day \in Int
    BY <1>2, CalendarAssumption
  <1> HIDE DEF s
  <1>8. /\ (70 + s \div Year) + 1970 = (1970 + s \div Year) + 70
        /\ (1 + (s % Year) \div Day) - 1 = (s % Year) \div Day
    BY <1>7
  <1> QED
    BY <1>3, <1>4, <1>5, <1>6, <1>8 DEF FieldsOf

(* Every statement of a getter, and every tick of the clock, keeps the invariant. *)
LEMMA CalendarNextInv ==
  CalendarInv /\ [CalendarNext]_calendarVars => CalendarInv'
  <1> SUFFICES ASSUME CalendarInv, [CalendarNext]_calendarVars
               PROVE  CalendarInv'
    OBVIOUS
  <1> USE CalendarAssumption DEF CalendarInv, CalendarTypes, Labels, To, Cal, Getter
  <1>1. ASSUME NEW r \in Readers, NEW c \in Calendars, NEW getter \in Getters,
               Get(r, c, getter)
        PROVE  CalendarInv'
    BY <1>1 DEF Get, Known, Truthful, Marked, Late
  <1>2. ASSUME NEW r \in Readers, Test(r) \/ LockBuffer(r) PROVE CalendarInv'
    BY <1>2 DEF Test, LockBuffer, Known, Truthful, Marked, Late
  <1>3. ASSUME NEW r \in Readers, BreakDown(r) PROVE CalendarInv'
    BY <1>3 DEF BreakDown, Broken, Known, Truthful, Marked, Late
  <1>4. ASSUME NEW r \in Readers, Copy(r) PROVE CalendarInv'
    BY <1>4 DEF Copy, Known, Truthful, Marked, Late
  <1>5. ASSUME NEW r \in Readers, Mark(r) PROVE CalendarInv'
    BY <1>5 DEF Mark, Known, Truthful, Marked, Late
  <1>6. ASSUME NEW r \in Readers, SetMsec(r) PROVE CalendarInv'
    BY <1>6 DEF SetMsec, Known, Truthful, Marked, Late
  <1>7. ASSUME NEW r \in Readers, ReadField(r) PROVE CalendarInv'
    <2>1. \A q \in Readers : Known(q)'
      BY <1>7 DEF ReadField, Known
    <2>2. \A q \in Readers \ {r} : Truthful(q)'
      BY <1>7 DEF ReadField, Truthful
    <2>3. \A c \in Calendars : Marked(c)'
      BY <1>7 DEF ReadField, Marked, Late
    <2>4. Truthful(r)'
      <3>1. /\ Cal(r) \in Calendars /\ Getter(r) \in Getters
            /\ validated[Cal(r)] /\ fields[Cal(r)] = FieldsOf(Broken(Cal(r)))
        BY <1>7 DEF ReadField, Known
      <3>2. \/ msec[Cal(r)] = MsecOfSec(StampOf[Cal(r)])
            \/ msec[Cal(r)] = Garbage /\ raced'[r]
        BY <1>7, <3>1 DEF ReadField, Marked, Late
      <3>3. /\ Cal(r)' = Cal(r) /\ Getter(r)' = Getter(r)
            /\ got'[r][1] = IF Getter(r) = "msec_of_sec" THEN msec[Cal(r)]
                            ELSE fields[Cal(r)][Getter(r)]
        BY <1>7 DEF ReadField
      <3>4. CASE Getter(r) = "msec_of_sec"
        BY <3>2, <3>3, <3>4 DEF Truthful, Truth
      <3>5. CASE Getter(r) # "msec_of_sec"
        <4>1. got'[r][1] = FieldsOf(Broken(Cal(r)))[Getter(r)]
          BY <3>1, <3>3, <3>5
        <4> QED
          BY <3>1, <3>3, <3>5, <4>1, FieldsTrue DEF Truthful, Getters
      <3> QED
        BY <3>4, <3>5
    <2>5. CalendarTypes'
      BY <1>7 DEF ReadField
    <2> QED
      BY <2>1, <2>2, <2>3, <2>4, <2>5
  <1>8. CASE UNCHANGED calendarVars
    BY <1>8 DEF calendarVars, Known, Truthful, Marked, Late
  <1> QED
    BY <1>1, <1>2, <1>3, <1>4, <1>5, <1>6, <1>7, <1>8 DEF CalendarNext

(* A getter of a calendar returns what belongs to its own timestamp and zone *)
(* although all of them share the buffer of gmtime() and localtime(); but a  *)
(* year is 70 too much, and of the milliseconds another thread may see what  *)
(* the memory held before.                                                   *)
THEOREM CalendarsTruthful == CalendarSpec => []GettersTruthful
  <1>1. CalendarInv => GettersTruthful
    BY DEF CalendarInv, GettersTruthful, Truthful
  <1> QED
    BY <1>1, CalendarInitInv, CalendarNextInv, PTL DEF CalendarSpec

-----------------------------------------------------------------------------
(* process. *)

ProcessTypes ==
  /\ child \in [Pids -> {"none", "splitting", "overrun", "copy", "zombie"}]
  /\ childOf \in [Pids -> Processes \cup {NoOne}]
  /\ object \in [Processes -> {"unborn", "threw", "there", "joining", "gone"}]
  /\ id \in [Processes -> Pids \cup {AnyChild}]

Waiting(o) == object[o] \in {"there", "joining"}

(* A child is known by its id to the object that forked it, and only to an *)
(* object that is still to wait or was kept from it; as long as every      *)
(* fork() has succeeded, each object has its child until it waits.         *)
ProcessInv ==
  /\ ProcessTypes
  /\ \A o \in Processes, p \in Pids :
       child[p] # "none" /\ childOf[p] = o =>
         /\ id[o] = p
         /\ Waiting(o) \/ (object[o] = "gone" /\ o \in interrupted)
  /\ failed = {} =>
       /\ foreign = {}
       /\ \A o \in Processes :
            Waiting(o) => /\ id[o] \in Pids
                          /\ child[id[o]] # "none" /\ childOf[id[o]] = o

(* No process object, and no child. *)
LEMMA ProcessInitInv == ProcessInit => ProcessInv
  BY ProcessAssumption
     DEF ProcessInit, ProcessInv, ProcessTypes, Waiting

(* Every step of the objects and their children keeps the invariant. *)
LEMMA ProcessNextInv == ProcessInv /\ [ProcessNext]_processVars => ProcessInv'
  <1> SUFFICES ASSUME ProcessInv, [ProcessNext]_processVars PROVE ProcessInv'
    OBVIOUS
  <1> USE ProcessAssumption DEF ProcessInv, ProcessTypes, Waiting, ghosts
  <1>1. CASE CreateDetached
    BY <1>1 DEF CreateDetached, Forks
  <1>2. ASSUME NEW o \in Processes, ConstructProcess(o) PROVE ProcessInv'
    <2>1. ASSUME NEW p \in Pids, Forks(p, o),
                 object' = [object EXCEPT ![o] = "there"],
                 id' = [id EXCEPT ![o] = p]
          PROVE  ProcessInv'
      BY <1>2, <2>1 DEF ConstructProcess, Forks
    <2>2. ASSUME NEW p \in Pids, Forks(p, NoOne),
                 object' = [object EXCEPT ![o] = "threw"], UNCHANGED id
          PROVE  ProcessInv'
      BY <1>2, <2>2 DEF ConstructProcess, Forks
    <2> QED
      BY <1>2, <2>1, <2>2 DEF ConstructProcess
  <1>3. ASSUME NEW o \in Processes, ForkFails(o) PROVE ProcessInv'
    BY <1>3 DEF ForkFails
  <1>4. ASSUME NEW o \in Processes, DestroyProcess(o) PROVE ProcessInv'
    BY <1>4 DEF DestroyProcess
  <1>5. ASSUME NEW o \in Processes, JoinAndDestroy(o) PROVE ProcessInv'
    BY <1>5 DEF JoinAndDestroy, Awaited
  <1>6. ASSUME NEW o \in Processes, JoinInterrupted(o) PROVE ProcessInv'
    BY <1>6 DEF JoinInterrupted, Awaited
  <1>7. ASSUME NEW p \in Pids,
               SplitOnce(p) \/ SplitBeyond(p) \/ ExecFails(p) \/ ChildDies(p)
        PROVE  ProcessInv'
    BY <1>7 DEF SplitOnce, SplitBeyond, ExecFails, ChildDies
  <1>8. CASE UNCHANGED processVars
    BY <1>8 DEF processVars
  <1> QED
    BY <1>1, <1>2, <1>3, <1>4, <1>5, <1>6, <1>7, <1>8 DEF ProcessNext

(* When ~process() has returned without an interruption its child is over  *)
(* and reaped; and no object waits for the child of another one as long as *)
(* every fork() has succeeded.  For any objects and any ids, used again or *)
(* not.                                                                    *)
THEOREM ReapsItsOwn == ProcessSpec => []EachReapsItsOwn
  <1>1. ProcessInv => EachReapsItsOwn
    BY DEF ProcessInv, EachReapsItsOwn, Waiting
  <1> QED
    BY <1>1, ProcessInitInv, ProcessNextInv, PTL DEF ProcessSpec

-----------------------------------------------------------------------------
(* tls_ptr. *)

Frames == [key : Keys \cup {0}, old : Objects, new : Pointers]

TlsTypes ==
  /\ keys \in 0 .. KeysMax
  /\ routine = 1 .. keys
  /\ handle \in [TlsPtrs -> 0 .. keys]
  /\ slot \in [TlsThreads -> [Keys -> Pointers]]
  /\ state \in [Objects -> {"unborn", "free", "stored", "passed", "dying",
                           "deleted"}]
  /\ stack \in [TlsThreads -> Seq(Frames)]
  /\ life \in [TlsThreads -> {"runs", "ending", "ended"}]
  /\ round \in [TlsThreads -> 0 .. Rounds - 1]
  /\ key \in [TlsThreads -> Nat]

(* A destructor runs for an object that is dying, in whose slot reset() has *)
(* left it, with an object that was passed to reset() for its successor.    *)
Running ==
  \A t \in TlsThreads : \A i \in DOMAIN stack[t] :
    LET f == stack[t][i] IN
      /\ state[f.old] = "dying"
      /\ f.new # NoObject => state[f.new] = "passed"
      /\ f.key # 0 => f.key \in routine /\ slot[t][f.key] = f.old
      /\ f.key = 0 => i = 1 /\ f.new = NoObject

(* No two destructors run for one object, or have one successor.            *)
Distinct ==
  \A t, u \in TlsThreads : \A i \in DOMAIN stack[t], j \in DOMAIN stack[u] :
    <<t, i>> # <<u, j>> =>
      /\ stack[t][i].old # stack[u][j].old
      /\ stack[t][i].new = stack[u][j].new => stack[t][i].new = NoObject

(* No object is in two slots.  One that is in a slot is stored, or dying    *)
(* with its destructor under way in that thread.                            *)
Single ==
  \A t, u \in TlsThreads, k, l \in Keys :
    slot[t][k] = slot[u][l] /\ slot[t][k] # NoObject => t = u /\ k = l

Held(t, k) ==
  \E i \in DOMAIN stack[t] :
    stack[t][i].key = k /\ stack[t][i].old = slot[t][k]

Placed ==
  \A t \in TlsThreads, k \in Keys :
    slot[t][k] # NoObject =>
      /\ k \in routine
      /\ state[slot[t][k]] = "stored" \/ (state[slot[t][k]] = "dying" /\ Held(t, k))

StoredSomewhere ==
  \A o \in Objects :
    state[o] = "stored" => \E t \in TlsThreads, k \in Keys : slot[t][k] = o

(* All of it, until a destructor changes its own slot or a store fails.      *)
Owned == TlsTypes /\ Running /\ Distinct /\ Single /\ Placed /\ StoredSomewhere

TlsInv == tangled \/ Owned

(* What holds of the threads whatever their destructors do: only keys that   *)
(* have a destroy routine have values, and a thread that has ended is left   *)
(* alone.                                                                    *)
Stacks ==
  /\ stack \in [TlsThreads -> Seq(Frames)]
  /\ \A t \in TlsThreads : \A i \in DOMAIN stack[t] :
       stack[t][i].key \in routine \cup {0}

Shape ==
  /\ keys \in 0 .. KeysMax
  /\ routine = 1 .. keys
  /\ handle \in [TlsPtrs -> 0 .. keys]
  /\ slot \in [TlsThreads -> [Keys -> Pointers]]
  /\ Stacks
  /\ life \in [TlsThreads -> {"runs", "ending", "ended"}]
  /\ round \in [TlsThreads -> 0 .. Rounds - 1]
  /\ key \in [TlsThreads -> Nat]
  /\ \A t \in TlsThreads, k \in Keys : slot[t][k] # NoObject => k \in routine

Ends ==
  \A t \in TlsThreads :
    life[t] = "ended" =>
      /\ stack[t] = <<>>
      /\ (\A k \in Keys : slot[t][k] = NoObject) \/ round[t] + 1 = Rounds

-----------------------------------------------------------------------------
(* A sequence with an element more, and with one less.                      *)
LEMMA Appended ==
  ASSUME NEW S, NEW s \in Seq(S), NEW x \in S
  PROVE  /\ Append(s, x) \in Seq(S)
         /\ DOMAIN Append(s, x) = 1 .. Len(s) + 1
         /\ DOMAIN s = 1 .. Len(s) /\ Len(s) \in Nat
         /\ Append(s, x)[Len(s) + 1] = x
         /\ \A i \in DOMAIN s : Append(s, x)[i] = s[i]
  OBVIOUS

(* A sequence without its last element. *)
LEMMA Popped ==
  ASSUME NEW S, NEW s \in Seq(S), s # <<>>
  PROVE  LET r == SubSeq(s, 1, Len(s) - 1) IN
         /\ r \in Seq(S)
         /\ Len(s) \in DOMAIN s /\ s[Len(s)] \in S
         /\ DOMAIN r = DOMAIN s \ {Len(s)}
         /\ \A i \in DOMAIN r : r[i] = s[i]
  OBVIOUS

(* Keys without values, and no objects. *)
LEMMA TlsInitInv == TlsInit => TlsInv /\ Shape /\ Ends
  <1> SUFFICES ASSUME TlsInit PROVE TlsInv /\ Shape /\ Ends
    OBVIOUS
  <1> USE TlsAssumption DEF TlsInit
  <1>1. TlsTypes
    BY DEF TlsTypes, Frames, Keys, Pointers
  <1>2. Running /\ Distinct
    BY DEF Running, Distinct
  <1>3. Single /\ Placed /\ StoredSomewhere
    BY DEF Single, Placed, StoredSomewhere, Keys
  <1>4. Shape /\ Ends
    BY DEF Shape, Stacks, Ends, Keys, Pointers
  <1> QED
    BY <1>1, <1>2, <1>3, <1>4 DEF TlsInv, Owned

(* An object in a slot that the thread is not about to overwrite is stored. *)
LEMMA InSlot ==
  ASSUME Owned, NEW t \in TlsThreads, NEW k \in Keys,
         k \notin Resetting(t), slot[t][k] # NoObject
  PROVE  slot[t][k] \in Objects /\ state[slot[t][k]] = "stored"
  <1>1. slot[t][k] \in Objects
    BY DEF Owned, TlsTypes, Pointers
  <1>2. ~Held(t, k)
    BY DEF Resetting, Held
  <1> QED
    BY <1>1, <1>2 DEF Owned, Placed

(* What the destructors are about is dying, or was passed to reset().       *)
LEMMA Frame ==
  ASSUME Owned, NEW u \in TlsThreads, NEW i \in DOMAIN stack[u]
  PROVE  LET f == stack[u][i] IN
         /\ f \in Frames /\ f.old \in Objects /\ f.new \in Pointers
         /\ f.key \in Keys \cup {0}
         /\ state[f.old] = "dying"
         /\ f.new # NoObject => f.new \in Objects /\ state[f.new] = "passed"
         /\ f.key # 0 => f.key \in routine /\ slot[u][f.key] = f.old
         /\ f.key = 0 => i = 1 /\ f.new = NoObject
  <1> DEFINE f == stack[u][i]
  <1>1. f \in Frames
    BY DEF Owned, TlsTypes
  <1>2. f.old \in Objects /\ f.new \in Pointers /\ f.key \in Keys \cup {0}
    BY <1>1 DEF Frames
  <1>3. f.new # NoObject => f.new \in Objects
    BY <1>2 DEF Pointers
  <1>4. Running!(u)!(i)
    BY DEF Owned, Running
  <1> QED
    BY <1>1, <1>2, <1>3, <1>4

(* What a destructor that runs has to do with is on its way out, and in no slot. *)
LEMMA About ==
  ASSUME Owned, NEW u \in TlsThreads, NEW i \in DOMAIN stack[u], NEW x \in Objects,
         x \in {stack[u][i].old, stack[u][i].new}
  PROVE  state[x] \in {"dying", "passed"}
  BY TlsAssumption, Frame

(* A destructor goes on while the objects and the slot it is about stay.    *)
LEMMA GoesOn ==
  ASSUME Owned, NEW u \in TlsThreads, NEW i \in DOMAIN stack[u],
         stack'[u][i] = stack[u][i], routine \subseteq routine',
         \A x \in Objects :
           x \in {stack[u][i].old, stack[u][i].new} => state'[x] = state[x],
         \A l \in Keys :
           l = stack[u][i].key => slot'[u][l] = slot[u][l]
  PROVE  Running!(u)!(i)'
  <1> DEFINE f == stack[u][i]
  <1>1. f.old \in Objects /\ f.key \in Keys \cup {0}
    BY Frame
  <1>2. Running!(u)!(i) /\ (f.new # NoObject => f.new \in Objects)
    BY Frame
  <1>3. state'[f.old] = "dying"
    BY <1>1, <1>2
  <1>4. f.new # NoObject => state'[f.new] = "passed"
    BY <1>1, <1>2
  <1>5. f.key # 0 => f.key \in routine' /\ slot'[u][f.key] = f.old
    BY <1>1, <1>2
  <1>6. f.key = 0 => i = 1 /\ f.new = NoObject
    BY <1>2
  <1> HIDE DEF f
  <1> QED
    BY <1>3, <1>4, <1>5, <1>6 DEF f

(* An object in a slot stays where it is, and as it is.                     *)
LEMMA StaysPlaced ==
  ASSUME Owned, NEW u \in TlsThreads, NEW l \in Keys,
         slot'[u][l] = slot[u][l], slot[u][l] # NoObject,
         routine \subseteq routine',
         state'[slot[u][l]] = state[slot[u][l]],
         Held(u, l) => Held(u, l)'
  PROVE  Placed!(u, l)!2'
  BY DEF Owned, Placed

(* release() takes the object out of the slot and hands it to the thread. *)
LEMMA Releasing ==
  ASSUME Owned, ~tangled', NEW t \in TlsThreads, NEW k \in routine,
         TlsRelease(t, k)
  PROVE  Owned'
  <1> USE TlsAssumption DEF Changes, TlsRelease, Stored, TlsGet, ending
  <1> DEFINE o == slot[t][k]
  <1>0. k \notin Resetting(t)
    OBVIOUS
  <1>1. k \in Keys
    BY DEF Owned, TlsTypes, Keys
  <1>2. o \in Objects /\ state[o] = "stored"
    BY <1>1, InSlot
  <1>3. /\ slot'[t][k] = NoObject
        /\ \A u \in TlsThreads, l \in Keys :
             <<u, l>> # <<t, k>> => slot'[u][l] = slot[u][l]
    BY <1>1 DEF Owned, TlsTypes
  <1>4. /\ state'[o] = "free"
        /\ \A x \in Objects \ {o} : state'[x] = state[x]
    BY <1>2 DEF Owned, TlsTypes
  <1>5. TlsTypes'
    BY <1>1, <1>2 DEF Owned, TlsTypes, Pointers
  <1>6. Running'
    <2> SUFFICES ASSUME NEW u \in TlsThreads, NEW i \in DOMAIN stack[u]
                 PROVE  Running!(u)!(i)'
      BY DEF Running
    <2>1. \A l \in Keys : l = stack[u][i].key => slot'[u][l] = slot[u][l]
      BY <1>0, <1>3 DEF Resetting
    <2> QED
      BY <1>2, <1>4, <2>1, About, GoesOn
  <1>7. Distinct'
    BY DEF Owned, Distinct
  <1>8. Single'
    BY <1>1, <1>3 DEF Owned, Single
  <1>9. Placed'
    <2> SUFFICES ASSUME NEW u \in TlsThreads, NEW l \in Keys,
                        slot'[u][l] # NoObject
                 PROVE  /\ l \in routine'
                        /\ \/ state'[slot'[u][l]] = "stored"
                           \/ state'[slot'[u][l]] = "dying" /\ Held(u, l)'
      BY DEF Placed
    <2>1. slot'[u][l] = slot[u][l] /\ slot[u][l] # o /\ slot[u][l] \in Objects
      BY <1>1, <1>3 DEF Owned, TlsTypes, Single, Pointers
    <2>2. Held(u, l) => Held(u, l)'
      BY <2>1 DEF Held
    <2> QED
      BY <1>4, <2>1, <2>2 DEF Owned, Placed
  <1>10. StoredSomewhere'
    BY <1>1, <1>2, <1>3, <1>4 DEF Owned, StoredSomewhere
  <1> QED
    BY <1>5, <1>6, <1>7, <1>8, <1>9, <1>10 DEF Owned

(* A step that leaves slots and destructors alone, and only makes or deletes *)
(* objects that are nowhere.                                                 *)
LEMMA Elsewhere ==
  ASSUME Owned, TlsTypes', UNCHANGED <<slot, stack, life, round>>,
         routine \subseteq routine',
         \A o \in Objects :
           state[o] \in {"stored", "passed", "dying"} \/ state'[o] = "stored"
             => state'[o] = state[o]
  PROVE  Owned'
  <1>1. Running'
    <2> SUFFICES ASSUME NEW u \in TlsThreads, NEW i \in DOMAIN stack[u]
                 PROVE  Running!(u)!(i)'
      BY DEF Running
    <2> QED
      BY About, GoesOn
  <1>2. Distinct' /\ Single'
    BY DEF Owned, Distinct, Single
  <1>3. Placed'
    <2> SUFFICES ASSUME NEW u \in TlsThreads, NEW l \in Keys,
                        slot[u][l] # NoObject
                 PROVE  Placed!(u, l)!2'
      BY DEF Placed
    <2>1. slot[u][l] \in Objects /\ (Held(u, l) => Held(u, l)')
      BY DEF Owned, TlsTypes, Pointers, Held
    <2>2. state'[slot[u][l]] = state[slot[u][l]]
      BY <2>1 DEF Owned, Placed
    <2> QED
      BY <2>1, <2>2, StaysPlaced
  <1>4. StoredSomewhere'
    BY DEF Owned, StoredSomewhere
  <1> QED
    BY <1>1, <1>2, <1>3, <1>4 DEF Owned

(* reset() of an empty slot puts the object in and deletes nothing. *)
LEMMA ResettingEmpty ==
  ASSUME Owned, ~tangled', NEW t \in TlsThreads, NEW k \in routine, NEW o,
         TlsResetEmpty(t, k, o)
  PROVE  Owned'
  <1> USE TlsAssumption DEF Changes, TlsResetEmpty, Stored, TlsGet, ending
  <1>1. k \in Keys
    BY DEF Owned, TlsTypes, Keys
  <1>0. k \notin Resetting(t)
    OBVIOUS
  <1>2. CASE UNCHANGED <<slot, state>>
    BY <1>2, Elsewhere DEF Owned, TlsTypes
  <1>3. CASE Stored(t, k, o) /\ state' = [state EXCEPT ![o] = "stored"]
    <2>1. /\ slot'[t][k] = o
          /\ \A u \in TlsThreads, l \in Keys :
               <<u, l>> # <<t, k>> => slot'[u][l] = slot[u][l]
      BY <1>1, <1>3 DEF Owned, TlsTypes
    <2>2. /\ state'[o] = "stored" /\ state[o] = "free"
          /\ \A x \in Objects \ {o} : state'[x] = state[x]
      BY <1>3 DEF Owned, TlsTypes
    <2>3. \A u \in TlsThreads, l \in Keys : slot[u][l] # o
      BY <2>2 DEF Owned, Placed
    <2>4. TlsTypes'
      BY <1>1, <1>3 DEF Owned, TlsTypes, Pointers
    <2>5. Running'
      <3> SUFFICES ASSUME NEW u \in TlsThreads, NEW i \in DOMAIN stack[u]
                   PROVE  Running!(u)!(i)'
        BY DEF Running
      <3>1. \A l \in Keys : l = stack[u][i].key => slot'[u][l] = slot[u][l]
        BY <1>0, <2>1 DEF Resetting
      <3> QED
        BY <2>2, <3>1, About, GoesOn
    <2>6. Distinct'
      BY DEF Owned, Distinct
    <2>7. Single'
      BY <1>1, <2>1, <2>3 DEF Owned, Single
    <2>8. Placed'
      <3> SUFFICES ASSUME NEW u \in TlsThreads, NEW l \in Keys,
                          slot'[u][l] # NoObject, <<u, l>> # <<t, k>>
                   PROVE  /\ l \in routine'
                          /\ \/ state'[slot'[u][l]] = "stored"
                             \/ state'[slot'[u][l]] = "dying" /\ Held(u, l)'
        BY <2>1, <2>2 DEF Placed
      <3>1. slot'[u][l] = slot[u][l] /\ slot[u][l] \in Objects
        BY <2>1 DEF Owned, TlsTypes, Pointers
      <3>2. Held(u, l) => Held(u, l)'
        BY <3>1 DEF Held
      <3> QED
        BY <2>2, <2>3, <3>1, <3>2 DEF Owned, Placed
    <2>9. StoredSomewhere'
      BY <1>1, <2>1, <2>2 DEF Owned, StoredSomewhere
    <2> QED
      BY <2>4, <2>5, <2>6, <2>7, <2>8, <2>9 DEF Owned
  <1> QED
    BY <1>2, <1>3

(* reset() of a slot with an object in it begins ...                        *)
LEMMA ResettingFull ==
  ASSUME Owned, ~tangled', NEW t \in TlsThreads, NEW k \in routine,
         NEW o \in Pointers,
         TlsReset(t, k, o)
  PROVE  Owned'
  <1> USE TlsAssumption DEF Changes, TlsReset, TlsGet, ending
  <1> DEFINE old == slot[t][k]
             n == Len(stack[t]) + 1
             frame == [key |-> k, old |-> old, new |-> o]
  <1>1. k \in Keys /\ k # 0
    BY DEF Owned, TlsTypes, Keys
  <1>2. old \in Objects /\ state[old] = "stored"
    BY <1>1, InSlot
  <1>3. frame \in Frames
    BY <1>1, <1>2 DEF Frames
  <1>4. /\ state'[old] = "dying"
        /\ o # NoObject => o \in Objects /\ state[o] = "free" /\ state'[o] = "passed"
        /\ \A x \in Objects : x \notin {old, o} => state'[x] = state[x]
        /\ state' \in [Objects -> {"unborn", "free", "stored", "passed", "dying",
                                  "deleted"}]
    BY <1>2 DEF Owned, TlsTypes, Dying, Pointers
  <1>5. /\ stack' \in [TlsThreads -> Seq(Frames)]
        /\ stack'[t] = Append(stack[t], frame)
        /\ \A u \in TlsThreads \ {t} : stack'[u] = stack[u]
    BY <1>3 DEF Owned, TlsTypes
  <1> HIDE DEF frame
  <1>6. /\ DOMAIN stack'[t] = DOMAIN stack[t] \cup {n} /\ stack'[t][n] = frame
        /\ n \notin DOMAIN stack[t]
        /\ \A u \in TlsThreads : \A i \in DOMAIN stack[u] : stack'[u][i] = stack[u][i]
    BY <1>3, <1>5, Appended DEF Owned, TlsTypes
  <1> HIDE DEF n
  <1>7. \A u \in TlsThreads : \A i \in DOMAIN stack'[u] :
          (u = t /\ i = n) \/ i \in DOMAIN stack[u]
    BY <1>5, <1>6
  <1>8. TlsTypes'
    BY <1>4, <1>5 DEF Owned, TlsTypes
  <1>9. Running'
    <2> SUFFICES ASSUME NEW u \in TlsThreads, NEW i \in DOMAIN stack'[u]
                 PROVE  Running!(u)!(i)'
      BY DEF Running
    <2>1. CASE i \in DOMAIN stack[u]
      <3>1. \A x \in Objects :
              x \in {stack[u][i].old, stack[u][i].new} => state'[x] = state[x]
        BY <1>2, <1>4, <2>1, About
      <3>2. stack'[u][i] = stack[u][i] /\ slot' = slot /\ routine' = routine
        BY <1>6, <2>1
      <3> QED
        BY <2>1, <3>1, <3>2, GoesOn
    <2>2. CASE u = t /\ i = n
      BY <1>1, <1>4, <1>6, <2>2 DEF frame
    <2> QED
      BY <1>7, <2>1, <2>2
  <1>10. Distinct'
    <2>1. \A u \in TlsThreads : \A i \in DOMAIN stack[u] :
            /\ stack[u][i].old # old
            /\ o # NoObject => stack[u][i].new # o
      BY <1>2, <1>4, About
    <2> QED
      BY <1>6, <1>7, <2>1 DEF Owned, Distinct, frame
  <1>11. Single'
    BY DEF Owned, Single
  <1>12. Placed'
    <2> SUFFICES ASSUME NEW u \in TlsThreads, NEW l \in Keys,
                        slot[u][l] # NoObject
                 PROVE  Placed!(u, l)!2'
      BY DEF Placed
    <2>1. CASE u = t /\ l = k
      BY <1>4, <1>6, <2>1 DEF Held, frame
    <2>2. CASE <<u, l>> # <<t, k>>
      <3>1. slot[u][l] \in Objects /\ slot[u][l] \notin {old, o}
        <4>1. slot[u][l] \in Objects
          BY DEF Owned, TlsTypes, Pointers
        <4>2. slot[u][l] # old
          BY <1>1, <2>2 DEF Owned, Single
        <4>3. slot[u][l] # o
          BY <1>4, <4>1 DEF Owned, Placed
        <4> QED
          BY <4>1, <4>2, <4>3
      <3>2. Held(u, l) => Held(u, l)'
        <4>1. \A i \in DOMAIN stack[u] : i \in DOMAIN stack'[u]
          BY <1>5, <1>6
        <4> QED
          BY <1>6, <4>1 DEF Held
      <3> QED
        BY <1>4, <3>1, <3>2, StaysPlaced
    <2> QED
      BY <2>1, <2>2
  <1>13. StoredSomewhere'
    BY <1>4 DEF Owned, StoredSomewhere
  <1> QED
    BY <1>8, <1>9, <1>10, <1>11, <1>12, <1>13 DEF Owned

(* ... and ends.                                                            *)
LEMMA ResetReturning ==
  ASSUME Owned, ~tangled', NEW t \in TlsThreads, TlsResetReturns(t)
  PROVE  Owned'
  <1> USE TlsAssumption
  <1> DEFINE n == Len(stack[t])
             top == stack[t][n]
             k == top.key
  <1>0. /\ stack[t] # <<>> /\ k # 0
        /\ slot' = [slot EXCEPT ![t][k] = top.new]
        /\ state' = [o \in Objects |-> CASE o = top.old -> "deleted"
                                         [] o = top.new -> "stored"
                                         [] OTHER       -> state[o]]
        /\ stack' = [stack EXCEPT ![t] = SubSeq(@, 1, Len(@) - 1)]
        /\ UNCHANGED <<handle, routine, keys, life, round, key>>
    BY DEF TlsResetReturns, Stored, ending
  <1>1. /\ n \in DOMAIN stack[t] /\ top \in Frames
        /\ stack'[t] \in Seq(Frames) /\ DOMAIN stack'[t] = DOMAIN stack[t] \ {n}
        /\ \A i \in DOMAIN stack'[t] : stack'[t][i] = stack[t][i]
        /\ \A u \in TlsThreads \ {t} : stack'[u] = stack[u]
        /\ stack' \in [TlsThreads -> Seq(Frames)]
    BY <1>0, Popped DEF Owned, TlsTypes
  <1>2. /\ k # 0 /\ k \in Keys /\ k \in routine
        /\ top.old \in Objects /\ top.new \in Pointers
        /\ slot[t][k] = top.old /\ state[top.old] = "dying"
        /\ top.new # NoObject => top.new \in Objects /\ state[top.new] = "passed"
    BY <1>0, <1>1, Frame
  <1>3. /\ state'[top.old] = "deleted"
        /\ top.new # NoObject => state'[top.new] = "stored"
        /\ \A x \in Objects : x \notin {top.old, top.new} => state'[x] = state[x]
        /\ state' \in [Objects -> {"unborn", "free", "stored", "passed", "dying",
                                  "deleted"}]
    BY <1>0, <1>2 DEF Owned, TlsTypes
  <1>4. /\ slot'[t][k] = top.new
        /\ \A u \in TlsThreads, l \in Keys :
             <<u, l>> # <<t, k>> => slot'[u][l] = slot[u][l]
        /\ slot' \in [TlsThreads -> [Keys -> Pointers]]
    BY <1>0, <1>2 DEF Owned, TlsTypes
  <1>5. \A u \in TlsThreads : \A i \in DOMAIN stack'[u] :
          /\ i \in DOMAIN stack[u] /\ stack'[u][i] = stack[u][i]
          /\ <<u, i>> # <<t, n>>
          /\ stack[u][i].old # top.old
          /\ stack[u][i].new = top.new => top.new = NoObject
    BY <1>1 DEF Owned, Distinct
  <1>6. UNCHANGED <<handle, routine, keys, life, round, key>>
    BY <1>0
  <1>7. \A u \in TlsThreads, l \in Keys :
          slot[u][l] = top.new => top.new = NoObject
    BY <1>2 DEF Owned, Placed
  <1> HIDE DEF n, top, k
  <1>8. TlsTypes'
    BY <1>1, <1>3, <1>4, <1>6 DEF Owned, TlsTypes
  <1>9. Running'
    <2> SUFFICES ASSUME NEW u \in TlsThreads, NEW i \in DOMAIN stack'[u]
                 PROVE  Running!(u)!(i)'
      BY DEF Running
    <2>1. i \in DOMAIN stack[u] /\ stack'[u][i] = stack[u][i]
      BY <1>5
    <2>2. \A x \in Objects :
            x \in {stack[u][i].old, stack[u][i].new} => state'[x] = state[x]
      <3>1. stack[u][i].new # top.old /\ stack[u][i].old # top.new
        BY <1>2, <2>1, Frame
      <3> QED
        BY <1>3, <1>5, <3>1
    <2>3. \A l \in Keys : l = stack[u][i].key => slot'[u][l] = slot[u][l]
      <3> SUFFICES ASSUME u = t, stack[u][i].key = k
                   PROVE  FALSE
        BY <1>4
      <3>1. slot[t][k] = stack[u][i].old
        BY <1>2, <2>1 DEF Owned, Running
      <3> QED
        BY <1>2, <1>5, <3>1
    <2> QED
      BY <1>6, <2>1, <2>2, <2>3, GoesOn
  <1>10. Distinct'
    BY <1>5 DEF Owned, Distinct
  <1>11. Single'
    BY <1>2, <1>4, <1>7 DEF Owned, Single
  <1>12. Placed'
    <2> SUFFICES ASSUME NEW u \in TlsThreads, NEW l \in Keys,
                        slot'[u][l] # NoObject
                 PROVE  Placed!(u, l)!2'
      BY DEF Placed
    <2>1. CASE u = t /\ l = k
      BY <1>2, <1>3, <1>4, <1>6, <2>1
    <2>2. CASE <<u, l>> # <<t, k>>
      <3>1. slot'[u][l] = slot[u][l] /\ slot[u][l] \in Objects
        BY <1>4, <2>2 DEF Owned, TlsTypes, Pointers
      <3>2. slot[u][l] \notin {top.old, top.new}
        BY <1>2, <1>7, <2>2, <3>1 DEF Owned, Single
      <3>3. Held(u, l) => Held(u, l)'
        <4> SUFFICES ASSUME NEW i \in DOMAIN stack[u], stack[u][i].key = l,
                            stack[u][i].old = slot[u][l]
                     PROVE  Held(u, l)'
          BY DEF Held
        <4>1. i \in DOMAIN stack'[u]
          BY <1>1, <2>2 DEF top, k
        <4> QED
          BY <1>5, <3>1, <4>1 DEF Held
      <3> QED
        BY <1>3, <1>6, <3>1, <3>2, <3>3, StaysPlaced
    <2> QED
      BY <2>1, <2>2
  <1>13. StoredSomewhere'
    BY <1>2, <1>3, <1>4 DEF Owned, StoredSomewhere
  <1> QED
    BY <1>8, <1>9, <1>10, <1>11, <1>12, <1>13 DEF Owned

(* The system hands an object of an ending thread to cleanup() ...          *)
LEMMA CleaningUp ==
  ASSUME Owned, NEW t \in TlsThreads, TlsCleanup(t)
  PROVE  Owned'
  <1> USE TlsAssumption DEF TlsCleanup, Stored
  <1> DEFINE k == key[t]
             o == slot[t][k]
             frame == [key |-> 0, old |-> o, new |-> NoObject]
  <1>1. k \in Keys /\ k # 0 /\ k \in routine /\ k \notin Resetting(t)
    BY DEF Owned, TlsTypes, Keys, Resetting
  <1>2. o \in Objects /\ state[o] = "stored"
    BY <1>1, InSlot
  <1>3. /\ state'[o] = "dying"
        /\ \A x \in Objects \ {o} : state'[x] = state[x]
        /\ state' \in [Objects -> {"unborn", "free", "stored", "passed", "dying",
                                  "deleted"}]
    BY <1>2 DEF Owned, TlsTypes, Dying
  <1>4. /\ slot'[t][k] = NoObject
        /\ \A u \in TlsThreads, l \in Keys :
             <<u, l>> # <<t, k>> => slot'[u][l] = slot[u][l]
        /\ slot' \in [TlsThreads -> [Keys -> Pointers]]
    BY <1>1 DEF Owned, TlsTypes, Pointers
  <1>5. frame \in Frames
    BY <1>2 DEF Frames, Pointers
  <1>6. /\ stack'[t] = <<frame>> /\ stack[t] = <<>>
        /\ \A u \in TlsThreads \ {t} : stack'[u] = stack[u]
        /\ stack' \in [TlsThreads -> Seq(Frames)]
    BY <1>5 DEF Owned, TlsTypes
  <1> HIDE DEF frame
  <1>7. \A u \in TlsThreads : \A i \in DOMAIN stack'[u] :
          \/ u = t /\ i = 1 /\ stack'[u][i] = frame
          \/ u # t /\ i \in DOMAIN stack[u] /\ stack'[u][i] = stack[u][i]
    BY <1>6
  <1>8. UNCHANGED <<handle, routine, keys, life, round>> /\ k \in Nat /\ key'[t] = k + 1
    BY DEF Owned, TlsTypes
  <1>9. TlsTypes'
    <2>1. key' \in [TlsThreads -> Nat]
      BY <1>8 DEF Owned, TlsTypes
    <2> QED
      BY <1>3, <1>4, <1>6, <1>8, <2>1 DEF Owned, TlsTypes
  <1> HIDE DEF TlsCleanup, k, o
  <1>10. Running'
    <2> SUFFICES ASSUME NEW u \in TlsThreads, NEW i \in DOMAIN stack'[u]
                 PROVE  Running!(u)!(i)'
      BY DEF Running
    <2>1. CASE u = t /\ i = 1 /\ stack'[u][i] = frame
      BY <1>3, <2>1 DEF frame, o
    <2>2. CASE u # t /\ i \in DOMAIN stack[u] /\ stack'[u][i] = stack[u][i]
      BY <1>2, <1>3, <1>4, <1>8, <2>2, About, GoesOn
    <2> QED
      BY <1>7, <2>1, <2>2
  <1>11. Distinct'
    <2>1. \A u \in TlsThreads : \A i \in DOMAIN stack[u] : stack[u][i].old # o
      BY <1>2, Frame
    <2> QED
      BY <1>7, <2>1 DEF Owned, Distinct, frame, o
  <1>12. Single'
    BY <1>4 DEF Owned, Single
  <1>13. Placed'
    <2> SUFFICES ASSUME NEW u \in TlsThreads, NEW l \in Keys,
                        slot'[u][l] # NoObject
                 PROVE  Placed!(u, l)!2'
      BY DEF Placed
    <2>1. slot'[u][l] = slot[u][l] /\ slot[u][l] \in Objects /\ slot[u][l] # o
      BY <1>1, <1>4 DEF Owned, TlsTypes, Single, Pointers, o
    <2>2. Held(u, l) => Held(u, l)'
      BY <1>6, <2>1 DEF Held
    <2> QED
      BY <1>3, <1>8, <2>1, <2>2, StaysPlaced
  <1>14. StoredSomewhere'
    BY <1>3, <1>4 DEF Owned, StoredSomewhere, o
  <1> QED
    BY <1>9, <1>10, <1>11, <1>12, <1>13, <1>14 DEF Owned

(* ... which returns.                                                       *)
LEMMA CleanupReturning ==
  ASSUME Owned, NEW t \in TlsThreads, TlsCleanupReturns(t)
  PROVE  Owned'
  <1> USE TlsAssumption DEF TlsCleanupReturns, ending
  <1> DEFINE o == stack[t][1].old
  <1>1. DOMAIN stack[t] = {1} /\ o \in Objects /\ state[o] = "dying"
    <2>1. DOMAIN stack[t] = {1}
      BY DEF Owned, TlsTypes
    <2> QED
      BY <2>1, Frame
  <1>2. \A u \in TlsThreads : \A i \in DOMAIN stack[u] :
          u # t => stack[u][i].old # o /\ stack[u][i].new # o
    BY <1>1, Frame DEF Owned, Distinct
  <1>3. /\ \A x \in Objects \ {o} : state'[x] = state[x]
        /\ state'[o] = "deleted"
        /\ state' \in [Objects -> {"unborn", "free", "stored", "passed", "dying",
                                  "deleted"}]
    BY <1>1 DEF Owned, TlsTypes
  <1>4. /\ stack'[t] = <<>> /\ \A u \in TlsThreads \ {t} : stack'[u] = stack[u]
        /\ stack' \in [TlsThreads -> Seq(Frames)]
    BY DEF Owned, TlsTypes
  <1>5. UNCHANGED <<handle, routine, keys, slot, life, round, key>>
    OBVIOUS
  <1>6. stack[t][1].key = 0
    OBVIOUS
  <1>7. TlsTypes'
    BY <1>3, <1>4, <1>5 DEF Owned, TlsTypes
  <1> HIDE DEF TlsCleanupReturns, o
  <1>8. Running'
    <2> SUFFICES ASSUME NEW u \in TlsThreads, NEW i \in DOMAIN stack'[u]
                 PROVE  Running!(u)!(i)'
      BY DEF Running
    <2>1. u # t /\ i \in DOMAIN stack[u] /\ stack'[u][i] = stack[u][i]
      BY <1>4
    <2> QED
      BY <1>2, <1>3, <1>5, <2>1, GoesOn
  <1>9. Distinct' /\ Single'
    <2>1. \A u \in TlsThreads : \A i \in DOMAIN stack'[u] :
            i \in DOMAIN stack[u] /\ stack'[u][i] = stack[u][i]
      BY <1>4
    <2> QED
      BY <1>5, <2>1 DEF Owned, Distinct, Single
  <1>10. Placed'
    <2> SUFFICES ASSUME NEW u \in TlsThreads, NEW l \in Keys,
                        slot[u][l] # NoObject
                 PROVE  Placed!(u, l)!2'
      BY <1>5 DEF Placed
    <2>1. slot[u][l] \in Objects /\ l # 0
      BY DEF Owned, TlsTypes, Pointers, Keys
    <2>2. Held(u, l) => u # t
      BY <1>1, <1>6, <2>1 DEF Held
    <2>3. slot[u][l] # o
      <3> SUFFICES ASSUME slot[u][l] = o PROVE FALSE
        OBVIOUS
      <3>1. Held(u, l)
        BY <1>1, <2>1 DEF Owned, Placed
      <3> QED
        BY <1>2, <2>2, <3>1 DEF Held
    <2>4. Held(u, l) => Held(u, l)'
      BY <1>4, <1>5, <2>2 DEF Held
    <2> QED
      BY <1>3, <1>5, <2>1, <2>3, <2>4, StaysPlaced
  <1>11. StoredSomewhere'
    BY <1>3, <1>5 DEF Owned, StoredSomewhere
  <1> QED
    BY <1>7, <1>8, <1>9, <1>10, <1>11 DEF Owned

(* The end of a thread, key by key and round by round.                      *)
LEMMA Ending ==
  ASSUME Owned, Shape', NEW t \in TlsThreads,
         TlsThreadEnds(t) \/ TlsNextKey(t) \/ TlsNextRound(t)
  PROVE  Owned'
  <1> USE TlsAssumption DEF Owned
  <1>1. UNCHANGED <<handle, routine, keys, slot, state, stack>>
    BY DEF TlsThreadEnds, TlsNextKey, TlsNextRound
  <1>2. Running' /\ Distinct' /\ Single' /\ Placed' /\ StoredSomewhere'
    BY <1>1 DEF Running, Distinct, Single, Placed, StoredSomewhere, Held
  <1>3. TlsTypes'
    BY <1>1 DEF Shape, Stacks, TlsTypes
  <1> QED
    BY <1>2, <1>3

-----------------------------------------------------------------------------
(* The thread t pushes a destructor, or its innermost one returns.           *)
LEMMA ShapePushed ==
  ASSUME Shape, NEW t \in TlsThreads, NEW f \in Frames, f.key \in routine \cup {0},
         stack' = [stack EXCEPT ![t] = Append(@, f)], routine' = routine
  PROVE  Stacks'
  <1>1. /\ stack'[t] = Append(stack[t], f)
        /\ \A u \in TlsThreads \ {t} : stack'[u] = stack[u]
        /\ stack' \in [TlsThreads -> Seq(Frames)]
    BY DEF Shape, Stacks
  <1>2. /\ DOMAIN stack'[t] = 1 .. Len(stack[t]) + 1
        /\ DOMAIN stack[t] = 1 .. Len(stack[t]) /\ Len(stack[t]) \in Nat
        /\ stack'[t][Len(stack[t]) + 1] = f
        /\ \A i \in DOMAIN stack[t] : stack'[t][i] = stack[t][i]
    BY <1>1, Appended DEF Shape, Stacks
  <1> QED
    BY <1>1, <1>2 DEF Shape, Stacks

LEMMA ShapePopped ==
  ASSUME Shape, NEW t \in TlsThreads, stack[t] # <<>>,
         stack' = [stack EXCEPT ![t] = SubSeq(@, 1, Len(@) - 1)], routine' = routine
  PROVE  /\ Stacks'
         /\ Len(stack[t]) \in DOMAIN stack[t]
         /\ stack[t][Len(stack[t])] \in Frames
  <1>1. /\ \A u \in TlsThreads \ {t} : stack'[u] = stack[u]
        /\ stack'[t] = SubSeq(stack[t], 1, Len(stack[t]) - 1)
        /\ stack[t] \in Seq(Frames)
    BY DEF Shape, Stacks
  <1>2. /\ stack'[t] \in Seq(Frames)
        /\ Len(stack[t]) \in DOMAIN stack[t] /\ stack[t][Len(stack[t])] \in Frames
        /\ DOMAIN stack'[t] = DOMAIN stack[t] \ {Len(stack[t])}
        /\ \A i \in DOMAIN stack'[t] : stack'[t][i] = stack[t][i]
    BY <1>1, Popped
  <1>3. stack' \in [TlsThreads -> Seq(Frames)]
    BY <1>1, <1>2 DEF Shape, Stacks
  <1> QED
    BY <1>1, <1>2, <1>3 DEF Shape, Stacks

(* The slots and the ends of the threads, in every step.                     *)
LEMMA ShapeNext == Shape /\ Ends /\ [TlsNext]_tlsVars => Shape' /\ Ends'
  <1> SUFFICES ASSUME Shape, Ends, [TlsNext]_tlsVars PROVE Shape' /\ Ends'
    OBVIOUS
  <1> USE TlsAssumption
  <1>1. ASSUME NEW p \in TlsPtrs, TlsConstruct(p) \/ TlsDestroy(p)
        PROVE  Shape' /\ Ends'
    <2>1. UNCHANGED <<slot, stack, life, round, key>>
      BY <1>1 DEF TlsConstruct, TlsDestroy, ending
    <2>2. /\ keys' \in 0 .. KeysMax /\ routine' = 1 .. keys'
          /\ routine \subseteq routine'
          /\ handle' \in [TlsPtrs -> 0 .. keys']
      <3>1. CASE TlsConstruct(p)
        BY <3>1 DEF TlsConstruct, Shape
      <3>2. CASE TlsDestroy(p)
        BY <3>2 DEF TlsDestroy, Shape
      <3> QED
        BY <1>1, <3>1, <3>2
    <2>3. Shape'
      BY <2>1, <2>2 DEF Shape, Stacks
    <2>4. Ends'
      BY <2>1 DEF Ends
    <2> QED
      BY <2>3, <2>4
  <1>2. ASSUME NEW p \in TlsPtrs, handle[p] # 0, NEW t \in TlsThreads,
               \/ TlsRelease(t, handle[p])
               \/ \E o \in Pointers : TlsResetEmpty(t, handle[p], o)
        PROVE  Shape' /\ Ends'
    <2>1. handle[p] \in routine /\ handle[p] \in Keys
      BY <1>2 DEF Shape, Keys
    <2>2. /\ UNCHANGED <<handle, routine, keys, stack, life, round, key>>
          /\ life[t] # "ended"
      BY <1>2 DEF TlsRelease, TlsResetEmpty, ending, Active, Ends
    <2>3. \/ slot' = slot
          \/ \E o \in Pointers : slot' = [slot EXCEPT ![t][handle[p]] = o]
      BY <1>2 DEF TlsRelease, TlsResetEmpty, Stored, Pointers
    <2>4. /\ slot' \in [TlsThreads -> [Keys -> Pointers]]
          /\ \A u \in TlsThreads, l \in Keys :
               u # t \/ l # handle[p] => slot'[u][l] = slot[u][l]
      <3>1. slot \in [TlsThreads -> [Keys -> Pointers]]
        BY DEF Shape
      <3>2. CASE slot' = slot
        BY <3>1, <3>2
      <3>3. ASSUME NEW o \in Pointers, slot' = [slot EXCEPT ![t][handle[p]] = o]
            PROVE  /\ slot' \in [TlsThreads -> [Keys -> Pointers]]
                   /\ \A u \in TlsThreads, l \in Keys :
                        u # t \/ l # handle[p] => slot'[u][l] = slot[u][l]
        BY <2>1, <3>1, <3>3
      <3> QED
        BY <2>3, <3>2, <3>3
    <2>5. Stacks'
      BY <2>2 DEF Shape, Stacks
    <2>6. \A u \in TlsThreads, l \in Keys : slot'[u][l] # NoObject => l \in routine
      <3>1. \A u \in TlsThreads, l \in Keys : slot[u][l] # NoObject => l \in routine
        BY DEF Shape
      <3> QED
        BY <2>1, <2>4, <3>1
    <2>7. Ends'
      BY <2>2, <2>4 DEF Ends
    <2> QED
      BY <2>2, <2>4, <2>5, <2>6, <2>7 DEF Shape
  <1>3. ASSUME NEW p \in TlsPtrs, handle[p] # 0, NEW t \in TlsThreads,
               NEW o \in Pointers, TlsReset(t, handle[p], o)
        PROVE  Shape' /\ Ends'
    <2> DEFINE f == [key |-> handle[p], old |-> slot[t][handle[p]], new |-> o]
    <2>1. handle[p] \in routine /\ handle[p] \in Keys
      BY <1>3 DEF Shape, Keys
    <2>2. f \in Frames /\ f.key \in routine \cup {0}
      BY <1>3, <2>1 DEF TlsReset, TlsGet, Shape, Frames, Pointers
    <2>3. /\ stack' = [stack EXCEPT ![t] = Append(@, f)]
          /\ UNCHANGED <<handle, routine, keys, slot, life, round, key>>
      BY <1>3 DEF TlsReset, TlsGet, ending
    <2> HIDE DEF f
    <2>4. Stacks'
      BY <2>2, <2>3, ShapePushed
    <2>5. life[t] # "ended" /\ \A u \in TlsThreads \ {t} : stack'[u] = stack[u]
      BY <1>3, <2>3 DEF TlsReset, Active, Shape, Stacks, Ends
    <2> QED
      BY <2>3, <2>4, <2>5 DEF Shape, Ends
  <1>4. ASSUME NEW o \in Objects, New(o) \/ DeleteFree(o) PROVE Shape' /\ Ends'
    BY <1>4 DEF New, DeleteFree, Shape, Stacks, Ends, ending
  <1>5. ASSUME NEW t \in TlsThreads, TlsResetReturns(t) PROVE Shape' /\ Ends'
    <2> DEFINE top == stack[t][Len(stack[t])]
    <2>1. /\ stack[t] # <<>> /\ top.key # 0
          /\ stack' = [stack EXCEPT ![t] = SubSeq(@, 1, Len(@) - 1)]
          /\ slot' = slot \/ slot' = [slot EXCEPT ![t][top.key] = top.new]
          /\ UNCHANGED <<handle, routine, keys, life, round, key>>
      BY <1>5 DEF TlsResetReturns, Stored, ending
    <2>2. Stacks' /\ Len(stack[t]) \in DOMAIN stack[t] /\ top \in Frames
      BY <2>1, ShapePopped
    <2>3. top.key \in routine /\ top.key \in Keys /\ top.new \in Pointers
      BY <2>1, <2>2 DEF Shape, Stacks, Frames
    <2>4. life[t] # "ended" /\ \A u \in TlsThreads \ {t} : stack'[u] = stack[u]
      BY <2>1 DEF Ends, Shape, Stacks
    <2> HIDE DEF top
    <2>5. /\ slot' \in [TlsThreads -> [Keys -> Pointers]]
          /\ \A u \in TlsThreads, l \in Keys :
               u # t \/ l # top.key => slot'[u][l] = slot[u][l]
      <3>1. slot \in [TlsThreads -> [Keys -> Pointers]]
        BY DEF Shape
      <3>2. CASE slot' = slot
        BY <3>1, <3>2
      <3>3. CASE slot' = [slot EXCEPT ![t][top.key] = top.new]
        BY <2>3, <3>1, <3>3
      <3> QED
        BY <2>1, <3>2, <3>3
    <2>6. \A u \in TlsThreads, l \in Keys : slot'[u][l] # NoObject => l \in routine
      <3>1. \A u \in TlsThreads, l \in Keys : slot[u][l] # NoObject => l \in routine
        BY DEF Shape
      <3> QED
        BY <2>3, <2>5, <3>1
    <2>7. Ends'
      BY <2>1, <2>4, <2>5 DEF Ends
    <2> QED
      BY <2>1, <2>2, <2>5, <2>6, <2>7 DEF Shape
  <1>6. ASSUME NEW t \in TlsThreads, TlsCleanup(t) PROVE Shape' /\ Ends'
    <2> DEFINE f == [key |-> 0, old |-> slot[t][key[t]], new |-> NoObject]
    <2>1. key[t] \in routine /\ key[t] \in Keys
      BY <1>6 DEF TlsCleanup, Shape, Keys
    <2>2. f \in Frames /\ f.key = 0
      BY <1>6, <2>1 DEF TlsCleanup, Shape, Frames, Pointers
    <2>3. /\ stack' = [stack EXCEPT ![t] = <<f>>]
          /\ slot' = [slot EXCEPT ![t][key[t]] = NoObject]
          /\ key' = [key EXCEPT ![t] = @ + 1]
          /\ UNCHANGED <<handle, routine, keys, life, round>>
          /\ life[t] # "ended"
      BY <1>6 DEF TlsCleanup, Stored
    <2> HIDE DEF f
    <2>4. Stacks'
      BY <2>2, <2>3 DEF Shape, Stacks
    <2> QED
      BY <2>1, <2>3, <2>4 DEF Shape, Stacks, Ends, Pointers
  <1>7. ASSUME NEW t \in TlsThreads, TlsCleanupReturns(t) PROVE Shape' /\ Ends'
    BY <1>7 DEF TlsCleanupReturns, Shape, Stacks, Ends, ending
  <1>8. ASSUME NEW t \in TlsThreads, TlsThreadEnds(t) \/ TlsNextKey(t)
        PROVE  Shape' /\ Ends'
    <2>1. UNCHANGED <<handle, routine, keys, slot, stack, round>>
      BY <1>8 DEF TlsThreadEnds, TlsNextKey
    <2>2. key' \in [TlsThreads -> Nat]
      <3>1. \/ key' = [key EXCEPT ![t] = 1]
            \/ key' = [key EXCEPT ![t] = @ + 1]
        BY <1>8 DEF TlsThreadEnds, TlsNextKey
      <3>2. key \in [TlsThreads -> Nat]
        BY DEF Shape
      <3> QED
        BY <3>1, <3>2
    <2>3. /\ life' \in [TlsThreads -> {"runs", "ending", "ended"}]
          /\ \A u \in TlsThreads : life'[u] = "ended" => life[u] = "ended"
      BY <1>8 DEF TlsThreadEnds, TlsNextKey, Shape
    <2>4. Shape'
      BY <2>1, <2>2, <2>3 DEF Shape, Stacks
    <2>5. Ends'
      BY <2>1, <2>3 DEF Ends
    <2> QED
      BY <2>4, <2>5
  <1>9. ASSUME NEW t \in TlsThreads, TlsNextRound(t) PROVE Shape' /\ Ends'
    <2> DEFINE left == \E k \in routine : slot[t][k] # NoObject
    <2>1. ~left => \A k \in Keys : slot[t][k] = NoObject
      BY DEF Shape
    <2>2. /\ round[t] \in 0 .. Rounds - 1 /\ stack[t] = <<>> /\ life[t] = "ending"
          /\ UNCHANGED <<handle, routine, keys, slot, stack>>
      BY <1>9 DEF TlsNextRound, Shape
    <2>3. CASE left /\ round[t] + 1 < Rounds
      <3>1. /\ round' = [round EXCEPT ![t] = @ + 1]
            /\ key' = [key EXCEPT ![t] = 1] /\ UNCHANGED life
        BY <1>9, <2>3 DEF TlsNextRound
      <3> HIDE DEF left
      <3>2. round' \in [TlsThreads -> 0 .. Rounds - 1]
        BY <2>2, <2>3, <3>1 DEF Shape
      <3> QED
        BY <2>2, <3>1, <3>2 DEF Shape, Stacks, Ends
    <2>4. CASE ~(left /\ round[t] + 1 < Rounds)
      <3>1. (\A k \in Keys : slot[t][k] = NoObject) \/ round[t] + 1 = Rounds
        BY <2>1, <2>2, <2>4
      <3>2. /\ life' = [life EXCEPT ![t] = "ended"]
            /\ key' = [key EXCEPT ![t] = 0] /\ UNCHANGED round
        BY <1>9, <2>4 DEF TlsNextRound
      <3> HIDE DEF left
      <3> QED
        BY <2>2, <3>1, <3>2 DEF Shape, Stacks, Ends
    <2> QED
      BY <2>3, <2>4
  <1>10. CASE UNCHANGED tlsVars
    BY <1>10 DEF tlsVars, Shape, Stacks, Ends
  <1> QED
    BY <1>1, <1>2, <1>3, <1>4, <1>5, <1>6, <1>7, <1>8, <1>9, <1>10 DEF TlsNext

(* What is tangled stays tangled.                                            *)
LEMMA StaysTangled == tangled /\ [TlsNext]_tlsVars => tangled'
  <1> SUFFICES ASSUME tangled, [TlsNext]_tlsVars PROVE tangled'
    OBVIOUS
  <1>1. ASSUME NEW p \in TlsPtrs, TlsConstruct(p) \/ TlsDestroy(p) PROVE tangled'
    BY <1>1 DEF TlsConstruct, TlsDestroy
  <1>2. ASSUME NEW p \in TlsPtrs, NEW t \in TlsThreads,
               \/ TlsRelease(t, handle[p])
               \/ \E o \in Pointers :
                    TlsResetEmpty(t, handle[p], o) \/ TlsReset(t, handle[p], o)
        PROVE  tangled'
    BY <1>2 DEF TlsRelease, TlsResetEmpty, TlsReset, Changes
  <1>3. ASSUME NEW o \in Objects, New(o) \/ DeleteFree(o) PROVE tangled'
    BY <1>3 DEF New, DeleteFree
  <1>4. ASSUME NEW t \in TlsThreads, TlsResetReturns(t) PROVE tangled'
    BY <1>4 DEF TlsResetReturns
  <1>5. ASSUME NEW t \in TlsThreads,
               \/ TlsThreadEnds(t) \/ TlsCleanup(t) \/ TlsCleanupReturns(t)
               \/ TlsNextKey(t) \/ TlsNextRound(t)
        PROVE  tangled'
    BY <1>5 DEF TlsThreadEnds, TlsCleanup, TlsCleanupReturns, TlsNextKey,
                TlsNextRound
  <1>6. CASE UNCHANGED tlsVars
    BY <1>6 DEF tlsVars
  <1> QED
    BY <1>1, <1>2, <1>3, <1>4, <1>5, <1>6 DEF TlsNext

(* Every step of the threads, their tls_ptrs and the destructors keeps the   *)
(* order among the objects, unless it tangles it.                            *)
LEMMA TlsNextInv ==
  Shape' /\ TlsInv /\ [TlsNext]_tlsVars => TlsInv'
  <1> SUFFICES ASSUME Shape', Owned, ~tangled', [TlsNext]_tlsVars PROVE Owned'
    BY StaysTangled DEF TlsInv
  <1> USE TlsAssumption
  <1>1. ASSUME NEW p \in TlsPtrs, TlsConstruct(p) PROVE Owned'
    <2>1. TlsTypes'
      BY <1>1 DEF TlsConstruct, Owned, TlsTypes, ending
    <2> QED
      BY <1>1, <2>1, Elsewhere DEF TlsConstruct, ending
  <1>2. ASSUME NEW p \in TlsPtrs, TlsDestroy(p) PROVE Owned'
    <2>1. TlsTypes'
      BY <1>2 DEF TlsDestroy, Owned, TlsTypes, ending
    <2> QED
      BY <1>2, <2>1, Elsewhere DEF TlsDestroy, ending
  <1>3. ASSUME NEW p \in TlsPtrs, handle[p] # 0, NEW t \in TlsThreads,
               \/ TlsRelease(t, handle[p])
               \/ \E o \in Pointers :
                    TlsResetEmpty(t, handle[p], o) \/ TlsReset(t, handle[p], o)
        PROVE  Owned'
    <2>1. handle[p] \in routine
      BY <1>3 DEF Owned, TlsTypes
    <2> QED
      BY <1>3, <2>1, Releasing, ResettingEmpty, ResettingFull
  <1>4. ASSUME NEW o \in Objects, New(o) \/ DeleteFree(o) PROVE Owned'
    <2>1. TlsTypes'
      BY <1>4 DEF New, DeleteFree, Owned, TlsTypes, ending
    <2>2. \A x \in Objects \ {o} : state'[x] = state[x]
      BY <1>4 DEF New, DeleteFree, Owned, TlsTypes
    <2>3. state[o] \in {"unborn", "free"} /\ state'[o] # "stored"
      BY <1>4 DEF New, DeleteFree, Owned, TlsTypes
    <2> QED
      BY <1>4, <2>1, <2>2, <2>3, Elsewhere DEF New, DeleteFree, ending
  <1>5. ASSUME NEW t \in TlsThreads,
               \/ TlsResetReturns(t)
               \/ TlsThreadEnds(t) \/ TlsCleanup(t) \/ TlsCleanupReturns(t)
               \/ TlsNextKey(t) \/ TlsNextRound(t)
        PROVE  Owned'
    BY <1>5, ResetReturning, CleaningUp, CleanupReturning, Ending
  <1>6. CASE UNCHANGED tlsVars
    BY <1>6, Elsewhere DEF tlsVars, Owned, TlsTypes
  <1> QED
    BY <1>1, <1>2, <1>3, <1>4, <1>5, <1>6 DEF TlsNext

(* No object of a tls_ptr is deleted twice, is lost or has two owners, and   *)
(* no slot points to one that is gone, until a destructor resets or releases *)
(* the slot of its own object or reset() fails to store: whatever else the   *)
(* destructors do with the tls_ptrs of their thread, for any number of       *)
(* threads, keys and objects.                                                *)
THEOREM ObjectsHaveOneOwner == TlsSpec => []OneOwner
  <1>1. TlsInv => OneOwner
    <2> SUFFICES ASSUME Owned, NEW o \in Objects PROVE OneOwner!2!(o)
      BY DEF OneOwner, TlsInv
    <2>1. \A q \in Places(o) :
            /\ q[1] \in TlsThreads /\ q[2] \in Keys /\ q = <<q[1], q[2]>>
            /\ slot[q[1]][q[2]] = o /\ o # NoObject
      BY TlsAssumption DEF Places
    <2>2. state[o] # "twice"
      BY DEF Owned, TlsTypes
    <2>3. state[o] = "stored" => \E q \in Places(o) : Places(o) = {q}
      <3> SUFFICES ASSUME state[o] = "stored"
                   PROVE  \E q \in Places(o) : Places(o) = {q}
        OBVIOUS
      <3>1. PICK t \in TlsThreads, k \in Keys : slot[t][k] = o
        BY DEF Owned, StoredSomewhere
      <3>2. <<t, k>> \in Places(o)
        BY <3>1 DEF Places
      <3>3. \A r \in Places(o) : r = <<t, k>>
        BY <2>1, <3>1 DEF Owned, Single
      <3> QED
        BY <3>2, <3>3
    <2>4. state[o] \in {"unborn", "free", "passed", "deleted"} => Places(o) = {}
      BY <2>1 DEF Owned, Placed
    <2>5. state[o] = "dying" => \A q \in Places(o) : Held(q[1], q[2])
      BY <2>1 DEF Owned, Placed
    <2> QED
      BY <2>1, <2>2, <2>3, <2>4, <2>5 DEF Held
  <1> QED
    BY <1>1, TlsInitInv, TlsNextInv, ShapeNext, PTL DEF TlsSpec

(* A thread that has ended leaves nothing in its slots, unless its           *)
(* destructors went on storing objects for as many rounds as there are.      *)
THEOREM ThreadsEndEmpty == TlsSpec => []EndedEmpty
  <1>1. Ends => EndedEmpty
    BY DEF Ends, EndedEmpty
  <1> QED
    BY <1>1, TlsInitInv, ShapeNext, PTL DEF TlsSpec

-----------------------------------------------------------------------------
(* mem_pool. *)

(* Two functions that start alike and go on alike are alike.               *)
GoOnAlike(f, g, k) == /\ f[0] = g[0]
                      /\ \A n \in 1 .. k : f[n - 1] = g[n - 1] => f[n] = g[n]
Alike(f, g, k) == \A n \in 0 .. k : f[n] = g[n]

(* The values of the two functions agree up to k: there is no least place where they
   part. *)
LEMMA StayAlike ==
  ASSUME NEW k \in Nat, NEW f, NEW g, GoOnAlike(f, g, k)
  PROVE  Alike(f, g, k)
  <1>. DEFINE R == {p \in Nat \X Nat : p[1] < p[2]}
              Unlike == {n \in 0 .. k : f[n] # g[n]}
  <1>1. IsWellFoundedOn(R, Nat)
    BY NatLessThanWellFounded DEF OpToRel
  <1>2. \A x, y \in Nat : y < x => <<y, x>> \in R
    OBVIOUS
  <1>3. SUFFICES ASSUME Unlike # {}  PROVE FALSE
    BY DEF Alike
  <1>4. Unlike \in SUBSET Nat
    OBVIOUS
  <1>5. \E x \in Unlike : \A y \in Unlike : ~(<<y, x>> \in R)
    <2>. HIDE DEF R, Unlike
    <2> QED
      BY <1>1, <1>3, <1>4, WFMin
  <1>6. PICK m \in Unlike : \A y \in Unlike : ~(y < m)
    <2>. HIDE DEF R, Unlike
    <2> QED
      BY <1>2, <1>4, <1>5
  <1>7. m \in 1 .. k /\ m - 1 \in 0 .. k /\ m - 1 < m
    BY DEF GoOnAlike
  <1>8. f[m - 1] = g[m - 1]
    BY <1>6, <1>7
  <1> QED
    BY <1>7, <1>8 DEF GoOnAlike

-----------------------------------------------------------------------------
AllChunks == UNION {Cut(b) : b \in 1 .. blocks}

(* The threads that are giving back what is in chunk[t].                   *)
Returning(t) == op[t] = "dealloc" /\ pc[t] \in {"lock", "inside", "push"}

(* A chunk is free unless it has an owner or is being given back.          *)
FreeSet == {c \in AllChunks : /\ c \notin GivenOut
                              /\ \A t \in Threads : ~(Returning(t) /\ chunk[t] = c)}

PoolTypes == /\ word \in [Chunks -> Links \cup {Data}]
             /\ blocks \in 1 .. MaxBlocks
             /\ phase = "in_use" => live = 1 .. blocks
             /\ m_frees \in Links
             /\ holders \subseteq Threads
             /\ pc \in [Threads -> {"idle", "lock", "inside", "pop", "push", "unlock"}]
             /\ op \in [Threads -> {"none", "alloc", "dealloc"}]
             /\ chunk \in [Threads -> Links \cup Large]
             /\ owned \in [Threads -> SUBSET (Chunks \cup Large)]
             /\ heap \subseteq Large
             /\ phase \in {"in_use", "destroying", "destroyed", "corrupt"}

(* A thread and the lock, and where it is in alloc() and dealloc().        *)
Operating(t) ==
  /\ t \in holders <=> pc[t] \in {"inside", "pop", "push", "unlock"}
  /\ \A u \in holders : t \in holders => t = u
  /\ pc[t] = "idle" <=> op[t] = "none"
  /\ pc[t] = "pop" => op[t] = "alloc" /\ m_frees # Null /\ chunk[t] = m_frees
  /\ pc[t] = "push" => /\ op[t] = "dealloc" /\ chunk[t] \in Chunks
                       /\ word[chunk[t]] = m_frees
  /\ Returning(t) => chunk[t] # Null
  /\ phase \in {"destroying", "destroyed"} => pc[t] = "idle"

(* No chunk has two owners, or is given back by two, or both.              *)
Apart(t) ==
  /\ owned[t] \cap Large \subseteq heap
  /\ owned[t] \cap Chunks \subseteq AllChunks
  /\ \A u \in Threads : t # u => owned[t] \cap owned[u] = {}
  /\ Returning(t) /\ chunk[t] \in Chunks =>
       /\ chunk[t] \in AllChunks \ GivenOut
       /\ \A u \in Threads : Returning(u) /\ chunk[u] = chunk[t] => u = t

(* The free list is q: all the free chunks, each once.                     *)
Chained(n, q) ==
  /\ {q[i] : i \in 1 .. n} = FreeSet
  /\ \A i, j \in 1 .. n : q[i] = q[j] => i = j
  /\ m_frees = IF n = 0 THEN Null ELSE q[1]
  /\ \A i \in 1 .. n : word[q[i]] = IF i = n THEN Null ELSE q[i + 1]

List == \E n \in Nat : \E q \in [1 .. n -> Chunks] : Chained(n, q)

PoolInv == /\ PoolTypes
           /\ \A t \in Threads : Operating(t) /\ Apart(t)
           /\ List

(* What is below a * c, divided by a, is at most c.                        *)
LEMMA BlocksDivided ==
  ASSUME NEW a \in Nat \ {0}, NEW c \in Nat, NEW m \in Nat, a <= m, m < a * c
  PROVE  m \div a \in 1 .. c
  <1>. DEFINE d == m \div a
  <1>1. d \in Nat /\ d * a <= m /\ m < (d + 1) * a
    BY SMTT(30)
  <1>. HIDE DEF d
  <1>2. ASSUME d = 0  PROVE FALSE
    BY <1>1, <1>2
  <1>3. ASSUME c < d  PROVE FALSE
    <2>1. d - c \in Nat /\ (d - c) * a >= 0
      BY <1>1, <1>3, SMTT(30)
    <2>2. d * a = (d - c) * a + a * c
      BY <1>1, <2>1, SMTT(30)
    <2>3. a * c \in Int /\ d * a \in Int /\ (d - c) * a \in Int
      BY <1>1
    <2> QED
      BY <1>1, <2>1, <2>2, <2>3
  <1>4. d \in 1 .. c
    BY <1>1, <1>2, <1>3
  <1> QED
    BY <1>4 DEF d

(* No block is cut into more chunks than there are, or into none.          *)
LEMMA Growth ==
  /\ GrowCount \in 1 .. ChunkCount
  /\ \A b \in 1 .. MaxBlocks : Cut(b) \subseteq Chunks
  <1>1. ChunkCount \in Nat \ {0} /\ ChunkBytes \in Nat \ {0} /\ MaxBlocks \in Nat \ {0}
    BY CountAssumption
  <1>2. alignment \in Nat \ {0} /\ alignment <= 1024
    BY <1>1, AlignmentAssumption DEF alignment, max_aligment
  <1>3. CASE alignment * ChunkCount > 4096
    <2>1. 4096 \div alignment \in 1 .. ChunkCount
      BY <1>1, <1>2, <1>3, BlocksDivided
    <2> QED
      BY <1>1, <1>3, <2>1 DEF GrowCount, max_aligment, Cut, Chunks
  <1>4. CASE ~(alignment * ChunkCount > 4096)
    BY <1>1, <1>4 DEF GrowCount, max_aligment, Cut, Chunks
  <1> QED
    BY <1>3, <1>4

(* grow(ChunkCount) deposits the chunks in turn: the last is the head.     *)
LEMMA PoolInitInv == PoolInit => PoolInv
  <1>. SUFFICES ASSUME PoolInit  PROVE PoolInv
    OBVIOUS
  <1>. ChunkCount \in Nat \ {0} /\ MaxBlocks \in Nat \ {0}
    BY CountAssumption
  <1>1. ASSUME NEW c \in Chunks
        PROVE  /\ word[c] \in Links \cup {Data}
               /\ word[c] = IF c[1] # 1 THEN Data
                            ELSE IF c[2] = 0 THEN Null ELSE <<1, c[2] - 1>>
    BY DEF PoolInit, Deposited, Chunks, Links
  <1>2. PoolTypes
    <2>1. word \in [Chunks -> Links \cup {Data}]
      BY <1>1 DEF PoolInit, Deposited
    <2> QED
      BY <2>1 DEF PoolInit, PoolTypes, Links, Chunks, m_lock!Init
  <1>3. ASSUME NEW t \in Threads  PROVE Operating(t) /\ Apart(t)
    BY DEF PoolInit, Operating, Apart, Returning, m_lock!Init
  <1>4. FreeSet = Cut(1)
    BY DEF PoolInit, FreeSet, AllChunks, Returning, GivenOut
  <1>5. List
    <2>. DEFINE q == [i \in 1 .. ChunkCount |-> <<1, ChunkCount - i>>]
    <2>1. q \in [1 .. ChunkCount -> Chunks]
      BY DEF Chunks
    <2>2. {q[i] : i \in 1 .. ChunkCount} = Cut(1)
      <3>1. ASSUME NEW c \in Cut(1)  PROVE \E i \in 1 .. ChunkCount : q[i] = c
        <4>1. PICK k \in 0 .. ChunkCount - 1 : c = <<1, k>>
          BY DEF Cut
        <4>2. ChunkCount - k \in 1 .. ChunkCount /\ ChunkCount - (ChunkCount - k) = k
          OBVIOUS
        <4> QED
          BY <4>1, <4>2
      <3>2. ASSUME NEW i \in 1 .. ChunkCount  PROVE q[i] \in Cut(1)
        BY DEF Cut
      <3>. HIDE DEF q
      <3> QED
        BY <3>1, <3>2
    <2>3. \A i, j \in 1 .. ChunkCount : q[i] = q[j] => i = j
      OBVIOUS
    <2>4. m_frees = q[1]
      BY DEF PoolInit
    <2>5. ASSUME NEW i \in 1 .. ChunkCount
          PROVE  word[q[i]] = IF i = ChunkCount THEN Null ELSE q[i + 1]
      BY <1>1, <2>1
    <2>. HIDE DEF q
    <2>6. Chained(ChunkCount, q)
      BY <1>4, <2>2, <2>3, <2>4, <2>5 DEF Chained
    <2> QED
      BY <2>1, <2>6 DEF List
  <1> QED
    BY <1>2, <1>3, <1>5 DEF PoolInv

-----------------------------------------------------------------------------
(* The names of the pointers are different.                                *)
LEMMA Named ==
  /\ Null \notin Chunks /\ Null \notin Large
  /\ Data # Null /\ Data \notin Chunks
  /\ \A c \in Large : c \notin Chunks
  BY NamesAssumption DEF Links

(* Steps that leave the free chunks as they are.                           *)
LEMMA SameList ==
  ASSUME List, FreeSet' = FreeSet, m_frees' = m_frees,
         \A c \in FreeSet : word'[c] = word[c]
  PROVE  List'
  <1>1. PICK n \in Nat : \E q \in [1 .. n -> Chunks] : Chained(n, q)
    BY DEF List
  <1>2. PICK q \in [1 .. n -> Chunks] : Chained(n, q)
    BY <1>1
  <1>3. Chained(n, q)'
    BY <1>2 DEF Chained
  <1> QED
    BY <1>3 DEF List

(* The head of the list is free, and leads to the rest of it.              *)
LEMMA HeadFree ==
  ASSUME List, m_frees # Null
  PROVE  m_frees \in FreeSet /\ word[m_frees] \in Links
  <1>1. PICK n \in Nat : \E q \in [1 .. n -> Chunks] : Chained(n, q)
    BY DEF List
  <1>2. PICK q \in [1 .. n -> Chunks] : Chained(n, q)
    BY <1>1
  <1>3. n # 0 /\ m_frees = q[1] /\ {q[i] : i \in 1 .. n} = FreeSet
    BY <1>2 DEF Chained
  <1>4. word[q[1]] = Null \/ (n # 1 /\ word[q[1]] = q[2])
    BY <1>2, <1>3 DEF Chained
  <1> QED
    BY <1>3, <1>4 DEF Links

(* The head of the list is followed by a chunk or Null, not by data: this  *)
(* is where the types depend on the list.                                  *)
LEMMA TypesKept ==
  ASSUME PoolInv, PoolNext
  PROVE  PoolTypes'
  <1>. PoolTypes /\ \A t \in Threads : Operating(t)
    BY DEF PoolInv
  <1>. MaxBlocks \in Nat /\ ChunkCount \in Nat
    BY CountAssumption
  <1>1. ASSUME NEW t \in Threads, Allocator(t)  PROVE PoolTypes'
    BY <1>1, Named DEF PoolTypes, Allocator, CallAlloc, AllocateLarge, CallDealloc, Goto,
       pool, destructor, GivenOut, Links
  <1>2. ASSUME NEW t \in Threads, Write(t)  PROVE PoolTypes'
    BY <1>2 DEF PoolTypes, Write, thread, destructor
  <1>3. ASSUME NEW t \in Threads, Acquire(t) \/ Release(t)  PROVE PoolTypes'
    BY <1>3 DEF PoolTypes, Acquire, Release, Goto, pool, destructor,
       m_lock!Acquire, m_lock!Release, Links
  <1>4. ASSUME NEW t \in Threads, Grow(t)  PROVE PoolTypes'
    <2>1. /\ blocks' = blocks + 1 /\ blocks' \in 1 .. MaxBlocks
          /\ live' = live \cup {blocks'}
          /\ word' = Deposited(word, blocks', GrowCount, Null)
          /\ m_frees' = <<blocks', GrowCount - 1>>
          /\ UNCHANGED <<holders, thread, heap, destructor>>
      BY <1>4 DEF Grow, PoolTypes
    <2>2. word' \in [Chunks -> Links \cup {Data}]
      BY <2>1 DEF Deposited, PoolTypes, Links, Chunks
    <2>3. m_frees' \in Links
      BY <2>1, Growth DEF Links, Chunks
    <2>4. phase' = "in_use" => live' = 1 .. blocks'
      BY <2>1 DEF PoolTypes, destructor
    <2> QED
      BY <2>1, <2>2, <2>3, <2>4 DEF PoolTypes, thread, destructor
  <1>5. ASSUME NEW t \in Threads, GrowFails(t) \/ Take(t) \/ Push(t)  PROVE PoolTypes'
    <2>1. CASE GrowFails(t)
      BY <2>1 DEF PoolTypes, GrowFails, Goto, pool, destructor
    <2>2. CASE Take(t)
      BY <2>2 DEF PoolTypes, Take, Goto, pool, destructor
    <2>3. CASE Push(t)
      <3>1. chunk[t] \in Links
        BY <2>3 DEF Push, Goto, Operating, Links
      <3> QED
        BY <2>3, <3>1 DEF PoolTypes, Push, Goto, destructor
    <2> QED
      BY <1>5, <2>1, <2>2, <2>3
  <1>6. ASSUME NEW t \in Threads, Pop(t)  PROVE PoolTypes'
    <2>1. word[m_frees] \in Links
      BY <1>6, HeadFree DEF Pop, PoolInv
    <2>2. chunk[t] \in Chunks
      BY <1>6 DEF Pop, Goto, Operating, PoolTypes, Links
    <2> QED
      BY <1>6, <2>1, <2>2 DEF PoolTypes, Pop, Goto, destructor
  <1>7. ASSUME NEW t \in Threads, Link(t)  PROVE PoolTypes'
    BY <1>7 DEF PoolTypes, Link, Goto, destructor
  <1>8. CASE Destroy \/ DeleteBlock \/ Over
    BY <1>8 DEF PoolTypes, Destroy, DeleteBlock, Over, poolVars, pool, thread, destructor
  <1>9. ASSUME NEW t \in Threads, LinkDeleted(t)  PROVE PoolTypes'
    BY <1>9 DEF PoolTypes, LinkDeleted, pool, thread
  <1> QED
    BY <1>1, <1>2, <1>3, <1>4, <1>5, <1>6, <1>7, <1>8, <1>9 DEF PoolNext, Operation

(* One thread is in the critical section, and what it prepared there stays *)
(* as it is: the others write only to chunks that they own.                *)
LEMMA OperatingKept ==
  ASSUME PoolInv, PoolNext, NEW u \in Threads
  PROVE  Operating(u)'
  <1>. PoolTypes /\ \A t \in Threads : Operating(t) /\ Apart(t)
    BY DEF PoolInv
  <1>1. ASSUME NEW t \in Threads, phase = "in_use", Allocator(t)  PROVE Operating(u)'
    BY <1>1, Named DEF PoolTypes, Operating, Returning, Allocator, CallAlloc, AllocateLarge,
       CallDealloc, Goto, pool, destructor, GivenOut
  <1>2. ASSUME NEW t \in Threads, phase = "in_use", Write(t)  PROVE Operating(u)'
    <2>1. PICK c \in owned[t] \cap Chunks : word' = [word EXCEPT ![c] = Data]
      BY <1>2 DEF Write
    <2>2. pc[u] = "push" => chunk[u] # c
      BY <2>1 DEF Operating, Apart, Returning, GivenOut
    <2>3. pc[u] = "push" => word'[chunk[u]] = word[chunk[u]]
      BY <2>1, <2>2 DEF Operating, PoolTypes
    <2> QED
      BY <1>2, <2>3 DEF Operating, Returning, Write, thread, destructor
  <1>3. ASSUME NEW t \in Threads, phase = "in_use", Acquire(t)  PROVE Operating(u)'
    BY <1>3 DEF PoolTypes, Operating, Returning, Acquire, Goto, pool, destructor,
                   m_lock!Acquire
  <1>4. ASSUME NEW t \in Threads, phase = "in_use", Release(t)  PROVE Operating(u)'
    BY <1>4 DEF PoolTypes, Operating, Returning, Release, Goto, pool, destructor,
                   m_lock!Release
  <1>5. ASSUME NEW t \in Threads, phase = "in_use", Grow(t)  PROVE Operating(u)'
    <2>1. u # t => pc[u] \notin {"pop", "push"}
      BY <1>5 DEF Grow, Operating
    <2> QED
      BY <1>5, <2>1 DEF PoolTypes, Operating, Returning, Grow, thread, destructor
  <1>6. ASSUME NEW t \in Threads, phase = "in_use", GrowFails(t) \/ Take(t)
        PROVE  Operating(u)'
    BY <1>6 DEF PoolTypes, Operating, Returning, GrowFails, Take, Goto, pool, destructor
  <1>7. ASSUME NEW t \in Threads, phase = "in_use", Pop(t) \/ Push(t)  PROVE Operating(u)'
    <2>1. u # t => pc[u] \notin {"pop", "push"}
      BY <1>7 DEF Pop, Push, Goto, Operating
    <2> QED
      BY <1>7, <2>1 DEF PoolTypes, Operating, Returning, Pop, Push, Goto, destructor
  <1>8. ASSUME NEW t \in Threads, phase = "in_use", Link(t)  PROVE Operating(u)'
    <2>1. u # t => pc[u] \notin {"pop", "push"}
      BY <1>8 DEF Link, Goto, Operating
    <2> QED
      BY <1>8, <2>1 DEF PoolTypes, Operating, Returning, Link, Goto, destructor
  <1>9. CASE Destroy \/ DeleteBlock \/ Over \/ \E t \in Threads : LinkDeleted(t)
    BY <1>9 DEF Operating, Returning, Destroy, DeleteBlock, Over, LinkDeleted, poolVars,
       pool, thread, destructor
  <1> QED
    BY <1>1, <1>2, <1>3, <1>4, <1>5, <1>6, <1>7, <1>8, <1>9 DEF PoolNext, Operation

(* A chunk that alloc() takes was free, so nobody has it or gives it back; *)
(* one that dealloc() is given leaves its owner at that moment.            *)
LEMMA ApartKept ==
  ASSUME PoolInv, PoolNext, NEW u \in Threads
  PROVE  Apart(u)'
  <1>. PoolTypes /\ (\A t \in Threads : Operating(t) /\ Apart(t)) /\ List
    BY DEF PoolInv
  <1>1. ASSUME NEW t \in Threads, CallAlloc(t)  PROVE Apart(u)'
    <2>1. /\ UNCHANGED <<heap, owned, chunk, blocks>>
          /\ \A w \in Threads : Returning(w)' <=> Returning(w)
      BY <1>1 DEF CallAlloc, Goto, Returning, Operating, PoolTypes, pool
    <2> QED
      BY <2>1 DEF Apart, AllChunks, Cut, GivenOut
  <1>2. ASSUME NEW t \in Threads, AllocateLarge(t)  PROVE Apart(u)'
    <2>1. PICK p \in Large \ heap : /\ heap' = heap \cup {p}
                                    /\ owned' = [owned EXCEPT ![t] = @ \cup {p}]
      BY <1>2 DEF AllocateLarge
    <2>2. /\ UNCHANGED <<chunk, blocks, pc, op>>
      BY <1>2 DEF AllocateLarge, pool
    <2>3. p \notin Chunks /\ p \notin heap /\ \A w \in Threads : p \notin owned[w]
      BY <2>1, Named DEF Apart
    <2>4. /\ owned'[u] \subseteq owned[u] \cup {p}
          /\ \A w \in Threads : owned'[w] = IF w = t THEN owned[w] \cup {p} ELSE owned[w]
      BY <2>1 DEF PoolTypes
    <2>5. owned'[u] \cap Large \subseteq heap' /\ owned'[u] \cap Chunks \subseteq AllChunks'
      BY <2>1, <2>2, <2>3, <2>4 DEF Apart, AllChunks, Cut
    <2>6. \A w \in Threads : u # w => owned'[u] \cap owned'[w] = {}
      <3>1. SUFFICES ASSUME NEW w \in Threads, u # w, NEW x \in owned'[u], x \in owned'[w]
                     PROVE  FALSE
        OBVIOUS
      <3>2. owned[u] \cap owned[w] = {}
        BY <3>1 DEF Apart
      <3> QED
        BY <2>3, <2>4, <3>1, <3>2
    <2>7. \A c \in Chunks : c \in GivenOut' <=> c \in GivenOut
      BY <2>3, <2>4 DEF GivenOut
    <2> QED
      BY <2>2, <2>5, <2>6, <2>7 DEF Apart, AllChunks, Cut, Returning
  <1>3. ASSUME NEW t \in Threads, CallDealloc(t)  PROVE Apart(u)'
    <2>1. PICK c \in GivenOut : /\ chunk' = [chunk EXCEPT ![t] = c]
                                /\ heap' = heap \ {c}
                                /\ owned' = [w \in Threads |-> owned[w] \ {c}]
      BY <1>3 DEF CallDealloc
    <2>2. UNCHANGED blocks /\ pc[t] = "idle" /\ op[t] = "none"
      BY <1>3 DEF CallDealloc, pool, Goto, Operating
    <2>3. \A w \in Threads : w # t => /\ (Returning(w)' <=> Returning(w))
                                      /\ chunk'[w] = chunk[w]
      BY <1>3, <2>1 DEF CallDealloc, Returning, Goto, PoolTypes
    <2>4. ~Returning(t) /\ chunk'[t] = c
      BY <2>1, <2>2 DEF Returning, PoolTypes
    <2>5. GivenOut' = GivenOut \ {c}
      BY <2>1 DEF GivenOut
    <2>6. AllChunks' = AllChunks
      BY <2>2 DEF AllChunks, Cut
    <2>7. c \in Chunks => c \in AllChunks
      BY <2>1 DEF GivenOut, Apart
    <2>8. \A w \in Threads : Returning(w) /\ chunk[w] \in Chunks => chunk[w] # c
      BY <2>1 DEF Apart
    <2>9. owned'[u] \cap Large \subseteq heap' /\ owned'[u] \cap Chunks \subseteq AllChunks'
      BY <2>1, <2>6 DEF Apart
    <2>10. \A w \in Threads : u # w => owned'[u] \cap owned'[w] = {}
      BY <2>1 DEF Apart
    <2>11. ASSUME Returning(u)', chunk'[u] \in Chunks
           PROVE  /\ chunk'[u] \in AllChunks \ GivenOut'
                  /\ \A w \in Threads : Returning(w)' /\ chunk'[w] = chunk'[u] => w = u
      BY <2>3, <2>4, <2>5, <2>7, <2>8, <2>11 DEF Apart
    <2> QED
      BY <2>6, <2>9, <2>10, <2>11 DEF Apart
  <1>4. ASSUME NEW t \in Threads, Grow(t)  PROVE Apart(u)'
    <2>1. UNCHANGED <<heap, owned, chunk, pc, op>> /\ blocks' = blocks + 1
      BY <1>4 DEF Grow, thread
    <2>2. AllChunks \subseteq AllChunks'
      BY <2>1 DEF AllChunks, PoolTypes, Cut
    <2> QED
      BY <2>1, <2>2 DEF Apart, Returning, GivenOut
  <1>5. ASSUME NEW t \in Threads, Pop(t)  PROVE Apart(u)'
    <2>1. /\ owned' = [owned EXCEPT ![t] = @ \cup {m_frees}]
          /\ UNCHANGED <<heap, chunk, blocks, op>>
          /\ m_frees # Null
      BY <1>5 DEF Pop, Goto, Operating
    <2>2. m_frees \in FreeSet /\ m_frees \in Chunks
      BY <2>1, HeadFree DEF PoolTypes, Links
    <2>3. \A w \in Threads : Returning(w)' <=> Returning(w)
      BY <1>5 DEF Pop, Goto, Returning, PoolTypes
    <2>4. /\ m_frees \in AllChunks /\ m_frees \notin GivenOut
          /\ \A w \in Threads : Returning(w) => chunk[w] # m_frees
      BY <2>2 DEF FreeSet
    <2>5. \A w \in Threads : owned'[w] = IF w = t THEN owned[w] \cup {m_frees} ELSE owned[w]
      BY <2>1 DEF PoolTypes
    <2>6. AllChunks' = AllChunks
      BY <2>1 DEF AllChunks, Cut
    <2>7. GivenOut' = GivenOut \cup {m_frees}
      BY <2>5 DEF GivenOut
    <2>8. owned'[u] \cap Large \subseteq heap' /\ owned'[u] \cap Chunks \subseteq AllChunks'
      BY <2>1, <2>2, <2>4, <2>5, <2>6, Named DEF Apart
    <2>9. \A w \in Threads : u # w => owned'[u] \cap owned'[w] = {}
      <3>1. SUFFICES ASSUME NEW w \in Threads, u # w, NEW x \in owned'[u], x \in owned'[w]
                     PROVE  FALSE
        OBVIOUS
      <3>2. owned[u] \cap owned[w] = {}
        BY <3>1 DEF Apart
      <3>3. m_frees \notin owned[u] /\ m_frees \notin owned[w]
        BY <2>4, <3>1 DEF GivenOut
      <3> QED
        BY <2>5, <3>1, <3>2, <3>3
    <2> QED
      BY <2>1, <2>3, <2>4, <2>6, <2>7, <2>8, <2>9 DEF Apart
  <1>6. ASSUME NEW t \in Threads,
               Acquire(t) \/ Release(t) \/ GrowFails(t) \/ Take(t) \/ Link(t) \/ Push(t)
        PROVE  Apart(u)'
    <2>1. UNCHANGED <<heap, owned, blocks>>
      BY <1>6 DEF Acquire, Release, GrowFails, Take, Link, Push, pool
    <2>2. \A w \in Threads : Returning(w)' => Returning(w) /\ chunk'[w] = chunk[w]
      BY <1>6 DEF Acquire, Release, GrowFails, Take, Link, Push, Goto, Returning, PoolTypes,
                  Operating
    <2> QED
      BY <2>1, <2>2 DEF Apart, AllChunks, Cut, GivenOut
  <1>7. CASE Destroy \/ DeleteBlock \/ Over \/ \E t \in Threads : LinkDeleted(t) \/ Write(t)
    BY <1>7 DEF Apart, AllChunks, Cut, GivenOut, Returning, Destroy, DeleteBlock, Over,
       LinkDeleted, Write, poolVars, pool, thread, destructor
  <1> QED
    BY <1>1, <1>2, <1>3, <1>4, <1>5, <1>6, <1>7 DEF PoolNext, Operation, Allocator

(* Pop takes the head, Push and Grow put one there, and the other steps    *)
(* leave the free chunks and their words alone.                            *)
LEMMA ListKept ==
  ASSUME PoolInv, PoolNext
  PROVE  List'
  <1>. PoolTypes /\ (\A t \in Threads : Operating(t) /\ Apart(t)) /\ List
    BY DEF PoolInv
  <1>. MaxBlocks \in Nat /\ ChunkCount \in Nat
    BY CountAssumption
  <1>1. ASSUME NEW t \in Threads, CallAlloc(t)  PROVE List'
    <2>1. /\ UNCHANGED <<word, m_frees, owned, chunk, blocks>>
          /\ \A w \in Threads : Returning(w)' <=> Returning(w)
      BY <1>1 DEF CallAlloc, Goto, Returning, Operating, PoolTypes, pool
    <2>2. FreeSet' = FreeSet
      BY <2>1 DEF FreeSet, AllChunks, Cut, GivenOut
    <2> QED
      BY <2>1, <2>2, SameList
  <1>2. ASSUME NEW t \in Threads, AllocateLarge(t)  PROVE List'
    <2>1. PICK p \in Large : owned' = [owned EXCEPT ![t] = @ \cup {p}]
      BY <1>2 DEF AllocateLarge
    <2>2. UNCHANGED <<word, m_frees, chunk, blocks, pc, op>>
      BY <1>2 DEF AllocateLarge, pool
    <2>3. \A w \in Threads : owned'[w] = IF w = t THEN owned[w] \cup {p} ELSE owned[w]
      BY <2>1 DEF PoolTypes
    <2>4. \A c \in Chunks : c \in GivenOut' <=> c \in GivenOut
      BY <2>1, <2>3, Named DEF GivenOut
    <2>5. AllChunks' = AllChunks /\ AllChunks \subseteq Chunks
      BY <2>2, Growth DEF AllChunks, Cut, PoolTypes
    <2>6. FreeSet' = FreeSet
      BY <2>2, <2>4, <2>5 DEF FreeSet, Returning
    <2> QED
      BY <2>2, <2>6, SameList
  <1>3. ASSUME NEW t \in Threads, CallDealloc(t)  PROVE List'
    <2>1. PICK c \in GivenOut : /\ chunk' = [chunk EXCEPT ![t] = c]
                                /\ owned' = [w \in Threads |-> owned[w] \ {c}]
      BY <1>3 DEF CallDealloc
    <2>2. UNCHANGED <<word, m_frees, blocks>> /\ pc[t] = "idle" /\ op[t] = "none"
      BY <1>3 DEF CallDealloc, pool, Goto, Operating
    <2>3. \A w \in Threads : w # t => /\ (Returning(w)' <=> Returning(w))
                                      /\ chunk'[w] = chunk[w]
      BY <1>3, <2>1 DEF CallDealloc, Returning, Goto, PoolTypes
    <2>4. ~Returning(t) /\ chunk'[t] = c /\ Returning(t)'
      BY <1>3, <2>1, <2>2 DEF Returning, PoolTypes, CallDealloc, Goto
    <2>5. GivenOut' = GivenOut \ {c}
      BY <2>1 DEF GivenOut
    <2>6. AllChunks' = AllChunks
      BY <2>2 DEF AllChunks, Cut
    <2>7. \A x : (x \in GivenOut' \/ \E w \in Threads : Returning(w)' /\ chunk'[w] = x)
                <=> (x \in GivenOut \/ \E w \in Threads : Returning(w) /\ chunk[w] = x)
      BY <2>1, <2>3, <2>4, <2>5
    <2>8. FreeSet' = FreeSet
      BY <2>6, <2>7 DEF FreeSet
    <2> QED
      BY <2>2, <2>8, SameList
  <1>4. ASSUME NEW t \in Threads, Write(t)  PROVE List'
    <2>1. PICK c \in owned[t] \cap Chunks : word' = [word EXCEPT ![c] = Data]
      BY <1>4 DEF Write
    <2>2. FreeSet' = FreeSet /\ m_frees' = m_frees
      BY <1>4 DEF Write, thread, FreeSet, AllChunks, Cut, GivenOut, Returning
    <2>3. c \notin FreeSet
      BY <2>1 DEF FreeSet, GivenOut
    <2>4. FreeSet \subseteq Chunks
      BY Growth DEF FreeSet, AllChunks, PoolTypes
    <2>5. \A x \in FreeSet : word'[x] = word[x]
      BY <2>1, <2>3, <2>4 DEF PoolTypes
    <2> QED
      BY <2>2, <2>5, SameList
  <1>5. ASSUME NEW t \in Threads, Acquire(t) \/ Release(t) \/ GrowFails(t) \/ Take(t)
        PROVE  List'
    <2>1. UNCHANGED <<word, m_frees, owned, blocks>>
      BY <1>5 DEF Acquire, Release, GrowFails, Take, pool
    <2>2. \A w \in Threads : (Returning(w)' <=> Returning(w))
                             /\ (Returning(w) => chunk'[w] = chunk[w])
      BY <1>5 DEF Acquire, Release, GrowFails, Take, Goto, Returning, PoolTypes, Operating
    <2>3. FreeSet' = FreeSet
      BY <2>1, <2>2 DEF FreeSet, AllChunks, Cut, GivenOut
    <2> QED
      BY <2>1, <2>3, SameList
  <1>6. CASE Destroy \/ DeleteBlock \/ Over \/ \E t \in Threads : LinkDeleted(t)
    <2>1. UNCHANGED <<word, m_frees, owned, blocks, chunk, pc, op>>
      BY <1>6 DEF Destroy, DeleteBlock, Over, LinkDeleted, pool, thread, poolVars
    <2>2. FreeSet' = FreeSet
      BY <2>1 DEF FreeSet, AllChunks, Cut, GivenOut, Returning
    <2> QED
      BY <2>1, <2>2, SameList
  <1>7. ASSUME NEW t \in Threads, Link(t)  PROVE List'
    <2>1. /\ word' = [word EXCEPT ![chunk[t]] = m_frees] /\ chunk[t] \in Chunks
          /\ UNCHANGED <<m_frees, owned, blocks, chunk>>
          /\ op[t] = "dealloc" /\ pc[t] = "inside"
      BY <1>7 DEF Link, Goto
    <2>2. \A w \in Threads : Returning(w)' <=> Returning(w)
      BY <1>7 DEF Link, Goto, Returning, PoolTypes
    <2>3. FreeSet' = FreeSet
      BY <2>1, <2>2 DEF FreeSet, AllChunks, Cut, GivenOut
    <2>4. chunk[t] \notin FreeSet
      BY <2>1 DEF FreeSet, Returning
    <2>5. FreeSet \subseteq Chunks
      BY Growth DEF FreeSet, AllChunks, PoolTypes
    <2>6. \A x \in FreeSet : word'[x] = word[x]
      BY <2>1, <2>4, <2>5 DEF PoolTypes
    <2> QED
      BY <2>1, <2>3, <2>6, SameList
  <1>8. ASSUME NEW t \in Threads, Pop(t)  PROVE List'
    <2>1. /\ owned' = [owned EXCEPT ![t] = @ \cup {m_frees}]
          /\ m_frees # Null /\ m_frees' = word[m_frees]
          /\ UNCHANGED <<word, chunk, blocks, op>>
      BY <1>8 DEF Pop, Goto, Operating
    <2>2. \A w \in Threads : Returning(w)' <=> Returning(w)
      BY <1>8 DEF Pop, Goto, Returning, PoolTypes
    <2>3. \A w \in Threads : owned'[w] = IF w = t THEN owned[w] \cup {m_frees} ELSE owned[w]
      BY <2>1 DEF PoolTypes
    <2>4. GivenOut' = GivenOut \cup {m_frees}
      BY <2>3 DEF GivenOut
    <2>5. FreeSet' = FreeSet \ {m_frees}
      BY <2>1, <2>2, <2>4 DEF FreeSet, AllChunks, Cut
    <2>6. PICK n \in Nat : \E q \in [1 .. n -> Chunks] : Chained(n, q)
      BY DEF List
    <2>7. PICK q \in [1 .. n -> Chunks] : Chained(n, q)
      BY <2>6
    <2>8. /\ {q[i] : i \in 1 .. n} = FreeSet
          /\ \A i, j \in 1 .. n : q[i] = q[j] => i = j
          /\ n # 0 /\ m_frees = q[1]
          /\ \A i \in 1 .. n : word[q[i]] = IF i = n THEN Null ELSE q[i + 1]
      BY <2>1, <2>7 DEF Chained
    <2>. DEFINE r == [i \in 1 .. n - 1 |-> q[i + 1]]
    <2>9. r \in [1 .. n - 1 -> Chunks] /\ n - 1 \in Nat
      BY <2>8
    <2>10. {r[i] : i \in 1 .. n - 1} = FreeSet \ {m_frees}
      <3>1. ASSUME NEW i \in 1 .. n - 1  PROVE r[i] \in FreeSet \ {m_frees}
        BY <2>8
      <3>2. ASSUME NEW x \in FreeSet \ {m_frees}  PROVE \E i \in 1 .. n - 1 : r[i] = x
        <4>1. PICK j \in 1 .. n : q[j] = x
          BY <2>8
        <4>2. j - 1 \in 1 .. n - 1 /\ (j - 1) + 1 = j
          BY <2>8, <4>1
        <4> QED
          BY <4>1, <4>2
      <3>. HIDE DEF r
      <3> QED
        BY <3>1, <3>2
    <2>11. \A i, j \in 1 .. n - 1 : r[i] = r[j] => i = j
      <3>1. SUFFICES ASSUME NEW i \in 1 .. n - 1, NEW j \in 1 .. n - 1, r[i] = r[j]
                     PROVE  i = j
        OBVIOUS
      <3>2. i + 1 \in 1 .. n /\ j + 1 \in 1 .. n /\ q[i + 1] = q[j + 1]
        BY <3>1
      <3>3. i + 1 = j + 1
        BY <2>8, <3>2
      <3> QED
        BY <3>3
    <2>12. m_frees' = IF n - 1 = 0 THEN Null ELSE r[1]
      BY <2>1, <2>8
    <2>13. ASSUME NEW i \in 1 .. n - 1
           PROVE  word'[r[i]] = IF i = n - 1 THEN Null ELSE r[i + 1]
      <3>1. i + 1 \in 1 .. n /\ r[i] = q[i + 1] /\ word' = word
        BY <2>1
      <3>2. word[q[i + 1]] = IF i + 1 = n THEN Null ELSE q[(i + 1) + 1]
        BY <2>8, <3>1
      <3>3. i # n - 1 => i + 1 \in 1 .. n - 1
        OBVIOUS
      <3> QED
        BY <3>1, <3>2, <3>3
    <2>. HIDE DEF r
    <2>14. Chained(n - 1, r)'
      BY <2>5, <2>10, <2>11, <2>12, <2>13 DEF Chained
    <2> QED
      BY <2>9, <2>14 DEF List
  <1>9. ASSUME NEW t \in Threads, Push(t)  PROVE List'
    <2>1. /\ op[t] = "dealloc" /\ pc[t] = "push" /\ pc' = [pc EXCEPT ![t] = "unlock"]
          /\ chunk[t] \in Chunks
          /\ word[chunk[t]] = m_frees /\ m_frees' = chunk[t]
          /\ UNCHANGED <<word, owned, chunk, blocks, op>>
      BY <1>9 DEF Push, Goto, Operating
    <2>2. /\ Returning(t) /\ ~Returning(t)'
          /\ \A w \in Threads : w # t => (Returning(w)' <=> Returning(w))
      BY <2>1 DEF Returning, PoolTypes
    <2>3. /\ chunk[t] \in AllChunks \ GivenOut
          /\ \A w \in Threads : Returning(w) /\ chunk[w] = chunk[t] => w = t
      BY <2>1, <2>2 DEF Apart
    <2>4. /\ FreeSet' = FreeSet \cup {chunk[t]} /\ chunk[t] \notin FreeSet
      <3>1. AllChunks' = AllChunks /\ GivenOut' = GivenOut /\ chunk' = chunk
        BY <2>1 DEF AllChunks, Cut, GivenOut
      <3> QED
        BY <2>2, <2>3, <3>1 DEF FreeSet
    <2>5. PICK n \in Nat : \E q \in [1 .. n -> Chunks] : Chained(n, q)
      BY DEF List
    <2>6. PICK q \in [1 .. n -> Chunks] : Chained(n, q)
      BY <2>5
    <2>7. /\ {q[i] : i \in 1 .. n} = FreeSet
          /\ \A i, j \in 1 .. n : q[i] = q[j] => i = j
          /\ m_frees = IF n = 0 THEN Null ELSE q[1]
          /\ \A i \in 1 .. n : word[q[i]] = IF i = n THEN Null ELSE q[i + 1]
      BY <2>6 DEF Chained
    <2>8. PICK c \in Chunks : c = chunk[t]
      BY <2>1
    <2>. DEFINE r == [i \in 1 .. n + 1 |-> IF i = 1 THEN c ELSE q[i - 1]]
    <2>9. r \in [1 .. n + 1 -> Chunks] /\ n + 1 \in Nat
      OBVIOUS
    <2>10. \A i \in 1 .. n + 1 :
             i # 1 => i - 1 \in 1 .. n /\ (i - 1) + 1 = i /\ r[i] = q[i - 1]
      OBVIOUS
    <2>11. {r[i] : i \in 1 .. n + 1} = FreeSet \cup {c}
      <3>1. ASSUME NEW i \in 1 .. n + 1  PROVE r[i] \in FreeSet \cup {c}
        BY <2>7, <2>10
      <3>2. ASSUME NEW x \in FreeSet \cup {c}  PROVE \E i \in 1 .. n + 1 : r[i] = x
        <4>1. CASE x = c
          BY <4>1
        <4>2. CASE x \in FreeSet
          <5>1. PICK j \in 1 .. n : q[j] = x
            BY <2>7, <4>2
          <5>2. j + 1 \in 1 .. n + 1 /\ (j + 1) - 1 = j /\ j + 1 # 1
            OBVIOUS
          <5>3. r[j + 1] = x
            BY <5>1, <5>2
          <5>. HIDE DEF r
          <5> QED
            BY <5>2, <5>3
        <4> QED
          BY <4>1, <4>2
      <3>. HIDE DEF r
      <3> QED
        BY <3>1, <3>2
    <2>12. \A i, j \in 1 .. n + 1 : r[i] = r[j] => i = j
      <3>1. \A i \in 1 .. n : q[i] # c
        BY <2>4, <2>7, <2>8
      <3>2. r[1] = c
        OBVIOUS
      <3>. HIDE DEF r
      <3> QED
        BY <2>7, <2>10, <3>1, <3>2
    <2>13. m_frees' = r[1]
      BY <2>1, <2>8
    <2>14. ASSUME NEW i \in 1 .. n + 1
           PROVE  word'[r[i]] = IF i = n + 1 THEN Null ELSE r[i + 1]
      <3>1. word' = word /\ word[c] = m_frees
        BY <2>1, <2>8
      <3>2. CASE i = 1
        BY <2>7, <3>1, <3>2
      <3>3. CASE i # 1
        <4>1. i - 1 \in 1 .. n /\ r[i] = q[i - 1] /\ (i - 1) + 1 = i
          BY <3>3
        <4>2. word[q[i - 1]] = IF i - 1 = n THEN Null ELSE q[i]
          BY <2>7, <4>1
        <4>3. i # n + 1 => i + 1 \in 1 .. n + 1 /\ r[i + 1] = q[i]
          BY <3>3
        <4> QED
          BY <3>1, <4>1, <4>2, <4>3
      <3> QED
        BY <3>2, <3>3
    <2>. HIDE DEF r
    <2>15. Chained(n + 1, r)'
      <3>1. n + 1 # 0
        OBVIOUS
      <3> QED
        BY <2>4, <2>8, <2>11, <2>12, <2>13, <2>14, <3>1 DEF Chained
    <2> QED
      BY <2>9, <2>15 DEF List
  <1>10. ASSUME NEW t \in Threads, Grow(t)  PROVE List'
    <2>1. /\ m_frees = Null /\ blocks' = blocks + 1 /\ blocks' \in 1 .. MaxBlocks
          /\ word' = Deposited(word, blocks', GrowCount, Null)
          /\ m_frees' = <<blocks', GrowCount - 1>>
          /\ UNCHANGED <<owned, chunk, pc, op>>
      BY <1>10 DEF Grow, thread, PoolTypes
    <2>. PICK k \in 1 .. ChunkCount : k = GrowCount
      BY Growth
    <2>. PICK b \in 1 .. MaxBlocks : b = blocks'
      BY <2>1
    <2>2. Cut(b) = {b} \X (0 .. k - 1) /\ Cut(b) \subseteq Chunks
      BY <2>1, Growth DEF Cut, PoolTypes
    <2>3. FreeSet = {}
      <3>1. PICK n \in Nat : \E q \in [1 .. n -> Chunks] : Chained(n, q)
        BY DEF List
      <3>2. PICK q \in [1 .. n -> Chunks] : Chained(n, q)
        BY <3>1
      <3>3. n = 0
        BY <2>1, <3>2, Named DEF Chained
      <3> QED
        BY <3>2, <3>3 DEF Chained
    <2>4. AllChunks' = AllChunks \cup Cut(b)
      BY <2>1 DEF AllChunks, Cut, PoolTypes
    <2>5. \A c \in Cut(b) : c \notin AllChunks
      BY <2>1, <2>2 DEF AllChunks, Cut, PoolTypes
    <2>6. GivenOut' = GivenOut /\ \A u \in Threads : Returning(u)' <=> Returning(u)
      BY <2>1 DEF GivenOut, Returning
    <2>7. FreeSet' = Cut(b)
      <3>1. ASSUME NEW c \in Cut(b)
            PROVE  c \notin GivenOut /\ \A u \in Threads : ~(Returning(u) /\ chunk[u] = c)
        BY <2>2, <2>5 DEF Apart, GivenOut
      <3>2. FreeSet' \subseteq Cut(b)
        BY <2>1, <2>3, <2>4, <2>6 DEF FreeSet
      <3> QED
        BY <2>1, <2>4, <2>6, <3>1, <3>2 DEF FreeSet
    <2>. DEFINE q == [i \in 1 .. k |-> <<b, k - i>>]
    <2>8. q \in [1 .. k -> Chunks]
      BY DEF Chunks
    <2>9. {q[i] : i \in 1 .. k} = Cut(b)
      <3>1. ASSUME NEW c \in Cut(b)  PROVE \E i \in 1 .. k : q[i] = c
        <4>1. PICK j \in 0 .. k - 1 : c = <<b, j>>
          BY <2>2
        <4>2. k - j \in 1 .. k /\ k - (k - j) = j
          OBVIOUS
        <4> QED
          BY <4>1, <4>2
      <3>2. ASSUME NEW i \in 1 .. k  PROVE q[i] \in Cut(b)
        BY <2>2
      <3>. HIDE DEF q
      <3> QED
        BY <3>1, <3>2
    <2>10. \A i, j \in 1 .. k : q[i] = q[j] => i = j
      OBVIOUS
    <2>11. m_frees' = q[1]
      BY <2>1
    <2>12. ASSUME NEW i \in 1 .. k
           PROVE  word'[q[i]] = IF i = k THEN Null ELSE q[i + 1]
      <3>1. \A c \in Chunks : c[1] = b /\ c[2] < k
                              => word'[c] = IF c[2] = 0 THEN Null ELSE <<b, c[2] - 1>>
        BY <2>1 DEF Deposited
      <3>2. q[i] = <<b, k - i>> /\ q[i][1] = b /\ q[i][2] = k - i /\ k - i < k
        OBVIOUS
      <3>3. word'[q[i]] = IF k - i = 0 THEN Null ELSE <<b, (k - i) - 1>>
        BY <2>8, <3>1, <3>2
      <3>4. i # k => i + 1 \in 1 .. k /\ q[i + 1] = <<b, (k - i) - 1>>
        OBVIOUS
      <3>5. k - i = 0 <=> i = k
        OBVIOUS
      <3>. HIDE DEF q
      <3> QED
        BY <3>3, <3>4, <3>5
    <2>. HIDE DEF q
    <2>13. Chained(k, q)'
      BY <2>7, <2>9, <2>10, <2>11, <2>12 DEF Chained
    <2> QED
      BY <2>8, <2>13 DEF List
  <1> QED
    BY <1>1, <1>2, <1>3, <1>4, <1>5, <1>6, <1>7, <1>8, <1>9, <1>10
       DEF PoolNext, Operation, Allocator

(* So every step keeps the invariant.                                      *)
LEMMA PoolNextInv == PoolInv /\ [PoolNext]_poolVars => PoolInv'
  <1>1. CASE PoolInv /\ PoolNext
    BY <1>1, TypesKept, OperatingKept, ApartKept, ListKept DEF PoolInv
  <1>2. CASE PoolInv /\ UNCHANGED poolVars
    <2>1. UNCHANGED <<word, blocks, live, m_frees, holders, pc, op, chunk, owned, heap, phase>>
      BY <1>2 DEF poolVars, pool, thread, destructor
    <2>2. FreeSet' = FreeSet
      BY <2>1 DEF FreeSet, AllChunks, Cut, GivenOut, Returning
    <2>3. List'
      BY <1>2, <2>1, <2>2, SameList DEF PoolInv
    <2>4. \A t \in Threads : Operating(t)' /\ Apart(t)'
      BY <1>2, <2>1 DEF PoolInv, Operating, Apart, AllChunks, Cut, GivenOut, Returning
    <2>5. PoolTypes'
      BY <1>2, <2>1 DEF PoolInv, PoolTypes
    <2> QED
      BY <2>3, <2>4, <2>5 DEF PoolInv
  <1> QED
    BY <1>1, <1>2

(* There are finitely many chunks, so the list ends within Free's domain.  *)
LEMMA ChunksFinite == IsFiniteSet(Chunks) /\ Cardinality(Chunks) \in Nat
  <1>1. MaxBlocks \in Nat /\ ChunkCount \in Nat
    BY CountAssumption
  <1>2. IsFiniteSet(1 .. MaxBlocks) /\ IsFiniteSet(0 .. ChunkCount - 1)
    BY <1>1, FS_Interval
  <1>3. IsFiniteSet(Chunks)
    BY <1>2, FS_Product DEF Chunks
  <1> QED
    BY <1>3, FS_CardinalityType

(* Free is the list: it meets the free chunks, each once, and ends.  The   *)
(* list is a function that goes on as Free is defined to, so there is one; *)
(* and all of those are alike.                                             *)
LEMMA FreeIsList ==
  ASSUME List
  PROVE  FreeChunks = FreeSet /\ \E n \in DOMAIN Free : Free[n] = Null
  <1>. DEFINE k == Cardinality(Chunks)
              LeadsOn(f) == f = [m \in 0 .. k |->
                                  IF m = 0 THEN m_frees
                                  ELSE IF f[m - 1] \in Chunks THEN word[f[m - 1]] ELSE Null]
  <1>1. PICK n \in Nat : \E q \in [1 .. n -> Chunks] : Chained(n, q)
    BY DEF List
  <1>2. PICK q \in [1 .. n -> Chunks] : Chained(n, q)
    BY <1>1
  <1>3. /\ {q[i] : i \in 1 .. n} = FreeSet
        /\ \A i, j \in 1 .. n : q[i] = q[j] => i = j
        /\ m_frees = IF n = 0 THEN Null ELSE q[1]
        /\ \A i \in 1 .. n : word[q[i]] = IF i = n THEN Null ELSE q[i + 1]
    BY <1>2 DEF Chained
  <1>4. k \in Nat /\ n <= k
    <2>1. q \in Injection(1 .. n, Chunks)
      BY <1>3 DEF Injection, IsInjective
    <2>2. Cardinality(1 .. n) <= k
      BY <2>1, ChunksFinite, FS_Injection
    <2>3. Cardinality(1 .. n) = IF 1 > n THEN 0 ELSE n - 1 + 1
      BY FS_Interval
    <2> QED
      BY <2>2, <2>3, ChunksFinite
  <1>. DEFINE f == [m \in 0 .. k |-> IF m < n THEN q[m + 1] ELSE Null]
  <1>. HIDE DEF k
  <1>5. f[0] = m_frees
    BY <1>3, <1>4
  <1>6. ASSUME NEW m \in 1 .. k
        PROVE  f[m] = IF f[m - 1] \in Chunks THEN word[f[m - 1]] ELSE Null
    <2>1. /\ m - 1 \in 0 .. k /\ (m - 1) + 1 = m
          /\ f[m - 1] = IF m - 1 < n THEN q[m] ELSE Null
          /\ f[m] = IF m < n THEN q[m + 1] ELSE Null
      BY <1>4
    <2>2. CASE m - 1 < n
      <3>1. m \in 1 .. n /\ q[m] \in Chunks
        BY <2>2
      <3>2. word[q[m]] = IF m = n THEN Null ELSE q[m + 1]
        BY <1>3, <3>1
      <3>. HIDE DEF f
      <3> QED
        BY <2>1, <2>2, <3>1, <3>2
    <2>3. CASE ~(m - 1 < n)
      BY <2>1, <2>3, Named
    <2> QED
      BY <2>2, <2>3
  <1>7. LeadsOn(f)
    <2>1. \A m \in 0 .. k : m # 0 => m \in 1 .. k
      BY <1>4
    <2>2. \A m \in 0 .. k : f[m] = IF m = 0 THEN m_frees
                                  ELSE IF f[m - 1] \in Chunks THEN word[f[m - 1]] ELSE Null
      <3>. HIDE DEF f
      <3> QED
        BY <1>5, <1>6, <2>1
    <2>3. f = [m \in 0 .. k |-> f[m]]
      OBVIOUS
    <2>. HIDE DEF f
    <2> QED
      BY <2>2, <2>3
  <1>8. LeadsOn(Free)
    <2>1. Free = CHOOSE h : LeadsOn(h)
      BY DEF Free, k
    <2>. HIDE DEF LeadsOn
    <2> QED
      BY <1>7, <2>1
  <1>9. \A m \in 0 .. k : Free[m] = f[m]
    <2>1. \A m \in 1 .. k : Free[m] = IF Free[m - 1] \in Chunks
                                     THEN word[Free[m - 1]] ELSE Null
      <3>1. \A m \in 1 .. k : m \in 0 .. k /\ m # 0
        BY <1>4
      <3> QED
        BY <1>8, <3>1
    <2>2. Free[0] = m_frees
      BY <1>4, <1>8
    <2>. HIDE DEF f
    <2>3. \A m \in 1 .. k : Free[m - 1] = f[m - 1] => Free[m] = f[m]
      BY <1>6, <2>1
    <2>4. GoOnAlike(Free, f, k)
      BY <1>5, <2>2, <2>3 DEF GoOnAlike
    <2>5. Alike(Free, f, k)
      BY <1>4, <2>4, StayAlike
    <2> QED
      BY <2>5 DEF Alike
  <1>10. DOMAIN Free = 0 .. k
    BY <1>8
  <1>11. n \in DOMAIN Free /\ Free[n] = Null
    BY <1>4, <1>9, <1>10
  <1>12. FreeChunks = FreeSet
    <2>1. ASSUME NEW i \in 1 .. n  PROVE \E m \in DOMAIN Free : Free[m] = q[i] /\ q[i] # Null
      <3>1. i - 1 \in 0 .. k /\ i - 1 < n /\ (i - 1) + 1 = i
        BY <1>4
      <3> QED
        BY <1>9, <1>10, <3>1, Named
    <2>2. ASSUME NEW m \in DOMAIN Free, Free[m] # Null
          PROVE  \E i \in 1 .. n : q[i] = Free[m]
      <3>1. m \in 0 .. k /\ m < n
        BY <1>9, <1>10, <2>2
      <3>2. m + 1 \in 1 .. n
        BY <3>1
      <3> QED
        BY <1>9, <3>1, <3>2
    <2> QED
      BY <1>3, <2>1, <2>2 DEF FreeChunks
  <1> QED
    BY <1>11, <1>12

(* And it holds in every state.                                            *)
LEMMA PoolInvariant == PoolSpec => []PoolInv
  BY PoolInitInv, PoolNextInv, PTL DEF PoolSpec

(* However threads interleave in alloc() and dealloc(), and however often  *)
(* the pool grows, no chunk has two owners, and none that has an owner is  *)
(* on the free list.                                                       *)
THEOREM ChunksHandedOutOnce == PoolSpec => []HandedOutOnce
  <1>1. PoolInv => HandedOutOnce
    <2>. SUFFICES ASSUME PoolInv  PROVE HandedOutOnce
      OBVIOUS
    <2>1. FreeChunks = FreeSet
      BY FreeIsList DEF PoolInv
    <2>2. \A t \in Threads : owned[t] \cap FreeSet = {}
      BY DEF FreeSet, GivenOut
    <2> QED
      BY <2>1, <2>2 DEF HandedOutOnce, PoolInv, Apart
  <1> QED
    BY <1>1, PoolInvariant, PTL

(* No chunk of any block is lost: whenever the lock is free, each is on    *)
(* the free list, owned or on its way back, and the list ends.             *)
THEOREM ChunksConserved == PoolSpec => []Conserved
  <1>1. PoolInv => Conserved
    <2>. SUFFICES ASSUME PoolInv, holders = {}, phase = "in_use"
                  PROVE  Conserved
      BY DEF Conserved
    <2>. DEFINE waiting == {chunk[t] : t \in {u \in Threads : op[u] = "dealloc"}}
    <2>1. PoolTypes /\ \A t \in Threads : Operating(t) /\ Apart(t)
      BY DEF PoolInv
    <2>2. FreeChunks = FreeSet /\ \E n \in DOMAIN Free : Free[n] = Null
      BY FreeIsList DEF PoolInv
    <2>3. \A t \in Threads : op[t] = "dealloc" <=> Returning(t)
      BY <2>1 DEF Operating, Returning, PoolTypes
    <2>4. AllChunks = UNION {Cut(b) : b \in live} /\ AllChunks \subseteq Chunks
      BY <2>1, CountAssumption, Growth DEF AllChunks, PoolTypes
    <2>5. (GivenOut \cup waiting) \ Large \subseteq AllChunks
      <3>1. ASSUME NEW t \in Threads, NEW c \in owned[t], c \notin Large  PROVE c \in AllChunks
        BY <2>1, <3>1 DEF PoolTypes, Apart
      <3>2. ASSUME NEW t \in Threads, Returning(t), chunk[t] \notin Large
            PROVE  chunk[t] \in AllChunks
        BY <2>1, <3>2 DEF PoolTypes, Apart, Operating, Links
      <3> QED
        BY <2>3, <3>1, <3>2 DEF GivenOut
    <2>6. AllChunks \subseteq FreeSet \cup ((GivenOut \cup waiting) \ Large)
      BY <2>3, <2>4, Named DEF FreeSet
    <2>7. FreeSet \subseteq AllChunks
      BY DEF FreeSet
    <2> QED
      BY <2>2, <2>4, <2>5, <2>6, <2>7 DEF Conserved
  <1> QED
    BY <1>1, PoolInvariant, PTL

(* The rest of the types, of what only the destructor looks at.            *)
LastTypes == /\ m_allocs \in Links /\ pchunk \in Links \cup {Data}
             /\ live \subseteq 1 .. MaxBlocks

(* Every variable of the pool keeps its type, also in the destructor, which *)
(* walks along the wrong words.                                            *)
THEOREM PoolTypeCorrect == PoolSpec => []PoolTypeOK
  <1>. ChunkCount \in Nat \ {0} /\ MaxBlocks \in Nat \ {0}
    BY CountAssumption
  <1>1. PoolInit => LastTypes
    <2>1. <<1, 0>> \in Chunks
      BY DEF Chunks
    <2>. QED
      BY <2>1 DEF PoolInit, LastTypes, Links
  <1>2. PoolTypes /\ LastTypes /\ [PoolNext]_poolVars => LastTypes'
    <2>. SUFFICES ASSUME PoolTypes, LastTypes, [PoolNext]_poolVars  PROVE LastTypes'
      OBVIOUS
    <2>1. CASE \E t \in Threads : Grow(t)
      <3>1. blocks + 1 \in 1 .. MaxBlocks /\ blocks' = blocks + 1
        BY <2>1 DEF Grow, PoolTypes
      <3>2. m_allocs' = <<blocks', 0>> /\ live' = live \cup {blocks'} /\ pchunk' = pchunk
        BY <2>1 DEF Grow, destructor
      <3>3. <<blocks', 0>> \in Chunks
        BY <3>1 DEF Chunks
      <3>. QED
        BY <3>1, <3>2, <3>3 DEF LastTypes, Links
    <2>2. CASE Destroy
      BY <2>2 DEF Destroy, LastTypes, pool
    <2>3. CASE DeleteBlock
      <3>1. ASSUME pchunk \in live \X {0}  PROVE pchunk \in Chunks
        <4>1. PICK b \in live : pchunk = <<b, 0>>
          BY <3>1
        <4>2. b \in 1 .. MaxBlocks /\ 0 \in 0 .. ChunkCount - 1
          BY DEF LastTypes
        <4>. QED
          BY <4>1, <4>2 DEF Chunks
      <3>. QED
        BY <2>3, <3>1 DEF DeleteBlock, LastTypes, PoolTypes
    <2>4. CASE UNCHANGED <<m_allocs, live, pchunk>>
      BY <2>4 DEF LastTypes
    <2>5. ASSUME NEW t \in Threads, Operation(t), ~Grow(t)
          PROVE  UNCHANGED <<m_allocs, live, pchunk>>
      BY <2>5 DEF Operation, Allocator, CallAlloc, AllocateLarge, CallDealloc, Write,
         Acquire, Release, GrowFails, Take, Pop, Link, LinkDeleted, Push, pool, destructor
    <2>6. Over \/ UNCHANGED poolVars => UNCHANGED <<m_allocs, live, pchunk>>
      BY DEF Over, poolVars, pool, destructor
    <2>. QED
      BY <2>1, <2>2, <2>3, <2>4, <2>5, <2>6 DEF PoolNext
  <1>3. PoolTypes /\ LastTypes => PoolTypeOK
    BY DEF PoolTypes, LastTypes, PoolTypeOK
  <1>4. PoolInv => PoolTypes
    BY DEF PoolInv
  <1> QED
    BY <1>1, <1>2, <1>3, <1>4, PoolInvariant, PTL DEF PoolSpec
=============================================================================
