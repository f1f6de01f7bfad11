------------------------------- MODULE Timing -------------------------------
(***************************************************************************)
(* timestamp and time_span of libk2 (k2/timing.h, source/timing.cpp):      *)
(* unsigned counts of milliseconds in words of 64 bits, whose seconds are  *)
(* handed out in words of 32 bits.  The widths and the thousand            *)
(* milliseconds of a second are parameters.                                *)
(*                                                                         *)
(* A program keeps a timestamp and a time_span and applies the operators   *)
(* to them, one after the other, while the clock of the system goes on,    *)
(* and goes back when somebody sets it.                                    *)
(***************************************************************************)
EXTENDS Integers

CONSTANTS Word,       \* the values of uint64_t are 0 .. Word - 1
          Word32,     \* those of uint32_t
          Thousand    \* one_thousand

ASSUME TimingAssumption ==
  /\ Word \in Nat \ {0} /\ Word32 \in Nat \ {0} /\ Thousand \in Nat \ {0}
  /\ Word32 <= Word /\ Thousand < Word

VARIABLES clock,      \* os_timestamp()
          stamp,      \* m_msec of a timestamp
          span,       \* m_msec of a time_span
          exact       \* what stamp would be in words without end

vars == <<clock, stamp, span, exact>>

Msec == 0 .. Word - 1

-----------------------------------------------------------------------------
(* Unsigned arithmetic on two values of a word. *)

\* Mutant: a sum that does not fit is held at the greatest value.
PlusHeld(a, b) == IF a + b < Word THEN a + b ELSE Word - 1

Plus(a, b) == IF a + b < Word THEN a + b ELSE a + b - Word
Minus(a, b) == IF a >= b THEN a - b ELSE a - b + Word
Times(a, m) == (a * m) % Word
Truncated(a) == a % Word32

(* Readings of a timestamp and of a time_span. *)

InSec(m) == Truncated(m \div Thousand)
MsecOfSec(m) == m % Thousand
SpanInSec(m) == Truncated(m \div Thousand)
SpanMsecOfSec(m) == m % Thousand

(* Differences.  What a timestamp is ahead of another one, or of the clock, *)
(* is never less than nothing; what the clock is ahead of one is not held.  *)

\* Mutant: without the test the difference wraps.
AheadUnheld(a, now) == Minus(a, now)

Ahead(a, b) == IF a > b THEN Minus(a, b) ELSE 0
AheadOfClock(a, now) == IF a > now THEN Minus(a, now) ELSE 0
ClockAhead(now, b) == Minus(now, b)

(* operator+ and operator- with a span. *)

Later(a, s) == Plus(a, s)
Earlier(a, s) == Minus(a, s)
LaterThanClock(now, s) == Plus(now, s)
EarlierThanClock(now, s) == Minus(now, s)

(* The six comparisons: of two timestamps, of one with the clock on either  *)
(* side, of two spans.                                                      *)

Relations == {"==", "!=", "<", "<=", ">", ">="}

Compare(op, a, b) ==
  CASE op = "==" -> a = b
    [] op = "!=" -> a # b
    [] op = "<" -> a < b
    [] op = "<=" -> a <= b
    [] op = ">" -> a > b
    [] op = ">=" -> a >= b

CompareWithClock(op, a, now) == Compare(op, a, now)
ClockCompare(op, now, b) == Compare(op, now, b)
SpanCompare(op, a, b) == Compare(op, a, b)

Expired(a, now) == CompareWithClock("<=", a, now)

(* The four assignments of a span. *)

SpanPlus(a, s) == Plus(a, s)
SpanMinus(a, s) == Minus(a, s)
SpanTimes(a, m) == Times(a, m)
SpanDivide(a, m) == a \div m

(* select() is told how long to wait in seconds and microseconds, and Linux  *)
(* has it say in them how much is left.                                      *)

Timeval(s) == [sec |-> SpanInSec(s), usec |-> SpanMsecOfSec(s) * Thousand]

FromTimeval(tv) == (tv.sec * Thousand + tv.usec \div Thousand) % Word
Usec(tv) == tv.sec * Thousand * Thousand + tv.usec

\* What is left of a timeout after a wait, without the kernel's help.
Left(timeout, waited) ==
  IF SpanCompare(">", waited, timeout) THEN 0 ELSE SpanMinus(timeout, waited)

-----------------------------------------------------------------------------
Init ==
  /\ clock \in Msec
  /\ stamp = clock
  /\ span = 0
  /\ exact = clock

(* Operations of a timestamp. *)

Now ==
  /\ stamp' = clock /\ exact' = clock
  /\ UNCHANGED <<clock, span>>

NowPlusSpan ==
  /\ stamp' = LaterThanClock(clock, span) /\ exact' = clock + span
  /\ UNCHANGED <<clock, span>>

NowMinusSpan ==
  /\ stamp' = EarlierThanClock(clock, span) /\ exact' = clock - span
  /\ UNCHANGED <<clock, span>>

\* Ghosts are kept within a word of what the program holds.
Increase ==
  /\ exact + span < 2 * Word
  /\ stamp' = Later(stamp, span) /\ exact' = exact + span
  /\ UNCHANGED <<clock, span>>

Decrease ==
  /\ exact - span > -Word
  /\ stamp' = Earlier(stamp, span) /\ exact' = exact - span
  /\ UNCHANGED <<clock, span>>

(* Operations of a time_span. *)

NewSpan ==
  /\ span' \in Msec
  /\ UNCHANGED <<clock, stamp, exact>>

TimeLeft ==
  /\ span' = AheadOfClock(stamp, clock)
  /\ UNCHANGED <<clock, stamp, exact>>

TimeGone ==
  /\ span' = ClockAhead(clock, stamp)
  /\ UNCHANGED <<clock, stamp, exact>>

\* socket_wait2(): a wait has begun at the timestamp and takes from the span,
\* by the clock or, on Linux, by what select() has written over its argument.
Waited ==
  /\ span' = Left(span, Ahead(clock, stamp))
  /\ UNCHANGED <<clock, stamp, exact>>

Selected ==
  /\ \E tv \in [sec : 0 .. SpanInSec(span), usec : 0 .. Thousand * Thousand - 1] :
       /\ Usec(tv) <= Usec(Timeval(span))
       /\ span' = FromTimeval(tv)
  /\ UNCHANGED <<clock, stamp, exact>>

Longer ==
  /\ \E s \in Msec : span' = SpanPlus(span, s)
  /\ UNCHANGED <<clock, stamp, exact>>

Shorter ==
  /\ \E s \in Msec : span' = SpanMinus(span, s)
  /\ UNCHANGED <<clock, stamp, exact>>

Multiplied ==
  /\ \E m \in Msec : span' = SpanTimes(span, m)
  /\ UNCHANGED <<clock, stamp, exact>>

Divided ==
  /\ \E m \in Msec \ {0} : span' = SpanDivide(span, m)
  /\ UNCHANGED <<clock, stamp, exact>>

\* The clock of the system goes on, or is set.
ClockChanges ==
  /\ clock' \in Msec
  /\ UNCHANGED <<stamp, span, exact>>

Next ==
  \/ Now \/ NowPlusSpan \/ NowMinusSpan \/ Increase \/ Decrease
  \/ NewSpan \/ TimeLeft \/ TimeGone \/ Waited \/ Selected
  \/ Longer \/ Shorter \/ Multiplied \/ Divided
  \/ ClockChanges

Spec == Init /\ [][Next]_vars

-----------------------------------------------------------------------------
(* Properties. *)

TypeOK ==
  /\ clock \in Msec /\ stamp \in Msec /\ span \in Msec
  /\ exact \in -Word .. 2 * Word

\* Whatever sequence of additions and subtractions led to it, a timestamp is
\* the exact point in time but for whole words, and is exact when that lies in
\* the range of a word: an overflow on the way does no harm when it is undone.
StampExact ==
  /\ (exact - stamp) % Word = 0
  /\ exact \in Msec => stamp = exact

\* A timer has expired exactly when nothing is left of it: the loops that wait
\* for what is left and those that test for the end agree.  So do the
\* comparisons with the clock on one side and on the other, and both with the
\* difference.
OrderAgrees ==
  /\ Expired(stamp, clock) <=> AheadOfClock(stamp, clock) = 0
  /\ ClockCompare("<", clock, stamp) <=> CompareWithClock(">", stamp, clock)
  /\ CompareWithClock("<", stamp, clock) <=> Ahead(clock, stamp) # 0
  /\ Expired(stamp, clock) => ClockAhead(clock, stamp) = Ahead(clock, stamp)
  /\ SpanCompare("<=", AheadOfClock(stamp, clock), stamp)

\* now - (now - s) is s, which test_suit.cpp:219 tests with ten minutes: for
\* all spans although the subtraction on the way may wrap.  The difference of
\* a timestamp and now is held at nothing instead, and is s only if it did not.
\* What select() gives back of a span that it used nothing of is the span, as
\* long as its seconds fit 32 bits.
SpansComeBack ==
  /\ ClockAhead(clock, EarlierThanClock(clock, span)) = span
  /\ span <= clock => Ahead(clock, EarlierThanClock(clock, span)) = span
  /\ span < Word32 * Thousand => FromTimeval(Timeval(span)) = span

=============================================================================
