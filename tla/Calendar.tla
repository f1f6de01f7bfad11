------------------------------ MODULE Calendar ------------------------------
(***************************************************************************)
(* calendar of libk2 (k2/timing.h, source/timing.cpp): a timestamp that is *)
(* broken down into year, month, day and so on when one of them is first   *)
(* asked for.  gmtime() and localtime() answer in one buffer that belongs  *)
(* to the C library; gmtime_lock keeps the calendars off each other's      *)
(* answers, but nothing guards m_validated and the fields themselves.      *)
(***************************************************************************)
EXTENDS Timing

CONSTANTS Readers,      \* threads that read calendars
          Calendars,    \* calendar objects, seen by all the threads
          StampOf,      \* the timestamp of each calendar
          ZoneOf,       \* "utc" or "local", for each calendar
          Offset,       \* seconds that local time is ahead of utc
          Day, Year     \* seconds in a day and in a year

VARIABLES validated,    \* m_validated
          fields,       \* m_year, m_day_of_month and the others
          msec,         \* m_msec_of_sec
          buffer,       \* struct tm of the C library
          holder,       \* the thread that holds gmtime_lock
          at,           \* where each reader is
          reading,      \* the calendar and the field it reads
          got,          \* what its last getter returned
          raced         \* another thread was between the two stores then

calendarVars ==
  <<validated, fields, msec, buffer, holder, at, reading, got, raced>>

Garbage == -1
GarbageFields ==
  [year |-> Garbage, day_of_month |-> Garbage, sec_of_min |-> Garbage]
Nobody == "nobody"
Getters == {"year", "day_of_month", "sec_of_min", "msec_of_sec"}

ASSUME CalendarAssumption ==
  /\ Nobody \notin Readers
  /\ StampOf \in [Calendars -> Msec]
  /\ Offset \in Int /\ Day \in Nat \ {0} /\ Year \in Nat \ {0}

\* What the C library answers: years count from 1900, days from 1, the rest
\* from 0.
Tm(zone, t) ==
  LET s == IF zone = "local" THEN t + Offset ELSE t IN
  [tm_year |-> 70 + s \div Year, tm_mday |-> 1 + (s % Year) \div Day,
   tm_sec |-> s % Day]

\* What validate() makes of it.
FieldsOf(tm) ==
  [year |-> tm.tm_year + 1970, day_of_month |-> tm.tm_mday - 1,
   sec_of_min |-> tm.tm_sec]

CalendarInit ==
  /\ validated = [c \in Calendars |-> FALSE]
  /\ fields = [c \in Calendars |-> GarbageFields]
  /\ msec = [c \in Calendars |-> Garbage]
  /\ buffer = Tm("utc", 0)
  /\ holder = Nobody
  /\ at = [r \in Readers |-> "out"]
  /\ reading = [r \in Readers |-> <<>>]
  /\ got = [r \in Readers |-> <<>>]
  /\ raced = [r \in Readers |-> FALSE]

To(r, label) == at' = [at EXCEPT ![r] = label]
Cal(r) == reading[r][1]
Getter(r) == reading[r][2]

\* A getter, which first calls validate().
Get(r, c, getter) ==
  /\ at[r] = "out"
  /\ reading' = [reading EXCEPT ![r] = <<c, getter>>]
  /\ got' = [got EXCEPT ![r] = <<>>]
  /\ To(r, "check")
  /\ UNCHANGED <<validated, fields, msec, buffer, holder, raced>>

\* m_validated is looked at before the lock is taken, and not again after.
Test(r) ==
  /\ at[r] = "check"
  /\ To(r, IF validated[Cal(r)] THEN "read" ELSE "lock")
  /\ UNCHANGED <<validated, fields, msec, buffer, holder, reading, got, raced>>

\* Mutant: the lock is not taken.
PassLock(r) ==
  /\ at[r] = "lock"
  /\ To(r, "break")
  /\ UNCHANGED <<validated, fields, msec, buffer, holder, reading, got, raced>>

LockBuffer(r) ==
  /\ at[r] = "lock"
  /\ holder = Nobody /\ holder' = r
  /\ To(r, "break")
  /\ UNCHANGED <<validated, fields, msec, buffer, reading, got, raced>>

\* gmtime() or localtime().
BreakDown(r) ==
  /\ at[r] = "break"
  /\ buffer' = Tm(ZoneOf[Cal(r)], InSec(StampOf[Cal(r)]))
  /\ To(r, "copy")
  /\ UNCHANGED <<validated, fields, msec, holder, reading, got, raced>>

\* The fields are copied, and the lock released.
Copy(r) ==
  /\ at[r] = "copy"
  /\ fields' = [fields EXCEPT ![Cal(r)] = FieldsOf(buffer)]
  /\ holder' = Nobody
  /\ To(r, "mark")
  /\ UNCHANGED <<validated, msec, buffer, reading, got, raced>>

\* m_validated, and only then m_msec_of_sec.
Mark(r) ==
  /\ at[r] = "mark"
  /\ validated' = [validated EXCEPT ![Cal(r)] = TRUE]
  /\ To(r, "late")
  /\ UNCHANGED <<fields, msec, buffer, holder, reading, got, raced>>

SetMsec(r) ==
  /\ at[r] = "late"
  /\ msec' = [msec EXCEPT ![Cal(r)] = MsecOfSec(StampOf[Cal(r)])]
  /\ To(r, "read")
  /\ UNCHANGED <<validated, fields, buffer, holder, reading, got, raced>>

\* The getter returns its field.
ReadField(r) ==
  /\ at[r] = "read"
  /\ got' = [got EXCEPT ![r] =
               <<IF Getter(r) = "msec_of_sec" THEN msec[Cal(r)]
                 ELSE fields[Cal(r)][Getter(r)]>>]
  /\ raced' = [raced EXCEPT ![r] =
                 \E q \in Readers \ {r} : at[q] = "late" /\ Cal(q) = Cal(r)]
  /\ To(r, "out")
  /\ UNCHANGED <<validated, fields, msec, buffer, holder, reading>>

CalendarNext ==
  \E r \in Readers :
    \/ \E c \in Calendars, getter \in Getters : Get(r, c, getter)
    \/ Test(r) \/ LockBuffer(r) \/ BreakDown(r) \/ Copy(r) \/ Mark(r) \/ SetMsec(r)
    \/ ReadField(r)

CalendarSpec == CalendarInit /\ [][CalendarNext]_calendarVars

-----------------------------------------------------------------------------
(* Properties. *)

\* What a getter should return: the year of the calendar, the days of the month
\* and the seconds of the minute that have passed, in the calendar's zone, and
\* the milliseconds of the timestamp.
Truth(c, getter) ==
  LET s == InSec(StampOf[c]) + (IF ZoneOf[c] = "local" THEN Offset ELSE 0) IN
  CASE getter = "year"         -> 1970 + s \div Year
    [] getter = "day_of_month" -> (s % Year) \div Day
    [] getter = "sec_of_min"   -> s % Day
    [] getter = "msec_of_sec"  -> MsecOfSec(StampOf[c])

\* However many threads break down calendars of different times and zones at
\* once, one or several of them the same calendar, a getter returns the field
\* of its own timestamp.  There are two exceptions: a year is 70 too much, as
\* tm_year is 70 already for 1970 (timing.cpp:433, 460; see YearFrom1970); and
\* the milliseconds are stored after m_validated, so that a thread that comes
\* between (timing.cpp:442-443, 469-470) returns what the memory held.
GettersTruthful ==
  \A r \in Readers :
    got[r] # <<>> =>
      \/ Getter(r) # "year" /\ got[r][1] = Truth(Cal(r), Getter(r))
      \/ Getter(r) = "year" /\ got[r][1] = Truth(Cal(r), "year") + 70
      \/ Getter(r) = "msec_of_sec" /\ raced[r] /\ got[r][1] = Garbage

\* Not so: year() counts from 1970 (timing.h:201, "The number of years, starting
\* from 1970."), which would make it the year, or the years passed since.
YearFrom1970 ==
  \A r \in Readers :
    got[r] # <<>> /\ Getter(r) = "year" =>
      got[r][1] \in {Truth(Cal(r), "year"), Truth(Cal(r), "year") - 1970}

=============================================================================
