------------------------------ MODULE Calendar ------------------------------
(***************************************************************************)
(* date_util.h: dates of the proleptic Gregorian calendar and the          *)
(* arithmetic that constant folding does on them.  A date is [y, m, d]; in *)
(* the code it is the text YYYY-MM-DD, whose four digits bound the year.   *)
(* \div rounds down, as the code arranges for negative operands.           *)
(***************************************************************************)
EXTENDS Integers, Sequences

Civil(y, m, d) == [y |-> y, m |-> m, d |-> d]
OutOfRange     == Civil(-1, 0, 0)   \* throwDateOutOfRange

MIN_DATE_YEAR       == 0
MAX_DATE_YEAR       == 9999
MAX_INTERVAL_DAYS   == 4000000
MAX_INTERVAL_MONTHS == 200000
MAX_INTERVAL_YEARS  == 20000

(* Wrong variant: the centuries are all leap years.                        *)
JulianLeapYear(y) == y % 4 = 0

IsLeapYear(y) == (y % 4 = 0 /\ y % 100 # 0) \/ y % 400 = 0

DaysInMonth(y, m) ==
    IF m = 2 /\ IsLeapYear(y) THEN 29
    ELSE <<31, 28, 31, 30, 31, 30, 31, 31, 30, 31, 30, 31>>[m]

IsIsoDate(date) ==
    /\ date.y \in MIN_DATE_YEAR .. MAX_DATE_YEAR
    /\ date.m \in 1 .. 12 /\ date.d >= 1 /\ date.d <= DaysInMonth(date.y, date.m)

(* Days since 1970-01-01.  Years begin in March, eras have 400 of them.    *)
DaysFromCivil(date) ==
    LET y   == IF date.m <= 2 THEN date.y - 1 ELSE date.y
        era == y \div 400
        yoe == y - era * 400
        doy == (153 * (date.m + (IF date.m > 2 THEN -3 ELSE 9)) + 2) \div 5 + date.d - 1
        doe == yoe * 365 + yoe \div 4 - yoe \div 100 + doy
    IN  era * 146097 + doe - 719468

CivilFromDays(days) ==
    LET z   == days + 719468
        era == z \div 146097
        doe == z - era * 146097
        yoe == (doe - doe \div 1460 + doe \div 36524 - doe \div 146096) \div 365
        doy == doe - (365 * yoe + yoe \div 4 - yoe \div 100)
        mp  == (5 * doy + 2) \div 153
        m   == IF mp < 10 THEN mp + 3 ELSE mp - 9
    IN  Civil(yoe + era * 400 + (IF m <= 2 THEN 1 ELSE 0), m, doy - (153 * mp + 2) \div 5 + 1)

(* formatIsoDate writes four digits: no other year can be represented.     *)
InRange(date) ==
    IF date.y \in MIN_DATE_YEAR .. MAX_DATE_YEAR THEN date ELSE OutOfRange

AddDays(date, n) ==
    IF n > MAX_INTERVAL_DAYS \/ n < - MAX_INTERVAL_DAYS THEN OutOfRange
    ELSE InRange(CivilFromDays(DaysFromCivil(date) + n))

(* The day is clamped to the length of the month arrived at.               *)
AddMonths(date, n) ==
    LET total == date.y * 12 + (date.m - 1) + n
        y     == total \div 12
        m     == total - y * 12 + 1
    IN  IF n > MAX_INTERVAL_MONTHS \/ n < - MAX_INTERVAL_MONTHS THEN OutOfRange
        ELSE IF y \notin MIN_DATE_YEAR .. MAX_DATE_YEAR THEN OutOfRange
        ELSE Civil(y, m, IF date.d > DaysInMonth(y, m) THEN DaysInMonth(y, m) ELSE date.d)

AddYears(date, n) ==
    IF n > MAX_INTERVAL_YEARS \/ n < - MAX_INTERVAL_YEARS THEN OutOfRange
    ELSE AddMonths(date, n * 12)

Add(date, n, unit) ==
    CASE unit = "day"   -> AddDays(date, n)
      [] unit = "month" -> AddMonths(date, n)
      [] unit = "year"  -> AddYears(date, n)

-----------------------------------------------------------------------------
(* What a date some days or months later is, by the calendar alone.        *)

LastDay(y, m) ==
    IF m = 2 THEN IF y % 400 = 0 \/ (y % 4 = 0 /\ y % 100 # 0) THEN 29 ELSE 28
    ELSE IF m \in {4, 6, 9, 11} THEN 30 ELSE 31

Months(from, to) == [y : from .. to, m : 1 .. 12]

(* The days from the beginning of year 0 to the beginning of a month.      *)
DaysBefore(y, m) ==
    LET leapYears == (y + 3) \div 4 - (y + 99) \div 100 + (y + 399) \div 400
        before[k \in 1 .. 12] == IF k = 1 THEN 0 ELSE before[k - 1] + LastDay(y, k - 1)
    IN  365 * y + leapYears + before[m]

(* The date whose day is the n-th after this one, counting days.           *)
DaysLater(date, n) ==
    LET day   == DaysBefore(date.y, date.m) + date.d + n
        month == CHOOSE to \in Months(date.y + n \div 365 - 1, date.y + n \div 365 + 1) :
                     day - DaysBefore(to.y, to.m) \in 1 .. LastDay(to.y, to.m)
    IN  Civil(month.y, month.m, day - DaysBefore(month.y, month.m))

(* Counting months; the last day of a month stands for one it lacks.       *)
MonthsLater(date, n) ==
    LET month == CHOOSE to \in Months(date.y + n \div 12 - 1, date.y + n \div 12 + 1) :
                     (to.y - date.y) * 12 + to.m - date.m = n
        last  == LastDay(month.y, month.m)
    IN  Civil(month.y, month.m, IF date.d <= last THEN date.d ELSE last)

(* The date n units later, as long as a year of four digits can say it.    *)
Later(date, n, unit) ==
    InRange(CASE unit = "day"   -> DaysLater(date, n)
              [] unit = "month" -> MonthsLater(date, n)
              [] unit = "year"  -> MonthsLater(date, 12 * n))
=============================================================================
