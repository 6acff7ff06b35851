------------------------------ MODULE Calendar ------------------------------
(***************************************************************************)
(* The local date at a time: taski-core's own conversion from the number   *)
(* of days since 1970.  Time is counted in half hours where the code       *)
(* counts seconds; so is the offset of a time zone.                        *)
(***************************************************************************)
EXTENDS Integers

DayLength == 48

\* Division that rounds towards 0.
Quotient(a, b) == IF a >= 0 THEN a \div b ELSE -((-a) \div b)

\* Mutant: the last day of an era is the first of the next.
YearWithoutLast(doe) == (doe - doe \div 1460 + doe \div 36524) \div 365

\* The year of the era of 400 years, which begins on the first of March, by the day of it.
YearOfEra(doe) == (doe - doe \div 1460 + doe \div 36524 - doe \div 146096) \div 365

CivilFromDays(days) ==
    LET z   == days + 719468
        era == Quotient(IF z >= 0 THEN z ELSE z - 146096, 146097)
        doe == z - era * 146097
        yoe == YearOfEra(doe)
        doy == doe - (365 * yoe + yoe \div 4 - yoe \div 100)
        mp  == (5 * doy + 2) \div 153
        m   == IF mp < 10 THEN mp + 3 ELSE mp - 9
    IN  [year  |-> yoe + era * 400 + (IF m <= 2 THEN 1 ELSE 0),
         month |-> m,
         day   |-> doy - (153 * mp + 2) \div 5 + 1]

\* ymd_from_unix_local
LocalDate(time, offset) == CivilFromDays((time + offset) \div DayLength)
=============================================================================
