------------------------------ MODULE Calendar ------------------------------
(***************************************************************************)
(* The calendar of DecodeTime: the days of a month, and the number of days *)
(* between a date and 1970-01-01.                                          *)
(* Source: src/src/x509_certificate.cpp.                                   *)
(***************************************************************************)
EXTENDS Integers

\* Days from 1970-01-01.  \div rounds down where the code, which divides towards zero,
\* corrects a negative year first.
DaysFromCivil(year, month, day) ==
    LET y == IF month <= 2 THEN year - 1 ELSE year
        era == y \div 400
        yoe == y - era * 400
        doy == (153 * (month + (IF month > 2 THEN -3 ELSE 9)) + 2) \div 5 + day - 1
        doe == yoe * 365 + (yoe \div 4) - (yoe \div 100) + doy
    IN  era * 146097 + doe - 719468

month_days == <<31, 28, 31, 30, 31, 30, 31, 31, 30, 31, 30, 31>>
IsLeap(year) == (year % 4 = 0 /\ year % 100 # 0) \/ year % 400 = 0

\* The days of a month.
MonthDays(year, month) == IF month = 2 /\ IsLeap(year) THEN 29 ELSE month_days[month]
=============================================================================
