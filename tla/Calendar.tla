------------------------------ MODULE Calendar ------------------------------
(***************************************************************************)
(* Decimal numbers as sequences of symbols, and the civil calendar of the  *)
(* date library that the timestamp parsers use.                            *)
(***************************************************************************)
EXTENDS Integers, SequencesExt

Numerals == <<"0", "1", "2", "3", "4", "5", "6", "7", "8", "9">>
IsDigit(c) == \E i \in 1 .. 10 : Numerals[i] = c
Digit(c) == (CHOOSE i \in 1 .. 10 : Numerals[i] = c) - 1
Pow10[n \in Nat] == IF n = 0 THEN 1 ELSE 10 * Pow10[n - 1]
Number(s) == FoldLeft(LAMBDA n, c : 10 * n + Digit(c), 0, s)

PadTo(n, width, pad) ==
  LET ds[m \in Nat] == IF m < 10 THEN <<Numerals[m + 1]>> ELSE Append(ds[m \div 10], Numerals[(m % 10) + 1])
      padded(s) == [i \in 1 .. width - Len(s) |-> pad] \o s
  IN padded(ds[n])

Leap(y) == y % 4 = 0 /\ (y % 100 # 0 \/ y % 400 = 0)
MonthDays(y, m) == IF m = 2 THEN (IF Leap(y) THEN 29 ELSE 28) ELSE IF m \in {4, 6, 9, 11} THEN 30 ELSE 31
DaysFromCivil(y, m, d) ==
  LET y1 == IF m <= 2 THEN y - 1 ELSE y
      doy == (153 * (IF m > 2 THEN m - 3 ELSE m + 9) + 2) \div 5 + d - 1
      yoe == y1 % 400
  IN (y1 \div 400) * 146097 + yoe * 365 + (yoe \div 4) - (yoe \div 100) + doy - 719468
CivilFromDays(z0) ==
  LET date(y, mp, d) == [y |-> IF mp < 10 THEN y ELSE y + 1, mo |-> IF mp < 10 THEN mp + 3 ELSE mp - 9, d |-> d]
      month(y, doy, mp) == date(y, mp, doy - ((153 * mp + 2) \div 5) + 1)
      day(y, doy) == month(y, doy, (5 * doy + 2) \div 153)
      year(era, doe, yoe) == day(yoe + era * 400, doe - (365 * yoe + (yoe \div 4) - (yoe \div 100)))
      of(era, doe) == year(era, doe, (doe - (doe \div 1460) + (doe \div 36524) - (doe \div 146096)) \div 365)
  IN of((z0 + 719468) \div 146097, (z0 + 719468) % 146097)
Weekday(days) == (days + 4) % 7

=============================================================================
