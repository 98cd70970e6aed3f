---------------------------- MODULE Timestamps ----------------------------
(***************************************************************************)
(* Expiry times as the store writes them.  Every expires_at column is the  *)
(* text time.RFC3339Nano gives (internal/store/store.go, the callers of    *)
(* Format), and SQLite compares the column as text, byte by byte.          *)
(* RFC3339Nano drops the trailing zeros of the fraction, and the point     *)
(* with it when nothing is left, so the order of the texts is not the      *)
(* order of the times inside one second.                                   *)
(*                                                                         *)
(* A time is a natural number of ticks, 10^FracDigits to the second; the   *)
(* code has nine fraction digits.  The date and time of day are a field of *)
(* fixed width, which compares as the number of the second it names, and   *)
(* is one symbol here.  All times carry the same zone.                     *)
(***************************************************************************)
EXTENDS Integers, Sequences

CONSTANT FracDigits   \* digits of the fraction of a second

ASSUME FracDigitsAssumption == FracDigits \in Nat

\* The powers of ten.
Power[n \in 0..FracDigits] == IF n = 0 THEN 1 ELSE 10 * Power[n - 1]

TicksPerSecond == Power[FracDigits]

Sec(t)  == t \div TicksPerSecond
Frac(t) == t % TicksPerSecond

\* The character codes that the layout "2006-01-02T15:04:05.999999999Z07:00"
\* can put after the seconds.
Zero  == 48
Point == 46
Zulu  == 90

\* The digits of a fraction, and how many of them are left when the zeros at
\* the end are dropped.
Digit(f, i) == Zero + ((f \div Power[FracDigits - i]) % 10)
Significant(f) ==
    CHOOSE n \in 0..FracDigits :
        /\ \A i \in (n + 1)..FracDigits : Digit(f, i) = Zero
        /\ n > 0 => Digit(f, n) # Zero

FracText(f) ==
    IF f = 0 THEN <<>> ELSE <<Point>> \o [i \in 1..Significant(f) |-> Digit(f, i)]

\* expiresAt.Format(time.RFC3339Nano)
Format(t) == <<Sec(t)>> \o FracText(Frac(t)) \o <<Zulu>>

\* The fraction that the digits of a text stand for: they are read as a number,
\* which is scaled by the digits that are missing.
ParseFrac(digits) ==
    LET read[i \in 0..Len(digits)] ==
            IF i = 0 THEN 0 ELSE 10 * read[i - 1] + (digits[i] - Zero)
    IN  read[Len(digits)] * Power[FracDigits - Len(digits)]

\* time.Parse(time.RFC3339Nano, s)
Parse(s) ==
    s[1] * TicksPerSecond
      + (IF s[2] = Point THEN ParseFrac(SubSeq(s, 3, Len(s) - 1)) ELSE 0)

\* The BINARY collation of a TEXT column.
LexLess(s, u) ==
    \E n \in 1..Len(u) :
        /\ \A i \in 1..(n - 1) : i <= Len(s) /\ s[i] = u[i]
        /\ \/ n = Len(s) + 1
           \/ n <= Len(s) /\ s[n] < u[n]

\* expires_at < ?  and  expires_at <= ?  between two times' texts.
TextLess(a, b) == LexLess(Format(a), Format(b))
TextLeq(a, b)  == TextLess(a, b) \/ Format(a) = Format(b)

\* now.After(expiresAt) in Go: the order of the times themselves.
After(t, exp) == t > exp

\* Some moment up to t has a text above exp's, so that a sweep that started
\* by then may remove the row: a whole second early unless exp falls on a
\* second, and never before exp's second.
Sweepable(exp, t) ==
    IF Frac(exp) = 0 THEN Sec(exp) < Sec(t) ELSE Sec(exp) <= Sec(t)

\* The first moment at which a row may be gone, by the clock or by its text.
Lapse(exp) == IF Frac(exp) = 0 THEN exp + 1 ELSE Sec(exp) * TicksPerSecond

===========================================================================
