------------------------------- MODULE TimeText -------------------------------
(***************************************************************************)
(* Times as deployment_store.go keeps them: the text of RFC3339Nano, whose *)
(* fraction has no trailing zeros, and which the database compares byte by *)
(* byte.  A time is a number of ticks, a hundred of them in a second; the  *)
(* clock's milliseconds are ten ticks here.                                *)
(***************************************************************************)
EXTENDS Integers, Sequences

Second(time) == time \div 100
Milli(time) == time \div 10

\* The bytes "." and "Z", beside the digits 0 to 9.
Dot == 0 - 1
Zulu == 10

\* Mutant: a field that is written without its leading zero.
TwoDigitsUnpadded(n) == IF n < 10 THEN <<n>> ELSE <<n \div 10, n % 10>>
TwoDigits(n) == <<n \div 10, n % 10>>

Fraction(time) ==
  LET tenth == (time % 100) \div 10
      hundredth == time % 10
  IN  IF time % 100 = 0 THEN <<>>
      ELSE IF hundredth = 0 THEN <<Dot, tenth>>
      ELSE <<Dot, tenth, hundredth>>

formatTime(time) == TwoDigits(Second(time)) \o Fraction(time) \o <<Zulu>>

\* The order of texts.
TextLess(s, t) ==
  \E i \in 1 .. Len(t) :
    /\ \A j \in 1 .. i - 1 : j =< Len(s) /\ s[j] = t[j]
    /\ i > Len(s) \/ s[i] < t[i]
=============================================================================
