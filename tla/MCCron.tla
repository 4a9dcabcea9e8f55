---- MODULE MCCron ----
(* A calendar of six years, two days and every other year (leap) three days     *)
(* long; two months a year, a week of three days, two hours a day, three minutes *)
(* an hour.                                                                      *)
EXTENDS Cron

Day(month, dom, dow) == [month |-> month, dom |-> dom, dow |-> dow]
SixYears == <<Day(1, 1, 0), Day(2, 1, 1), Day(1, 1, 2), Day(2, 1, 0), Day(2, 2, 1),
              Day(1, 1, 2), Day(2, 1, 0), Day(1, 1, 1), Day(2, 1, 2), Day(2, 2, 0),
              Day(1, 1, 1), Day(2, 1, 2), Day(1, 1, 0), Day(2, 1, 1), Day(2, 2, 2)>>

FieldLimits == [minute |-> [min |-> 0, max |-> 2], hour |-> [min |-> 0, max |-> 1],
           dom |-> [min |-> 1, max |-> 2], month |-> [min |-> 1, max |-> 2],
           dow |-> [min |-> 0, max |-> 3]]

Part(base, lo, hi, step) == [base |-> base, lo |-> lo, hi |-> hi, step |-> step]
Star == <<Part("star", 0, 0, Absent)>>
Value(v) == <<Part("value", v, v, Absent)>>
Stepped(v, n) == <<Part("value", v, v, n)>>
Span(lo, hi) == <<Part("range", lo, hi, Absent)>>
Every(n) == <<Part("star", 0, 0, n)>>

\* Wildcards, values, lists, steps (also from a single value), spans, Sunday in both
\* spellings, a leap day, a step of zero, a wildcard that counts as a restriction.
MixedExprs ==
  [minute : {Star, Value(2), Stepped(1, 1), Every(2), Value(0) \o Value(1)},
   hour : {Star, Value(1)},
   dom : {Star, Value(2), Every(1)},
   month : {Star, Value(2)},
   dow : {Star, Star \o Star, Value(0), Value(3), Span(1, 2), Every(0)}]

\* A minute of every day of the first two years.
FromMinutes == {5, 6, 10, 17, 22, 26, 29}
====
