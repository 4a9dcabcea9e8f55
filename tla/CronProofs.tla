------------------------------ MODULE CronProofs ------------------------------
(***************************************************************************)
(* `cronNextAfter` returns the first match, for every expression, calendar,  *)
(* starting minute and scan limit, as long as the clocks never change.      *)
(***************************************************************************)
EXTENDS Cron, TLAPS

\* Without a change of the clocks, one minute later on the wall is one minute later.
LEMMA MinuteByMinute ==
  ASSUME Fallback = Absent, NEW t \in Nat
  PROVE  MinuteAfter(t) = t + 1
BY CronAssumption DEF MinuteAfter, FromWall, Wall, GoesBack

\* The scan starts one minute after the one asked from, with nothing behind it.
LEMMA ScanStarts == ASSUME Fallback = Absent, Init PROVE ScanInv
<1>1. from \in Nat
  BY CronAssumption DEF Init
<1>2. cursor = from + 1
  BY <1>1, MinuteByMinute DEF Init
<1>3. \A t \in from + 1 .. cursor - 1 : FALSE
  BY <1>1, <1>2
<1>4. i = 0 /\ i < MaxScan
  BY CronAssumption DEF Init
<1> QED
  BY <1>1, <1>2, <1>3, <1>4 DEF Init, ScanInv

\* A hit ends the scan; a miss puts one more minute without a match behind it.
LEMMA ScanGoesOn ==
  ASSUME Fallback = Absent, ScanInv, [Next]_vars
  PROVE  ScanInv'
<1>1. CASE Hit
  <2>1. UNCHANGED <<expr, from, cursor, i>> /\ outcome' = "found"
    BY <1>1 DEF Hit
  <2>2. Matches(expr', DateOf(cursor'))
    BY <1>1 DEF Hit
  <2>3. \A t \in from' + 1 .. cursor' - 1 : ~Matches(expr', DateOf(t))
    BY <2>1 DEF ScanInv
  <2> QED
    BY <2>1, <2>2, <2>3 DEF ScanInv
<1>2. CASE Scan
  <2>1. UNCHANGED <<expr, from>> /\ i' = i + 1 /\ cursor' = MinuteAfter(cursor)
    BY <1>2 DEF Scan
  <2>2. cursor \in Nat /\ cursor' = cursor + 1
    BY <2>1, MinuteByMinute DEF ScanInv
  <2>3. \A t \in from' + 1 .. cursor' - 1 : ~Matches(expr', DateOf(t))
    <3>1. SUFFICES ASSUME NEW t \in from + 1 .. cursor PROVE ~Matches(expr, DateOf(t))
      BY <2>1, <2>2
    <3>2. CASE t = cursor
      BY <1>2, <3>2 DEF Scan
    <3>3. CASE t \in from + 1 .. cursor - 1
      BY <3>3 DEF ScanInv
    <3> QED
      BY <2>2, <3>2, <3>3 DEF ScanInv
  <2>4. /\ outcome' = "scanning" \/ outcome' = "thrown"
        /\ outcome' = "scanning" => i' < MaxScan
        /\ outcome' = "thrown" => i' = MaxScan
    BY <1>2, <2>1, CronAssumption DEF Scan, ScanInv
  <2> QED
    BY <2>1, <2>2, <2>3, <2>4 DEF ScanInv
<1>3. CASE UNCHANGED vars
  BY <1>3 DEF vars, ScanInv
<1> QED
  BY <1>1, <1>2, <1>3 DEF Next

\* The minute `cronNextAfter` returns is the first match after the one it was asked
\* from; it throws only if the expression is malformed or nothing matches within the
\* scan limit.
THEOREM FirstMatch == ASSUME Fallback = Absent PROVE Spec => []NextIsFirst
<1>1. Init => ScanInv
  BY ScanStarts
<1>2. ScanInv /\ [Next]_vars => ScanInv'
  BY ScanGoesOn
<1>3. ScanInv => NextIsFirst
  <2>1. SUFFICES ASSUME ScanInv PROVE NextIsFirst
    OBVIOUS
  <2>2. from + MaxScan = cursor - 1 \/ i # MaxScan
    BY <2>1, CronAssumption DEF ScanInv
  <2> QED
    BY <2>1, <2>2 DEF ScanInv, NextIsFirst
<1> QED
  BY <1>1, <1>2, <1>3, PTL DEF Spec

\* In such a zone the minute found is strictly after the one asked from.
THEOREM AfterFrom == ASSUME Fallback = Absent PROVE Spec => []StrictlyAfter
<1>1. Init => ScanInv
  BY ScanStarts
<1>2. ScanInv /\ [Next]_vars => ScanInv'
  BY ScanGoesOn
<1>3. ScanInv => StrictlyAfter
  BY DEF ScanInv, StrictlyAfter
<1> QED
  BY <1>1, <1>2, <1>3, PTL DEF Spec

-----------------------------------------------------------------------------
(* What parsing makes of an expression. *)

\* The parts of a parsed expression and the ranges of its fields.
LEMMA PartType ==
  ASSUME expr \in Exprs, Parses(expr), NEW f \in Fields, NEW part \in Range(expr[f])
  PROVE  /\ Ranges[f].min \in Nat /\ Ranges[f].max \in Nat
         /\ part.base \in {"star", "value", "range"}
         /\ part.lo \in Nat /\ part.hi \in Nat /\ part.step \in Nat \cup {Absent}
         /\ Valid(part, f)
BY FieldAssumption DEF Parses

\* The set made of a part has the values that the syntax allows, within the range.
LEMMA PartIsFaithful ==
  ASSUME expr \in Exprs, Parses(expr), NEW f \in Fields, NEW part \in Range(expr[f]),
         NEW v \in Ranges[f].min .. Ranges[f].max
  PROVE  v \in ParsePart(part, f) <=> Allows(part, f, v)
<1>1. PICK lo \in Nat, hi \in Nat, min \in Nat, max \in Nat :
        lo = part.lo /\ hi = part.hi /\ min = Ranges[f].min /\ max = Ranges[f].max
  BY PartType
<1>2. Valid(part, f) /\ part.base \in {"star", "value", "range"}
  BY PartType
<1>3. v \in Int /\ min <= v /\ v <= max
  BY <1>1
<1>4. \A x \in Int : x % 1 = 0
  OBVIOUS
<1>5. PICK n \in Nat : n = StepOf(part) /\ n >= 1
  <2>1. StepOf(part) \in Nat
    BY PartType DEF StepOf
  <2> QED
    BY <1>2, <2>1 DEF Valid
<1>6. n = IF part.step = Absent THEN 1 ELSE part.step
  BY <1>5 DEF StepOf
<1>7. CASE part.base = "star"
  <2>1. v \in ParsePart(part, f) <=> v \in min .. max /\ (v - min) % n = 0
    BY <1>1, <1>5, <1>7 DEF ParsePart, Bounds
  <2>2. Allows(part, f, v) <=> (v - min) % n = 0
    BY <1>1, <1>6, <1>7 DEF Allows
  <2> QED
    BY <1>1, <1>3, <2>1, <2>2
<1>8. CASE part.base = "range"
  <2>1. v \in ParsePart(part, f) <=> v \in lo .. hi /\ (v - lo) % n = 0
    BY <1>1, <1>5, <1>8 DEF ParsePart, Bounds
  <2>2. Allows(part, f, v) <=> lo <= v /\ v <= hi /\ (v - lo) % n = 0
    BY <1>1, <1>6, <1>8 DEF Allows
  <2> QED
    BY <1>1, <1>3, <2>1, <2>2
<1>9. CASE part.base = "value" /\ part.step = Absent
  <2>1. v \in ParsePart(part, f) <=> v \in lo .. lo /\ (v - lo) % 1 = 0
    BY <1>1, <1>5, <1>6, <1>9 DEF ParsePart, Bounds
  <2>2. Allows(part, f, v) <=> v = lo
    BY <1>1, <1>9 DEF Allows
  <2> QED
    BY <1>1, <1>3, <1>4, <2>1, <2>2
<1>10. CASE part.base = "value" /\ part.step # Absent
  <2>1. v \in ParsePart(part, f) <=> v \in lo .. max /\ (v - lo) % n = 0
    BY <1>1, <1>5, <1>10 DEF ParsePart, Bounds
  <2>2. Allows(part, f, v) <=> lo <= v /\ (v - lo) % n = 0
    BY <1>1, <1>6, <1>10 DEF Allows
  <2> QED
    BY <1>1, <1>3, <2>1, <2>2
<1> QED
  BY <1>2, <1>7, <1>8, <1>9, <1>10

\* So has the set made of a field, Sunday's other name made Sunday.
LEMMA FieldIsFaithful ==
  ASSUME expr \in Exprs, Parses(expr), NEW f \in Fields,
         NEW v \in Ranges[f].min .. Ranges[f].max, f = "dow" => v # Ranges["dow"].max
  PROVE  v \in Sets(expr)[f] <=> Names(expr, f, v)
<1>1. \A w \in Ranges[f].min .. Ranges[f].max :
        w \in ParseField(expr[f], f) <=> \E part \in Range(expr[f]) : Allows(part, f, w)
  BY PartIsFaithful DEF ParseField
<1>2. CASE f # "dow"
  BY <1>1, <1>2 DEF Sets, Names
<1>3. CASE f = "dow"
  <2>1. /\ Ranges["dow"].max \in Ranges[f].min .. Ranges[f].max
        /\ Sunday \in Ranges[f].min .. Ranges[f].max /\ Sunday # Ranges["dow"].max
    BY <1>3, FieldAssumption DEF Fields, Sunday
  <2>2. Sets(expr)[f] = Normalized(ParseField(expr[f], f))
    BY <1>3 DEF Sets
  <2> QED
    BY <1>1, <1>3, <2>1, <2>2 DEF Normalized, Names
<1> QED
  BY <1>2, <1>3

\* The values of a date are in the ranges of the fields.
LEMMA DateType ==
  ASSUME NEW t \in Int, NEW f \in Fields
  PROVE  /\ DateOf(t)[f] \in Ranges[f].min .. Ranges[f].max
         /\ f = "dow" => DateOf(t)[f] # Ranges["dow"].max
<1>1. Wall(t) \in Int /\ HourLen \in Nat \ {0} /\ DayLen \in Nat \ {0}
  BY CronAssumption DEF Wall
<1>2. PICK w \in Int, hour \in Nat \ {0}, days \in Nat \ {0} :
        w = Wall(t) /\ hour = HourLen /\ days = DayLen
  BY <1>1
<1>3. w % hour \in 0 .. hour - 1 /\ (w \div hour) \in Int
  BY <1>2
<1>4. (w \div hour) % days \in 0 .. days - 1
  BY <1>2, <1>3
<1>5. hour * days \in Nat \ {0}
  BY <1>2
<1>6. w \div (hour * days) \in Int
  BY <1>2, <1>5
<1>7. PICK k \in Int : k = w \div (hour * days)
  BY <1>6
<1>8. (k % Len(Calendar)) + 1 \in 1 .. Len(Calendar)
  BY <1>7, FieldAssumption
<1>9. PICK n \in 1 .. Len(Calendar) :
        /\ DateOf(t).dom = Calendar[n].dom /\ DateOf(t).month = Calendar[n].month
        /\ DateOf(t).dow = Calendar[n].dow
  BY <1>2, <1>7, <1>8 DEF DateOf
<1>10. DateOf(t).minute \in 0 .. HourLen - 1 /\ DateOf(t).hour \in 0 .. DayLen - 1
  BY <1>2, <1>3, <1>4 DEF DateOf
<1>11. CASE f \in {"minute", "hour"}
  BY <1>10, <1>11, FieldAssumption
<1>12. CASE f \in {"dom", "month"}
  BY <1>9, <1>12, FieldAssumption
<1>13. CASE f = "dow"
  <2>1. Ranges["dow"].max \in Nat /\ Ranges["dow"].min \in Nat
    BY FieldAssumption DEF Fields
  <2>2. DateOf(t).dow \in Ranges["dow"].min .. Ranges["dow"].max - 1
    BY <1>9, FieldAssumption
  <2> QED
    BY <1>13, <2>1, <2>2
<1> QED
  BY <1>11, <1>12, <1>13 DEF Fields

\* The cursor is a minute and the expression one of those asked about.
ScanIsTyped == expr \in Exprs /\ cursor \in Int

LEMMA ScanType == Spec => []ScanIsTyped
<1>1. ASSUME NEW t \in Int PROVE MinuteAfter(t) \in Int
  <2>1. HourLen \in Int
    BY CronAssumption
  <2>2. Wall(t) \in Int
    BY <2>1 DEF Wall
  <2> QED
    BY <2>1, <2>2 DEF MinuteAfter, FromWall
<1>2. Init => ScanIsTyped
  BY <1>1, CronAssumption DEF Init, ScanIsTyped
<1>3. ScanIsTyped /\ [Next]_vars => ScanIsTyped'
  <2> SUFFICES ASSUME expr \in Exprs, cursor \in Int, [Next]_vars
               PROVE  expr' \in Exprs /\ cursor' \in Int
    BY DEF ScanIsTyped
  <2>1. expr' = expr /\ (cursor' = cursor \/ cursor' = MinuteAfter(cursor))
    BY DEF Next, Hit, Scan, vars
  <2> QED
    BY <1>1, <2>1
<1> QED
  BY <1>2, <1>3, PTL DEF Spec

\* The sets an expression is parsed into match a minute exactly when the syntax says so:
\* comma lists, steps from a single value, Sunday written either way, and the rule that
\* either of two restricted day fields will do (parseField, cronMatches).
THEOREM ParsingHolds == Spec => []ParsingIsFaithful
<1>1. ScanIsTyped => ParsingIsFaithful
  <2> SUFFICES ASSUME expr \in Exprs, cursor \in Int, Parses(expr)
               PROVE  Matches(expr, DateOf(cursor)) <=> Means(expr, DateOf(cursor))
    BY DEF ScanIsTyped, ParsingIsFaithful
  <2>1. \A f \in Fields : DateOf(cursor)[f] \in Sets(expr)[f]
                            <=> Names(expr, f, DateOf(cursor)[f])
    BY DateType, FieldIsFaithful
  <2> DEFINE d == DateOf(cursor)
  <2>2. /\ d.minute \in Sets(expr)["minute"] <=> Names(expr, "minute", d["minute"])
        /\ d.hour \in Sets(expr)["hour"] <=> Names(expr, "hour", d["hour"])
        /\ d.month \in Sets(expr)["month"] <=> Names(expr, "month", d["month"])
        /\ d.dom \in Sets(expr)["dom"] <=> Names(expr, "dom", d["dom"])
        /\ d.dow \in Sets(expr)["dow"] <=> Names(expr, "dow", d["dow"])
    BY <2>1 DEF Fields
  <2> HIDE DEF d
  <2>3. DayMatches(expr, d) <=>
          IF ~Restricted(expr["dom"])
            THEN ~Restricted(expr["dow"]) \/ Names(expr, "dow", d["dow"])
          ELSE IF ~Restricted(expr["dow"]) THEN Names(expr, "dom", d["dom"])
          ELSE Names(expr, "dom", d["dom"]) \/ Names(expr, "dow", d["dow"])
    BY <2>2 DEF DayMatches
  <2>4. Means(expr, d) <=>
          /\ \A f \in {"minute", "hour", "month"} : Names(expr, f, d[f])
          /\ IF ~Restricted(expr["dom"])
               THEN ~Restricted(expr["dow"]) \/ Names(expr, "dow", d["dow"])
             ELSE IF ~Restricted(expr["dow"]) THEN Names(expr, "dom", d["dom"])
             ELSE Names(expr, "dom", d["dom"]) \/ Names(expr, "dow", d["dow"])
    BY DEF Means, Restricted
  <2>5. Matches(expr, d) <=> Means(expr, d)
    BY <2>2, <2>3, <2>4 DEF Matches
  <2> QED
    BY <2>5 DEF d
<1> QED
  BY <1>1, ScanType, PTL
===============================================================================
