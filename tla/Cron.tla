-------------------------------- MODULE Cron --------------------------------
(***************************************************************************)
(* The cron matcher: how a five-field expression is parsed into sets, which  *)
(* minutes they match, and `cronNextAfter`, the scan for the next of them.  *)
(*                                                                          *)
(* Time is counted in minutes.  The calendar, the lengths of hours and days *)
(* and the ranges of the fields are parameters, and so is the local time    *)
(* zone: at the minute Fallback its clocks go back by one hour.             *)
(***************************************************************************)
EXTENDS Integers, Sequences, FiniteSets, Functions

CONSTANTS
  Exprs,     \* expressions: records of five fields, each a sequence of parts
  Froms,     \* the minutes cronNextAfter is asked from
  HourLen,   \* minutes in an hour
  DayLen,    \* hours in a day
  Calendar,  \* the days, repeated for ever: month, day of month, day of week
  Ranges,    \* the least and greatest value of every field
  MaxScan,   \* MAX_SCAN_MINUTES, the minutes of the longest year
  Fallback,  \* when the clocks go back
  Absent     \* a part without a step; a zone whose clocks never change

Fields == {"minute", "hour", "dom", "month", "dow"}
Sunday == 0

ASSUME CronAssumption ==
  /\ HourLen \in Nat \ {0} /\ DayLen \in Nat \ {0} /\ MaxScan \in Nat \ {0}
  /\ Froms \subseteq Nat
  /\ Calendar # <<>>
  /\ \A e \in Exprs : DOMAIN e = Fields
  /\ Absent \notin Nat

\* The values of a date are in the ranges of the fields, and the greatest day of the
\* week is no day's: it is Sunday's other name.  An expression has been split into parts.
ASSUME FieldAssumption ==
  /\ \A f \in Fields : Ranges[f].min \in Nat /\ Ranges[f].max \in Nat
  /\ Ranges["minute"].min = 0 /\ Ranges["minute"].max = HourLen - 1
  /\ Ranges["hour"].min = 0 /\ Ranges["hour"].max = DayLen - 1
  /\ Ranges["dow"].min = Sunday /\ Ranges["dow"].max # Sunday
  /\ Len(Calendar) \in Nat \ {0}
  /\ \A n \in 1 .. Len(Calendar) :
       /\ Calendar[n].dom \in Ranges["dom"].min .. Ranges["dom"].max
       /\ Calendar[n].month \in Ranges["month"].min .. Ranges["month"].max
       /\ Calendar[n].dow \in Ranges["dow"].min .. Ranges["dow"].max - 1
  /\ \A e \in Exprs : \A f \in Fields : \A part \in Range(e[f]) :
       /\ part.base \in {"star", "value", "range"}
       /\ part.lo \in Nat /\ part.hi \in Nat /\ part.step \in Nat \cup {Absent}

VARIABLES
  expr,    \* the expression
  from,    \* the minute it is asked from
  cursor,  \* the minute under scrutiny
  i,       \* minutes scanned so far
  outcome  \* scanning, found or thrown

vars == <<expr, from, cursor, i, outcome>>

-----------------------------------------------------------------------------
(* Dates, as `Date` does them: the external part of the module. *)

GoesBack(t) == Fallback # Absent /\ t >= Fallback

\* What a clock on the wall shows at t, and the first time it shows w.
Wall(t) == IF GoesBack(t) THEN t - HourLen ELSE t

FromWall(w) == IF GoesBack(w) THEN w + HourLen ELSE w

DateOf(t) ==
  LET w == Wall(t)
      day == Calendar[((w \div (HourLen * DayLen)) % Len(Calendar)) + 1]
  IN  [minute |-> w % HourLen, hour |-> (w \div HourLen) % DayLen,
       dom |-> day.dom, month |-> day.month, dow |-> day.dow]

-----------------------------------------------------------------------------
(* Parsing.  A part is [base, lo, hi, step]: "star", a single "value" lo, or a
   "range" lo..hi, with the step after a slash or Absent. *)

StepOf(part) == IF part.step = Absent THEN 1 ELSE part.step

\* The interval a part scans; a single value with a step scans to the field's end.
Bounds(part, field) ==
  CASE part.base = "star"  -> Ranges[field]
    [] part.base = "range" -> [min |-> part.lo, max |-> part.hi]
    [] OTHER -> [min |-> part.lo,
                 max |-> IF part.step = Absent THEN part.lo ELSE Ranges[field].max]

\* A part that parseField does not throw on.
Valid(part, field) ==
  LET b == Bounds(part, field)
  IN  /\ StepOf(part) >= 1
      /\ Ranges[field].min <= b.min /\ b.min <= b.max /\ b.max <= Ranges[field].max

ParsePart(part, field) ==
  LET b == Bounds(part, field)
  IN  {v \in b.min .. b.max : (v - b.min) % StepOf(part) = 0}

ParseField(parts, field) == UNION {ParsePart(part, field) : part \in Range(parts)}

\* The greatest day of the week is Sunday once more.
Normalized(days) ==
  LET alias == Ranges["dow"].max
  IN  IF alias \in days THEN (days \ {alias}) \cup {Sunday} ELSE days

\* A field is restricted unless it is written as the one character *: `*,*` is.
Restricted(parts) ==
  ~(Len(parts) = 1 /\ parts[1].base = "star" /\ parts[1].step = Absent)

Parses(e) == \A f \in Fields : \A part \in Range(e[f]) : Valid(part, f)

Sets(e) ==
  [f \in Fields |-> IF f = "dow" THEN Normalized(ParseField(e[f], f))
                    ELSE ParseField(e[f], f)]

\* Mutant: days of the month and of the week must both match.
DayMatchesBoth(e, d) == d.dom \in Sets(e)["dom"] /\ d.dow \in Sets(e)["dow"]

\* When both day fields are restricted either may match, else the restricted one must.
DayMatches(e, d) ==
  LET domOk == d.dom \in Sets(e)["dom"]
      dowOk == d.dow \in Sets(e)["dow"]
  IN  IF Restricted(e.dom) /\ Restricted(e.dow) THEN domOk \/ dowOk
      ELSE (Restricted(e.dom) => domOk) /\ (Restricted(e.dow) => dowOk)

Matches(e, d) ==
  /\ d.minute \in Sets(e)["minute"]
  /\ d.hour \in Sets(e)["hour"]
  /\ d.month \in Sets(e)["month"]
  /\ DayMatches(e, d)

-----------------------------------------------------------------------------
\* Mutant: two minutes at a time.
MinuteAfterNext(t) == FromWall(Wall(t) + 2)

\* setMinutes(getMinutes() + 1): one minute later on the wall, then its first time.
MinuteAfter(t) == FromWall(Wall(t) + 1)

Init ==
  /\ expr \in Exprs
  /\ from \in Froms
  /\ cursor = MinuteAfter(from)
  /\ i = 0
  /\ outcome = IF Parses(expr) THEN "scanning" ELSE "thrown"

Hit ==
  /\ outcome = "scanning"
  /\ Matches(expr, DateOf(cursor))
  /\ outcome' = "found"
  /\ UNCHANGED <<expr, from, cursor, i>>

Scan ==
  /\ outcome = "scanning"
  /\ ~Matches(expr, DateOf(cursor))
  /\ cursor' = MinuteAfter(cursor)
  /\ i' = i + 1
  /\ outcome' = IF i' < MaxScan THEN "scanning" ELSE "thrown"
  /\ UNCHANGED <<expr, from>>

Next == Hit \/ Scan

Spec == Init /\ [][Next]_vars

-----------------------------------------------------------------------------
\* The meaning of an expression, part by part and value by value, as the header of
\* the source gives the syntax: no sets, no normalised days.
Allows(part, field, v) ==
  LET n == IF part.step = Absent THEN 1 ELSE part.step
  IN  CASE part.base = "star"  -> (v - Ranges[field].min) % n = 0
        [] part.base = "range" -> part.lo <= v /\ v <= part.hi /\ (v - part.lo) % n = 0
        [] OTHER -> IF part.step = Absent THEN v = part.lo
                    ELSE part.lo <= v /\ (v - part.lo) % n = 0

Names(e, f, v) ==
  \/ \E part \in Range(e[f]) : Allows(part, f, v)
  \/ f = "dow" /\ v = Sunday /\ \E part \in Range(e[f]) : Allows(part, f, Ranges["dow"].max)

Means(e, d) ==
  LET free(f) == Len(e[f]) = 1 /\ e[f][1].base = "star" /\ e[f][1].step = Absent
  IN  /\ \A f \in {"minute", "hour", "month"} : Names(e, f, d[f])
      /\ IF free("dom") THEN free("dow") \/ Names(e, "dow", d.dow)
         ELSE IF free("dow") THEN Names(e, "dom", d.dom)
         ELSE Names(e, "dom", d.dom) \/ Names(e, "dow", d.dow)

\* The minute the scan looks at is matched by the parsed sets exactly when the syntax
\* says so: comma lists, steps from a single value, Sunday written either way, and
\* the rule that either of two restricted day fields will do.
ParsingIsFaithful ==
  Parses(expr) => (Matches(expr, DateOf(cursor)) <=> Means(expr, DateOf(cursor)))

\* The minute found is the first match after the one asked from; a throw means the
\* expression is malformed or matches nothing for a longest year.
NextIsFirst ==
  /\ outcome = "found" =>
       /\ Matches(expr, DateOf(cursor))
       /\ \A t \in from + 1 .. cursor - 1 : ~Matches(expr, DateOf(t))
  /\ outcome = "thrown" /\ Parses(expr) =>
       \A t \in from + 1 .. from + MaxScan : ~Matches(expr, DateOf(t))

\* "Strictly after": the minute found is later than the minute asked from
\* (cron.ts:135), where the clocks do not change.
StrictlyAfter == outcome = "found" => cursor > from

\* What makes NextIsFirst inductive, in a zone whose clocks never change: the scan has
\* looked at every minute up to the cursor.
ScanInv ==
  /\ from \in Nat /\ i \in Nat
  /\ outcome \in {"scanning", "found", "thrown"}
  /\ cursor = from + 1 + i
  /\ \A t \in from + 1 .. cursor - 1 : ~Matches(expr, DateOf(t))
  /\ outcome = "scanning" => i < MaxScan
  /\ outcome = "found" => Matches(expr, DateOf(cursor))
  /\ outcome = "thrown" /\ Parses(expr) => i = MaxScan
=============================================================================
