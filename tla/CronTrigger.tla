----------------------------- MODULE CronTrigger -----------------------------
(***************************************************************************)
(* django_ox's cron expressions: what a field allows, which expressions    *)
(* are refused because no date matches, and the walk of following() and    *)
(* previous() from a clock reading to the tick next to it.  The calendar   *)
(* is the real one; hours and minutes are as many as the constants say.    *)
(***************************************************************************)
EXTENDS Integers, Sequences, FiniteSets

CONSTANTS
  Fields,        \* per field of an expression, the texts it may be
  Readings,      \* the clock readings asked about
  LastHour, LastMinute,
  SEARCH_DAYS

VARIABLES
  expression, from, direction,   \* the call
  cur,                           \* where its walk is
  ended                          \* it has its answer

walk == <<expression, from, direction, cur, ended>>

TypeOK ==
  /\ DOMAIN expression = DOMAIN Fields /\ \A f \in DOMAIN Fields : expression[f] \in Fields[f]
  /\ from \in Readings /\ direction \in {"previous", "following"}
  /\ cur \in [y : Nat, m : 1 .. 12, d : 1 .. 31, hh : 0 .. LastHour, mm : 0 .. LastMinute]
  /\ ended \in BOOLEAN
-----------------------------------------------------------------------------
(* The calendar, as datetime has it.                                       *)

IsLeap(y) == y % 4 = 0 /\ (y % 100 # 0 \/ y % 400 = 0)

MAX_DAYS == <<31, 29, 31, 30, 31, 30, 31, 31, 30, 31, 30, 31>>
DaysIn(y, m) == IF m = 2 /\ ~IsLeap(y) THEN 28 ELSE MAX_DAYS[m]

DaysBefore(y, m) ==
  365 * (y - 1) + (y - 1) \div 4 - (y - 1) \div 100 + (y - 1) \div 400
  + <<0, 31, 59, 90, 120, 151, 181, 212, 243, 273, 304, 334>>[m]
  + (IF m > 2 /\ IsLeap(y) THEN 1 ELSE 0)
Ordinal(dt) == DaysBefore(dt.y, dt.m) + dt.d

Instant(dt) == (Ordinal(dt) * (LastHour + 1) + dt.hh) * (LastMinute + 1) + dt.mm

At(y, m, d, hh, mm) == [y |-> y, m |-> m, d |-> d, hh |-> hh, mm |-> mm]

MonthBefore(y, m) == IF m = 1 THEN <<y - 1, 12>> ELSE <<y, m - 1>>
MonthAfter(y, m) == IF m = 12 THEN <<y + 1, 1>> ELSE <<y, m + 1>>

EndOfMonth(ym) == At(ym[1], ym[2], DaysIn(ym[1], ym[2]), LastHour, LastMinute)
StartOfMonth(ym) == At(ym[1], ym[2], 1, 0, 0)

\* The last minute of the day before, and the first of the day after.
DayBefore(dt) ==
  IF dt.d > 1 THEN At(dt.y, dt.m, dt.d - 1, LastHour, LastMinute)
  ELSE EndOfMonth(MonthBefore(dt.y, dt.m))
DayAfter(dt) ==
  IF dt.d < DaysIn(dt.y, dt.m) THEN At(dt.y, dt.m, dt.d + 1, 0, 0)
  ELSE StartOfMonth(MonthAfter(dt.y, dt.m))

HourBefore(dt) == IF dt.hh > 0 THEN [dt EXCEPT !.hh = @ - 1, !.mm = LastMinute] ELSE DayBefore(dt)
HourAfter(dt) == IF dt.hh < LastHour THEN [dt EXCEPT !.hh = @ + 1, !.mm = 0] ELSE DayAfter(dt)
MinuteAfter(dt) == IF dt.mm < LastMinute THEN [dt EXCEPT !.mm = @ + 1] ELSE HourAfter(dt)
-----------------------------------------------------------------------------
(* An expression.                                                          *)

\* A field is "*" alone, here {}, or its parts: a body, which is "*", a value or a
\* range, here the sequence of its ends, and a step, 0 if it has none.
Low == [minute |-> 0, hour |-> 0, dom |-> 1, month |-> 1, dow |-> 0]
High == [minute |-> LastMinute, hour |-> LastHour, dom |-> 31, month |-> 12, dow |-> 7]

\* A value with a step goes up to the field's end.
First(part, f) == IF part.body = <<>> THEN Low[f] ELSE part.body[1]
Last(part, f) ==
  CASE part.body = <<>> \/ (Len(part.body) = 1 /\ part.step > 0) -> High[f]
    [] Len(part.body) = 1 /\ part.step = 0 -> part.body[1]
    [] Len(part.body) = 2 -> part.body[2]

Values(field, f) ==
  IF field = {} THEN Low[f] .. High[f]
  ELSE UNION {{v \in First(p, f) .. Last(p, f) :
                 p.step > 0 => (v - First(p, f)) % p.step = 0} : p \in field}

Restricted(e, f) == e[f] # {}

\* 0 and 7 both mean Sunday.
DaysOfWeek(e) == {v % 7 : v \in Values(e.dow, "dow")}

\* With the day of the week restricted, any date can be reached.
Satisfiable(e) ==
  Restricted(e, "dom") /\ ~Restricted(e, "dow") =>
    \E m \in Values(e.month, "month"), d \in Values(e.dom, "dom") : d <= MAX_DAYS[m]

Accepted(e) ==
  /\ \A f \in DOMAIN e : \A p \in e[f] :
       /\ p.step <= High[f] - Low[f] + 1
       /\ \A i \in DOMAIN p.body : p.body[i] \in Low[f] .. High[f]
       /\ First(p, f) <= Last(p, f)
  /\ Satisfiable(e)

\* Of two restricted day fields either is enough.
DayMatches(e, dt) ==
  LET dom == dt.d \in Values(e.dom, "dom")
      dow == Ordinal(dt) % 7 \in DaysOfWeek(e)
  IN  IF Restricted(e, "dom") /\ Restricted(e, "dow") THEN dom \/ dow ELSE dom /\ dow

Matches(e, dt) ==
  /\ dt.mm \in Values(e.minute, "minute") /\ dt.hh \in Values(e.hour, "hour")
  /\ dt.m \in Values(e.month, "month") /\ DayMatches(e, dt)
-----------------------------------------------------------------------------
(* The walk.  Every step leaves for the nearest instant that could mend     *)
(* what does not match.                                                     *)

Init ==
  /\ expression \in {e \in [DOMAIN Low -> UNION {Fields[f] : f \in DOMAIN Fields}] :
                       (\A f \in DOMAIN e : e[f] \in Fields[f]) /\ Accepted(e)}
  /\ from \in Readings
  /\ direction \in {"previous", "following"}
  /\ cur = IF direction = "previous" THEN from ELSE MinuteAfter(from)
  /\ ended = FALSE

Back == direction = "previous"

\* Past it the walk stops, and the call raises.
WithinBound ==
  LET start == IF Back THEN from ELSE MinuteAfter(from)
      day == (LastHour + 1) * (LastMinute + 1)
  IN  IF Back THEN Instant(cur) > Instant(start) - SEARCH_DAYS * day
      ELSE Instant(cur) < Instant(start) + SEARCH_DAYS * day

Walks(next) ==
  /\ ~ended /\ WithinBound
  /\ cur' = next
  /\ UNCHANGED <<expression, from, direction, ended>>

InMonth == cur.m \in Values(expression.month, "month")
InDay == InMonth /\ DayMatches(expression, cur)
InHour == InDay /\ cur.hh \in Values(expression.hour, "hour")

MonthMisses ==
  /\ ~InMonth
  /\ Walks(IF Back THEN EndOfMonth(MonthBefore(cur.y, cur.m))
           ELSE StartOfMonth(MonthAfter(cur.y, cur.m)))

DayMisses ==
  /\ InMonth /\ ~DayMatches(expression, cur)
  /\ Walks(IF Back THEN DayBefore(cur) ELSE DayAfter(cur))

Nearest(vs) == IF Back THEN CHOOSE v \in vs : \A w \in vs : w <= v
               ELSE CHOOSE v \in vs : \A w \in vs : v <= w

\* Those of the values that are still ahead.
Ahead(vs, v) == {w \in vs : IF Back THEN w < v ELSE w > v}

\* The hour that could match, from its end when walking back.
\* Fault: from the minute there was.
AtHour_SameMinute(hours) == [cur EXCEPT !.hh = Nearest(hours)]

AtHour(hours) == [cur EXCEPT !.hh = Nearest(hours), !.mm = IF Back THEN LastMinute ELSE 0]

HourMisses ==
  LET hours == Ahead(Values(expression.hour, "hour"), cur.hh)
  IN  /\ InDay /\ cur.hh \notin Values(expression.hour, "hour")
      /\ Walks(IF hours # {} THEN AtHour(hours)
               ELSE IF Back THEN DayBefore(cur) ELSE DayAfter(cur))

MinuteMisses ==
  LET minutes == Ahead(Values(expression.minute, "minute"), cur.mm)
  IN  /\ InHour /\ cur.mm \notin Values(expression.minute, "minute")
      /\ Walks(IF minutes # {} THEN [cur EXCEPT !.mm = Nearest(minutes)]
               ELSE IF Back THEN HourBefore(cur) ELSE HourAfter(cur))

Finds ==
  /\ ~ended /\ WithinBound
  /\ InHour /\ cur.mm \in Values(expression.minute, "minute")
  /\ ended' = TRUE
  /\ UNCHANGED <<expression, from, direction, cur>>

Next == MonthMisses \/ DayMisses \/ HourMisses \/ MinuteMisses \/ Finds

Spec == Init /\ [][Next]_walk
-----------------------------------------------------------------------------
\* What a step leaves behind, up to where it goes: no tick is among it.
Left ==
  LET months == {<<cur.y, cur.m>>, <<cur'.y, cur'.m>>}
      edge(dt) == IF Back THEN Instant(cur') < Instant(dt) /\ Instant(dt) <= Instant(cur)
                  ELSE Instant(cur) <= Instant(dt) /\ Instant(dt) < Instant(cur')
      days == {At(ym[1], ym[2], d, hh, mm) :
                 ym \in months, d \in 1 .. 31, hh \in 0 .. LastHour, mm \in 0 .. LastMinute}
  IN  {dt \in days : dt.d <= DaysIn(dt.y, dt.m) /\ edge(dt)}

\* A walk goes one way, past no tick, and ends at one; and it ends, for an expression
\* that was accepted, before its bound (CronExpression.previous, following).
WalksPastNoTick ==
  /\ ended' => Matches(expression, cur)
  /\ ~ended' => WithinBound'
  /\ cur' # cur => /\ IF Back THEN Instant(cur') < Instant(cur) ELSE Instant(cur) < Instant(cur')
                   /\ \A dt \in Left : ~Matches(expression, dt)

WalksFindTheTick == [][WalksPastNoTick]_walk
=============================================================================
