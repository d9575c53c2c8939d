----------------------------- MODULE CostWindow -----------------------------
(***************************************************************************)
(* The windows and steps that a request to the cost API may ask for:       *)
(* parseWindow and ParseWindow of costv2/types/window.go, ParseDuration of *)
(* costv2/util/timeutil.go.  What a window means depends on the clock and  *)
(* on the time zone of the process, so the clock runs here and requests    *)
(* come at all hours.                                                      *)
(*                                                                         *)
(* Instants and durations are integers in units of 1/Second seconds;       *)
(* instant 0 is midnight UTC of a Monday.  The time zone has whole minutes *)
(* and no summer time.  Texts are taken as the regular expressions and the *)
(* scanner cut them up.  Numbers beyond int64 are left out.                *)
(***************************************************************************)
EXTENDS Integers, Sequences, SequencesExt

CONSTANTS
  Second,   \* how many units a second has
  Word,     \* 2^64, in units: int64 is -Word/2 .. Word/2 - 1
  Zones,    \* the time zones the process may run in, as the time by which they are ahead
  Firsts,   \* the days on which a month begins, counted from instant 0
  Windows,  \* the window texts requests may have
  Texts,    \* the step texts requests may have
  Begin, Tick, Until, \* the clock is read at Begin and every Tick; bound: the last reading
  Nothing,  \* nothing was asked yet
  Refused   \* an error was returned

Minute == 60 * Second
Hour == 60 * Minute
Day == 24 * Hour
Week == 7 * Day

Unit == [m |-> Minute, h |-> Hour, d |-> Day, w |-> Week]

\* The units of a step.  A number of ms, us or ns is a fraction of a second, and the text "0" is
\* zero of any unit.
StepUnit == [s |-> Second, m |-> Minute, h |-> Hour, d |-> Day, w |-> Week]

ASSUME WindowAssumption ==
  /\ Second \in Nat \ {0}
  /\ Word \in Nat \ {0} /\ Word % 2 = 0 /\ Week < Word \div 2
  /\ Begin \in Int /\ Tick \in Nat \ {0} /\ Until \in Nat
  /\ \A z \in Zones : z \in -Day..Day /\ z % Minute = 0

\* When the clock starts, this month and the last one have begun, wherever it is.
ASSUME CalendarAssumption ==
  /\ Firsts \subseteq Int
  /\ \E f, g \in Firsts : g < f /\ f <= (Begin - Day) \div Day

\* What the regular expressions and the scanner let pass.
ASSUME TextAssumption ==
  /\ \A w \in Windows :
       /\ w.kind \in {"today", "yesterday", "week", "lastweek", "month", "lastmonth",
                      "past", "pastBefore", "between", "illegal"}
       /\ w.kind \in {"past", "pastBefore"} => w.num \in Nat /\ w.unit \in DOMAIN Unit
       /\ w.kind = "pastBefore" => w.num2 \in Nat /\ w.unit2 \in DOMAIN Unit
       /\ w.kind = "between" => w.num \in Int /\ w.num2 \in Int
  /\ \A x \in Texts :
       /\ x.negative \in BOOLEAN
       /\ x.terms \in Seq([num : Nat, unit : DOMAIN StepUnit, part : Nat])
       /\ \A i \in DOMAIN x.terms : x.terms[i].part <= StepUnit[x.terms[i].unit]
  /\ Windows \cap Texts = {}

VARIABLES
  now,    \* the clock
  zone,   \* the time zone
  answer  \* the last text that was parsed, when, and what it was parsed to

windowVars == <<now, zone, answer>>

-----------------------------------------------------------------------------

\* time.Time: Truncate, the clock's hour and minute, the weekday (0 is Sunday), the day of the
\* month.
Truncate(t, d) == t - (t % d)
MinuteOfDay(t) == (t % Day) \div Minute
LocalDay(t) == (t + zone) \div Day
Weekday(t) == (LocalDay(t) + 1) % 7
DayOfMonth(t) == LocalDay(t) - Max({f \in Firsts : f <= LocalDay(t)}) + 1

\* int64 arithmetic.
MaxInt == Word \div 2 - 1
Wrap(x) == ((x + Word \div 2) % Word) - Word \div 2

\* What the hour of UTC's clock is less that of the local clock.
HourOffset(t) == (MinuteOfDay(t) \div 60 - MinuteOfDay(t + zone) \div 60) * Hour

\* Mutant: the minutes of the time zone are forgotten.
Offset_Hours(t) == HourOffset(t)

\* What UTC's clock shows less what the local clock shows, across midnight too.
Offset(t) == (MinuteOfDay(t) - MinuteOfDay(t + zone)) * Minute

Midnight == Truncate(now, Day) + Offset(now)

\* Mutant: the days to take off are those of the UTC date.
FirstOfMonth_UtcDay(t) == t - Day * (now \div Day - Max({f \in Firsts : f <= now \div Day}))

\* From local midnight back to Monday, and to the first of the month.
Monday(t) == t - Day * ((Weekday(t) + 6) % 7)
FirstOfMonth(t) == t - Day * (DayOfMonth(t) - 1)

Span(from, to) == [start |-> from, end |-> to]

Named ==
  LET monday == Monday(Midnight)
      first == FirstOfMonth(Midnight)
  IN  [today |-> Span(Midnight, now),
       yesterday |-> Span(Midnight - Day, Midnight),
       week |-> Span(monday, now),
       lastweek |-> Span(monday - Week, monday),
       month |-> Span(first, now),
       lastmonth |-> Span(FirstOfMonth(first - Day), first)]

\* An offset in weeks is counted in units of 24 weeks.
OffsetUnit == [Unit EXCEPT !.w = 24 * Week]

\* Mutant: the start is rounded down.
NextMidnight_Down(t) == Truncate(t, Day) + Offset(now)

NextMidnight(t) == Truncate(t, Day) + Day + Offset(now)

\* "45m", "7d": a window of days or weeks starts at the next midnight, and ends now.
Past(w) ==
  LET start == now + Wrap(-w.num * Unit[w.unit])
  IN  Span(IF w.unit \in {"d", "w"} THEN NextMidnight(start) ELSE start, now)

\* "45m offset 15m".
PastBefore(w) ==
  LET end == now + Wrap(-w.num2 * OffsetUnit[w.unit2])
  IN  Span(end + Wrap(-w.num * Unit[w.unit]), end)

\* Two timestamps, or two RFC 3339 times.
Between(w) == Span(w.num * Second, w.num2 * Second)

ParseAt(w) ==
  CASE w.kind \in DOMAIN Named -> Named[w.kind]
    [] w.kind = "past" -> Past(w)
    [] w.kind = "pastBefore" -> PastBefore(w)
    [] w.kind = "between" -> Between(w)

\* ParseWindow: both ends are truncated to seconds.
Parsed(w) == Span(Truncate(ParseAt(w).start, Second), Truncate(ParseAt(w).end, Second))

-----------------------------------------------------------------------------

\* One "1.5h" of a step: the digits before the point in units, and what the fraction adds.
\* Either may overflow, and then the text is refused.
Term(t) ==
  LET d == t.num * StepUnit[t.unit] + t.part
  IN  IF t.num > MaxInt \div StepUnit[t.unit] \/ Wrap(d) < 0 THEN Refused ELSE d

\* Mutant: the sum is not looked at.
Plus_Unchecked(d, t) ==
  IF d = Refused \/ Term(t) = Refused THEN Refused ELSE Wrap(d + Term(t))

Plus(d, t) ==
  IF d = Refused \/ Term(t) = Refused \/ Wrap(d + Term(t)) < 0
    THEN Refused ELSE Wrap(d + Term(t))

\* goParseDuration: terms after an optional sign; a text without terms is refused.
ParseDuration(x) ==
  LET d == FoldLeft(Plus, 0, x.terms)
  IN  IF x.terms = << >> \/ d = Refused THEN Refused ELSE IF x.negative THEN -d ELSE d

-----------------------------------------------------------------------------

WindowInit ==
  /\ now = Begin
  /\ zone \in Zones
  /\ answer = Nothing

\* Bound: an answer is remembered until the next reading of the clock and not beyond.
Pass ==
  /\ now + Tick <= Until
  /\ now' = now + Tick
  /\ answer' = IF answer # Nothing /\ answer.at = now THEN answer ELSE Nothing
  /\ UNCHANGED zone

Answer(text, result) ==
  /\ answer' = [text |-> text, at |-> now, result |-> result]
  /\ UNCHANGED <<now, zone>>

ParseWindow(w) == Answer(w, IF w.kind = "illegal" THEN Refused ELSE Parsed(w))
ParseStep(x) == Answer(x, ParseDuration(x))

WindowNext ==
  \/ Pass
  \/ \E w \in Windows : ParseWindow(w)
  \/ \E x \in Texts : ParseStep(x)

-----------------------------------------------------------------------------

Answered == answer # Nothing /\ answer.result # Refused
IsWindow == Answered /\ answer.text \in Windows

AtMidnight(t) == (t + zone) % Day = 0
IsMonday(t) == AtMidnight(t) /\ LocalDay(t) % 7 = 0
IsFirst(t) == AtMidnight(t) /\ LocalDay(t) \in Firsts
NoFirstBetween(t, u) == \A f \in Firsts : ~(LocalDay(t) < f /\ f <= LocalDay(u))

\* A window that has a name is the local day, week or month of that name: it begins and ends
\* at local midnight of the right day, whatever the hour, and although days are cut off in
\* UTC and shifted by a difference of two clocks that may show different dates
\* (window.go:165-251).
NamedIsLocal ==
  IsWindow =>
    LET t == answer.at
        s == answer.result.start
        e == answer.result.end
        kind == answer.text.kind
    IN  /\ kind = "today" => AtMidnight(s) /\ LocalDay(s) = LocalDay(t)
        /\ kind = "yesterday" => AtMidnight(s) /\ e = s + Day /\ LocalDay(e) = LocalDay(t)
        /\ kind = "week" => IsMonday(s) /\ s <= t /\ t < s + Week
        /\ kind = "lastweek" => IsMonday(s) /\ e = s + Week /\ e <= t /\ t < e + Week
        /\ kind = "month" => IsFirst(s) /\ s <= t /\ NoFirstBetween(s, t)
        /\ kind = "lastmonth" => /\ IsFirst(s) /\ IsFirst(e) /\ s < e /\ e <= t
                                /\ NoFirstBetween(s, e - Day) /\ NoFirstBetween(e, t)

\* Do the numbers of the window's text fit in int64, times their units?
Fits(w) ==
  /\ w.kind \in {"past", "pastBefore"} => w.num * Unit[w.unit] <= MaxInt
  /\ w.kind = "pastBefore" => w.num2 * OffsetUnit[w.unit2] <= MaxInt

\* What the code makes of "the past X days": today up to now and the X - 1 local days before
\* it, each of them from local midnight (window.go:277-281); so are weeks of seven days.  The
\* comment at window.go:272-275 says otherwise: whole days of UTC, today's included, and both
\* ends rounded forward; the line that rounds the end is commented out, and the offset of the
\* zone is added to the start.  Numbers whose product with the unit does not fit in int64 are
\* not checked by the code and excepted.
PastDaysAreLocal ==
  IsWindow /\ answer.text.kind = "past" /\ answer.text.unit \in {"d", "w"} =>
    LET length == answer.text.num * Unit[answer.text.unit]
        s == answer.result.start
        e == answer.result.end
    IN  length > 0 /\ Fits(answer.text) =>
          /\ AtMidnight(s)
          /\ (LocalDay(e) - LocalDay(s) + 1) * Day = length
          /\ e <= answer.at /\ answer.at < e + Second

\* Who asks for the same window later is not shown an earlier one: neither end goes back.
NeverEarlier ==
  [][IsWindow /\ IsWindow' /\ answer'.text = answer.text /\ Fits(answer.text)
       => /\ answer'.result.start >= answer.result.start
          /\ answer'.result.end >= answer.result.end]_windowVars

\* A step that is accepted is the sum of its terms, never a sum that overflowed
\* (timeutil.go:196-214).
StepIsExact ==
  Answered /\ ~IsWindow =>
    LET Add(d, t) == d + t.num * StepUnit[t.unit] + t.part
        sum == FoldLeft(Add, 0, answer.text.terms)
    IN  answer.result = IF answer.text.negative THEN -sum ELSE sum
=============================================================================
