-------------------------- MODULE CostQueryProofs --------------------------
(***************************************************************************)
(* Proofs about CostQuery and the windows of CostWindow it is made for: for *)
(* any clock, any time zone within a day of UTC, any calendar, any width of *)
(* a duration and any windows, steps and filters that requests may give.   *)
(***************************************************************************)
EXTENDS CostQuery, SequenceTheorems, WellFoundedInduction, TLAPS

\* Division with remainder.
LEMMA DivMod ==
  ASSUME NEW a \in Int, NEW b \in Nat \ {0}
  PROVE  /\ a \div b \in Int /\ a % b \in Int
         /\ a = b * (a \div b) + (a % b)
         /\ 0 <= a % b /\ a % b < b
OBVIOUS

\* Quotient and remainder are the only numbers of their kind.
LEMMA Quotient ==
  ASSUME NEW a \in Int, NEW b \in Nat \ {0}, NEW q \in Int, b * q <= a, a < b * q + b
  PROVE  a \div b = q /\ a % b = a - b * q
<1> DEFINE p == a \div b
<1>1. /\ p \in Int /\ b * p <= a /\ a < b * p + b
      /\ a % b = a - b * p
  BY DivMod
<1> HIDE DEF p
<1>2. ~(p <= q - 1)
  <2> SUFFICES ASSUME p <= q - 1 PROVE FALSE
    OBVIOUS
  <2>1. b * p <= b * (q - 1)
    BY <1>1
  <2>2. QED
    BY <1>1, <2>1
<1>3. ~(p >= q + 1)
  <2> SUFFICES ASSUME p >= q + 1 PROVE FALSE
    OBVIOUS
  <2>1. b * p >= b * (q + 1)
    BY <1>1
  <2>2. QED
    BY <1>1, <2>1
<1>4. p = q
  BY <1>1, <1>2, <1>3
<1>5. QED
  BY <1>1, <1>4 DEF p

\* A multiple of the divisor passes through both.
LEMMA Shift ==
  ASSUME NEW a \in Int, NEW b \in Nat \ {0}, NEW k \in Int
  PROVE  (a + b * k) \div b = a \div b + k /\ (a + b * k) % b = a % b
<1> DEFINE q == a \div b
<1>1. q \in Int /\ b * q <= a /\ a < b * q + b /\ a % b = a - b * q
  BY DivMod
<1> HIDE DEF q
<1>2. /\ b * (q + k) <= a + b * k /\ a + b * k < b * (q + k) + b
      /\ (a + b * k) - b * (q + k) = a - b * q /\ q + k \in Int /\ a + b * k \in Int
  BY <1>1
<1>3. (a + b * k) \div b = q + k /\ (a + b * k) % b = (a + b * k) - b * (q + k)
  BY <1>2, Quotient
<1>4. QED
  BY <1>1, <1>2, <1>3 DEF q

\* A larger number has no smaller quotient.
LEMMA DivOrder ==
  ASSUME NEW a \in Int, NEW c \in Int, NEW b \in Nat \ {0}, a <= c
  PROVE  a \div b <= c \div b
<1> DEFINE p == a \div b
           q == c \div b
<1>1. p \in Int /\ q \in Int /\ b * p <= a /\ c < b * q + b
  BY DivMod
<1> HIDE DEF p, q
<1>2. ~(p >= q + 1)
  <2> SUFFICES ASSUME p >= q + 1 PROVE FALSE
    OBVIOUS
  <2>1. b * p >= b * (q + 1)
    BY <1>1
  <2>2. QED
    BY <1>1, <2>1
<1>3. QED
  BY <1>1, <1>2 DEF p, q

\* The units of time are multiples of each other.
LEMMA Positive ==
  /\ Second \in Nat \ {0} /\ Minute \in Nat \ {0} /\ Hour \in Nat \ {0}
  /\ Day \in Nat \ {0} /\ Week \in Nat \ {0}
BY WindowAssumption DEF Minute, Hour, Day, Week

LEMMA Units ==
  /\ Second \in Nat \ {0} /\ Minute \in Nat \ {0} /\ Hour \in Nat \ {0}
  /\ Day \in Nat \ {0} /\ Week \in Nat \ {0}
  /\ Minute = 60 * Second /\ Hour = 60 * Minute /\ Day = 24 * Hour /\ Week = 7 * Day
  /\ Day = 1440 * Minute
BY WindowAssumption DEF Minute, Hour, Day, Week

\* A time zone has whole minutes and is less than a day or just a day off.
LEMMA ZoneMinutes ==
  ASSUME NEW z \in Zones
  PROVE  /\ z \in Int /\ -Day <= z /\ z <= Day
         /\ \E c \in Int : z = Minute * c
<1>1. z \in -Day..Day /\ z % Minute = 0
  BY WindowAssumption
<1>2. z \in Int /\ -Day <= z /\ z <= Day
  BY <1>1, Units
<1>3. z \div Minute \in Int /\ z = Minute * (z \div Minute) + (z % Minute)
  BY <1>2, Positive, DivMod
<1>4. z = Minute * (z \div Minute)
  BY <1>1, <1>2, <1>3, Units
<1>5. QED
  BY <1>2, <1>3, <1>4

-----------------------------------------------------------------------------

\* The instant at which local day k begins.
At(k) == Day * k - zone

LEMMA DayStart ==
  ASSUME zone \in Zones, NEW k \in Int
  PROVE  At(k) \in Int /\ LocalDay(At(k)) = k /\ AtMidnight(At(k))
<1>1. zone \in Int
  BY ZoneMinutes
<1>2. Day * k \in Int /\ Day * k <= Day * k /\ Day * k < Day * k + Day
  BY Units
<1>3. (Day * k) \div Day = k /\ (Day * k) % Day = 0
  BY <1>2, Positive, Quotient
<1>4. At(k) + zone = Day * k /\ At(k) \in Int
  BY <1>1, <1>2 DEF At
<1>5. QED
  BY <1>3, <1>4 DEF LocalDay, AtMidnight

\* Every instant is in its local day.
LEMMA InLocalDay ==
  ASSUME zone \in Zones, NEW t \in Int
  PROVE  /\ LocalDay(t) \in Int
         /\ At(LocalDay(t)) <= t /\ t < At(LocalDay(t)) + Day
         /\ (t + zone) % Day = t - At(LocalDay(t))
<1>1. zone \in Int /\ t + zone \in Int
  BY ZoneMinutes
<1>2. /\ LocalDay(t) \in Int
      /\ t + zone = Day * LocalDay(t) + ((t + zone) % Day)
      /\ 0 <= (t + zone) % Day /\ (t + zone) % Day < Day /\ (t + zone) % Day \in Int
  BY <1>1, Positive, DivMod DEF LocalDay
<1> DEFINE l == LocalDay(t)
           r == (t + zone) % Day
<1>3. l \in Int /\ r \in Int /\ t + zone = Day * l + r /\ 0 <= r /\ r < Day
  BY <1>2
<1> HIDE DEF l, r
<1>4. Day * l \in Int /\ Day \in Int
  BY <1>3, Positive
<1>5. At(l) = Day * l - zone
  BY DEF At
<1>6. At(l) <= t /\ t < At(l) + Day /\ r = t - At(l)
  BY <1>1, <1>3, <1>4, <1>5
<1>7. QED
  BY <1>3, <1>6 DEF l, r

\* Days begin in the order of their numbers, a day apart.
LEMMA DayOrder ==
  ASSUME zone \in Zones, NEW k \in Int, NEW l \in Int
  PROVE  /\ At(k) \in Int /\ At(l) \in Int
         /\ k <= l => At(k) <= At(l)
         /\ k < l => At(k) + Day <= At(l)
         /\ At(k + l) = At(k) + Day * l /\ At(k - l) = At(k) - Day * l
<1>1. zone \in Int
  BY ZoneMinutes
<1>2. k <= l => Day * k <= Day * l
  BY Units
<1>3. k < l => Day * (k + 1) <= Day * l
  BY Units
<1>4. /\ Day * (k + 1) = Day * k + Day /\ Day * (k + l) = Day * k + Day * l
      /\ Day * (k - l) = Day * k - Day * l
      /\ Day * k \in Int /\ Day * l \in Int
  BY Units
<1>5. QED
  BY <1>1, <1>2, <1>3, <1>4, Units DEF At

LEMMA NextDay ==
  ASSUME zone \in Zones, NEW k \in Int
  PROVE  /\ At(k) \in Int /\ At(k - 1) \in Int /\ At(k + 1) \in Int
         /\ At(k - 1) = At(k) - Day /\ At(k + 1) = At(k) + Day
<1>1. At(k) \in Int /\ At(k - 1) = At(k) - Day * 1 /\ At(k + 1) = At(k) + Day * 1
  BY DayOrder
<1>2. QED
  BY <1>1, Positive

LEMMA LaterDay ==
  ASSUME zone \in Zones, NEW t \in Int, NEW u \in Int, t <= u
  PROVE  LocalDay(t) <= LocalDay(u)
<1>1. zone \in Int
  BY ZoneMinutes
<1>2. QED
  BY <1>1, Positive, DivOrder DEF LocalDay

\* Two clocks that differ by whole minutes (or hours) differ by them in what remains of the
\* day when whole minutes (hours) are counted, and show the same seconds.
LEMMA Clocks ==
  ASSUME NEW unit \in Nat \ {0}, NEW a \in Int, NEW b \in Int,
         \E c \in Int : b = a + unit * c
  PROVE  (a \div unit - b \div unit) * unit = a - b
<1>0. PICK c \in Int : b = a + unit * c
  OBVIOUS
<1>1. b \div unit = a \div unit + c
  BY <1>0, Shift
<1>2. a \div unit \in Int
  BY DivMod
<1>3. (a \div unit - b \div unit) * unit = -(unit * c)
  <2> DEFINE q == a \div unit
  <2>1. q \in Int /\ b \div unit = q + c
    BY <1>1, <1>2
  <2> HIDE DEF q
  <2>2. (q - (q + c)) * unit = -(unit * c)
    BY <2>1
  <2>3. QED
    BY <2>1, <2>2 DEF q
<1>4. QED
  BY <1>0, <1>3

LEMMA SameSeconds ==
  ASSUME NEW minute \in Nat \ {0}, NEW day \in Nat \ {0}, NEW n \in Nat, day = n * minute,
         NEW t \in Int, NEW z \in Int, NEW a \in Int, NEW b \in Int,
         NEW p \in Int, NEW q \in Int, NEW c \in Int,
         z = minute * c, t = day * p + a, t + z = day * q + b
  PROVE  b = a + minute * (c + n * p - n * q)
<1>1. /\ day * p = minute * (n * p) /\ day * q = minute * (n * q)
      /\ n * p \in Int /\ n * q \in Int
  OBVIOUS
<1>2. minute * (c + n * p - n * q) = minute * c + minute * (n * p) - minute * (n * q)
  BY <1>1
<1>3. minute * c \in Int /\ minute * (n * p) \in Int /\ minute * (n * q) \in Int
  BY <1>1
<1>4. QED
  BY <1>1, <1>2, <1>3

\* Offset is the difference between what the two clocks show, whatever the zone.
LEMMA OffsetIs ==
  ASSUME zone \in Zones, NEW t \in Int
  PROVE  Offset(t) = (t % Day) - ((t + zone) % Day) /\ Offset(t) \in Int
<1> DEFINE a == t % Day
           b == (t + zone) % Day
<1>1. PICK c \in Int : zone \in Int /\ zone = Minute * c
  BY ZoneMinutes
<1>2. PICK p \in Int : a \in Int /\ t = Day * p + a
  BY Positive, DivMod
<1>3. PICK q \in Int : b \in Int /\ t + zone = Day * q + b
  <2>1. t + zone \in Int
    BY <1>1
  <2>2. QED
    BY <2>1, Positive, DivMod
<1> HIDE DEF a, b
<1>4. b = a + Minute * (c + 1440 * p - 1440 * q)
  BY <1>1, <1>2, <1>3, Positive, Units, SameSeconds
<1>5. PICK e \in Int : b = a + Minute * e
  <2>1. c + 1440 * p - 1440 * q \in Int
    OBVIOUS
  <2>2. QED
    BY <1>4, <2>1
<1>6. (a \div Minute - b \div Minute) * Minute = a - b
  <2>1. \E k \in Int : b = a + Minute * k
    BY <1>5
  <2>2. Minute \in Nat \ {0} /\ a \in Int /\ b \in Int
    BY <1>2, <1>3, Positive
  <2>3. QED
    BY <2>1, <2>2, Clocks, Zenon
<1>7. Offset(t) = (a \div Minute - b \div Minute) * Minute
  BY DEF Offset, MinuteOfDay, a, b
<1>8. QED
  BY <1>2, <1>3, <1>6, <1>7 DEF a, b

\* Midnight is local midnight.
LEMMA MidnightIs ==
  ASSUME zone \in Zones, now \in Int
  PROVE  Midnight = At(LocalDay(now))
<1>1. now % Day \in Int /\ (now + zone) % Day = now - At(LocalDay(now)) /\ At(LocalDay(now)) \in Int
  BY Positive, DivMod, InLocalDay, DayStart
<1>2. Midnight = now - (now % Day) + ((now % Day) - ((now + zone) % Day))
  BY OffsetIs DEF Midnight, Truncate
<1>3. QED
  BY <1>1, <1>2

-----------------------------------------------------------------------------

\* What is cut off below a unit: the largest multiple that is not later.
LEMMA Truncated ==
  ASSUME NEW t \in Int, NEW d \in Nat \ {0}
  PROVE  /\ Truncate(t, d) \in Int
         /\ Truncate(t, d) <= t /\ t < Truncate(t, d) + d
         /\ \E k \in Int : Truncate(t, d) = d * k
<1> DEFINE q == t \div d
           r == t % d
<1>1. q \in Int /\ r \in Int /\ t = d * q + r /\ 0 <= r /\ r < d
  BY DivMod
<1>2. Truncate(t, d) = t - r
  BY DEF Truncate
<1> HIDE DEF q, r
<1>3. t - r = d * q /\ t - r \in Int /\ t - r <= t /\ t < t - r + d
  BY <1>1
<1>4. QED
  BY <1>1, <1>2, <1>3

\* A multiple of the unit passes through.
LEMMA TruncateShift ==
  ASSUME NEW t \in Int, NEW d \in Nat \ {0}, NEW x \in Int, \E k \in Int : x = d * k
  PROVE  Truncate(t + x, d) = Truncate(t, d) + x /\ Truncate(x, d) = x
<1>1. PICK k \in Int : x = d * k
  OBVIOUS
<1>2. (t + x) % d = t % d
  BY <1>1, Shift
<1>3. x % d = 0
  <2>1. d * k <= x /\ x < d * k + d
    BY <1>1
  <2>2. x % d = x - d * k
    BY <2>1, Quotient
  <2>3. QED
    BY <1>1, <2>2
<1>4. t % d \in Int
  BY DivMod
<1>5. QED
  BY <1>2, <1>3, <1>4 DEF Truncate

\* Cutting off keeps the order.
LEMMA TruncateOrder ==
  ASSUME NEW t \in Int, NEW u \in Int, t <= u
  PROVE  Truncate(t, Second) <= Truncate(u, Second)
<1> DEFINE p == t \div Second
           q == u \div Second
<1>1. p <= q
  BY Positive, DivOrder
<1>2. /\ p \in Int /\ q \in Int
      /\ t = Second * p + (t % Second) /\ u = Second * q + (u % Second)
      /\ t % Second \in Int /\ u % Second \in Int
  BY Positive, DivMod
<1> HIDE DEF p, q
<1>3. Second * p <= Second * q /\ Second * p \in Int /\ Second * q \in Int
  BY <1>1, <1>2, Positive
<1>4. QED
  BY <1>2, <1>3 DEF Truncate

\* Whole seconds: what both ends of a window are.
Whole(t) == \E k \in Int : t = Second * k

LEMMA WholeSums ==
  ASSUME NEW t \in Int, NEW u \in Int, Whole(t), Whole(u)
  PROVE  Whole(t + u) /\ Whole(t - u) /\ t + u \in Int /\ t - u \in Int
<1>1. PICK k, l \in Int : t = Second * k /\ u = Second * l
  BY DEF Whole
<1>2. t + u = Second * (k + l) /\ t - u = Second * (k - l)
  BY <1>1, Positive
<1>3. k + l \in Int /\ k - l \in Int
  OBVIOUS
<1>4. QED
  BY <1>2, <1>3 DEF Whole

LEMMA WholeUnits ==
  ASSUME NEW n \in Int
  PROVE  /\ Whole(Second * n) /\ Second * n \in Int
         /\ Whole(Minute * n) /\ Minute * n \in Int
         /\ Whole(Day * n) /\ Day * n \in Int
<1>1. /\ Minute * n = Second * (60 * n) /\ Day * n = Second * (86400 * n)
      /\ 60 * n \in Int /\ 86400 * n \in Int
      /\ Second * n \in Int /\ Minute * n \in Int /\ Day * n \in Int
  BY Units
<1>2. QED
  BY <1>1 DEF Whole

LEMMA WholeDays ==
  ASSUME zone \in Zones, NEW k \in Int
  PROVE  At(k) \in Int /\ Whole(At(k)) /\ Truncate(At(k), Second) = At(k)
<1>1. PICK c \in Int : zone \in Int /\ zone = Minute * c
  BY ZoneMinutes
<1>2. At(k) \in Int /\ Whole(At(k))
  <2>1. Day * k \in Int /\ Whole(Day * k) /\ Whole(zone)
    BY <1>1, WholeUnits
  <2>2. QED
    BY <1>1, <2>1, WholeSums DEF At
<1>3. Truncate(At(k), Second) = At(k)
  BY <1>2, Positive, TruncateShift DEF Whole
<1>4. QED
  BY <1>2, <1>3

\* int64 keeps the numbers it can hold.
LEMMA WrapType == ASSUME NEW x \in Int PROVE Wrap(x) \in Int /\ MaxInt \in Int
BY WindowAssumption DEF Wrap, MaxInt

LEMMA WrapKeeps ==
  ASSUME NEW x \in Int, -MaxInt - 1 <= x, x <= MaxInt
  PROVE  Wrap(x) = x
<1> DEFINE half == Word \div 2
<1>1. Word = 2 * half /\ half \in Int /\ Word \in Nat \ {0}
  BY WindowAssumption
<1>2. MaxInt = half - 1
  BY DEF MaxInt
<1>3. Wrap(x) = ((x + half) % Word) - half
  BY DEF Wrap
<1> HIDE DEF half
<1> DEFINE y == x + half
<1>4. y \in Int /\ 0 <= y /\ y < Word /\ x = y - half
  BY <1>1, <1>2
<1>5. Wrap(x) = (y % Word) - half
  BY <1>3
<1> HIDE DEF y
<1>6. Word * 0 <= y /\ y < Word * 0 + Word
  BY <1>1, <1>4
<1>7. y % Word = y - Word * 0
  <2>1. y \div Word = 0 /\ y % Word = y - Word * 0
    BY <1>1, <1>4, <1>6, Quotient, 0 \in Int
  <2>2. QED
    BY <2>1
<1>8. y % Word = y
  BY <1>1, <1>4, <1>7
<1>9. QED
  BY <1>4, <1>5, <1>8

-----------------------------------------------------------------------------

\* Of integers with a bound there is a greatest one.
LEMMA Greatest ==
  ASSUME NEW d \in Int, NEW T \in SUBSET Int, T # {}, \A x \in T : x <= d
  PROVE  Max(T) \in T /\ \A x \in T : x <= Max(T)
<1> DEFINE U == {d - x : x \in T}
           R == OpToRel(<, Nat)
<1>1. U \in SUBSET Nat /\ U # {}
  <2>1. \A x \in T : d - x \in Nat
    OBVIOUS
  <2>2. QED
    BY <2>1
<1>2. IsWellFoundedOn(R, Nat)
  BY NatLessThanWellFounded
<1>3. \A x, y \in Nat : y < x => <<y, x>> \in R
  BY DEF OpToRel
<1> HIDE DEF R
<1>4. \E u \in U : \A v \in U : ~ (<<v, u>> \in R)
  BY <1>1, <1>2, WFMin
<1>5. PICK u \in U : \A v \in U : ~ (<<v, u>> \in R)
  BY <1>4
<1>6. \A v \in U : u <= v
  <2> TAKE v \in U
  <2>1. u \in Nat /\ v \in Nat
    BY <1>1
  <2>2. ~(v < u)
    BY <1>3, <1>5, <2>1
  <2>3. QED
    BY <2>1, <2>2
<1>7. \E x \in T : \A y \in T : x >= y
  <2>1. PICK x \in T : u = d - x
    OBVIOUS
  <2>2. \A y \in T : d - y \in U
    OBVIOUS
  <2>3. \A y \in T : d - x <= d - y
    BY <1>6, <2>1, <2>2
  <2>4. \A y \in T : x >= y
    BY <2>3
  <2>5. QED
    BY <2>4
<1>8. QED
  BY <1>7 DEF Max

\* The last day up to d on which a month begins.
LastFirst(d) == Max({f \in Firsts : f <= d})

\* Since the clock started there is always one, and one before it.
LEMMA Calendar ==
  ASSUME zone \in Zones, NEW t \in Int, Begin <= t
  PROVE  LET L == LocalDay(t)
             k == LastFirst(L)
             j == LastFirst(k - 1)
         IN  /\ L \in Int
             /\ k \in Firsts /\ k \in Int /\ k <= L /\ \A f \in Firsts : f <= L => f <= k
             /\ j \in Firsts /\ j \in Int /\ j < k /\ \A f \in Firsts : f < k => f <= j
<1> DEFINE L == LocalDay(t)
           k == LastFirst(L)
           j == LastFirst(k - 1)
<1>1. PICK f, g \in Firsts : g < f /\ f <= (Begin - Day) \div Day
  BY CalendarAssumption
<1>2. Firsts \subseteq Int
  BY CalendarAssumption
<1>3. L \in Int /\ f \in Int /\ g \in Int /\ g < f /\ f <= L
  <2>1. zone \in Int /\ -Day <= zone /\ Begin \in Int /\ Day \in Int
    BY ZoneMinutes, WindowAssumption, Positive
  <2>2. Begin - Day \in Int /\ t + zone \in Int /\ Begin - Day <= t + zone
    BY <2>1
  <2>3. (Begin - Day) \div Day <= (t + zone) \div Day
    BY <2>2, Positive, DivOrder
  <2>4. (Begin - Day) \div Day \in Int
    BY <2>2, Positive, DivMod
  <2> DEFINE b == (Begin - Day) \div Day
  <2>5. b \in Int /\ b <= L /\ L \in Int /\ f <= b /\ f \in Int /\ g \in Int
    BY <1>1, <1>2, <2>3, <2>4, InLocalDay DEF LocalDay
  <2> HIDE DEF b
  <2>6. QED
    BY <1>1, <2>5
<1> HIDE DEF L
<1>4. k \in {e \in Firsts : e <= L} /\ \A x \in {e \in Firsts : e <= L} : x <= k
  <2> DEFINE T == {e \in Firsts : e <= L}
  <2>1. T \in SUBSET Int /\ T # {} /\ \A x \in T : x <= L
    BY <1>1, <1>2, <1>3
  <2> HIDE DEF T
  <2>2. Max(T) \in T /\ \A x \in T : x <= Max(T)
    BY <1>3, <2>1, Greatest
  <2>3. QED
    BY <2>2 DEF T, LastFirst
<1>5. k \in Int /\ g <= k - 1 /\ k - 1 \in Int
  <2>1. k \in Firsts /\ k \in Int /\ f <= k
    BY <1>2, <1>3, <1>4
  <2>2. QED
    BY <1>3, <2>1
<1> HIDE DEF k
<1>6. j \in {e \in Firsts : e <= k - 1} /\ \A x \in {e \in Firsts : e <= k - 1} : x <= j
  <2> DEFINE T == {e \in Firsts : e <= k - 1}
  <2>1. T \in SUBSET Int /\ T # {} /\ \A x \in T : x <= k - 1
    BY <1>1, <1>2, <1>5
  <2> HIDE DEF T
  <2>2. Max(T) \in T /\ \A x \in T : x <= Max(T)
    BY <1>5, <2>1, Greatest
  <2>3. QED
    BY <2>2 DEF T, LastFirst
<1> HIDE DEF j
<1>7. /\ k \in Firsts /\ k <= L /\ \A e \in Firsts : e <= L => e <= k
      /\ j \in Firsts /\ j \in Int /\ j < k /\ \A e \in Firsts : e < k => e <= j
  BY <1>2, <1>4, <1>5, <1>6
<1>8. QED
  BY <1>3, <1>5, <1>7 DEF L, k, j

-----------------------------------------------------------------------------

\* What a window parsed at t is, without the detour over UTC: r, in terms of the local day, of
\* the last first of a month and of the second in which the text is parsed.
Means(w, t, r) ==
  LET L == LocalDay(t)
      k == LastFirst(L)
      second == Truncate(t, Second)
      length == w.num * Unit[w.unit]
      before == w.num2 * OffsetUnit[w.unit2]
  IN  /\ w.kind = "today" => r = Span(At(L), second)
      /\ w.kind = "yesterday" => r = Span(At(L - 1), At(L))
      /\ w.kind = "week" => r = Span(At(L - (L % 7)), second)
      /\ w.kind = "lastweek" => r = Span(At(L - (L % 7) - 7), At(L - (L % 7)))
      /\ w.kind = "month" => r = Span(At(k), second)
      /\ w.kind = "lastmonth" => r = Span(At(LastFirst(k - 1)), At(k))
      /\ w.kind = "past" =>
           /\ r.end = second
           /\ w.unit \in {"d", "w"} /\ Fits(w) => r.start = At(L + 1) - length
           /\ w.unit \in {"m", "h"} /\ Fits(w) => r.start = second - length
      /\ w.kind = "pastBefore" /\ Fits(w) => r = Span(second - before - length, second - before)
      /\ w.kind = "between" => r = Between(w)

\* The days that are taken off midnight lead to a Monday, and to the first of a month.
LEMMA MondayIs ==
  ASSUME zone \in Zones, NEW L \in Int
  PROVE  Monday(At(L)) = At(L - (L % 7)) /\ L - (L % 7) \in Int
<1>1. Weekday(At(L)) = (L + 1) % 7
  BY DayStart DEF Weekday
<1>2. (((L + 1) % 7) + 6) % 7 = L % 7 /\ L % 7 \in Int
  OBVIOUS
<1>3. At(L - (L % 7)) = At(L) - Day * (L % 7)
  BY <1>2, DayOrder
<1>4. QED
  BY <1>1, <1>2, <1>3 DEF Monday

LEMMA FirstOfMonthIs ==
  ASSUME zone \in Zones, NEW L \in Int, LastFirst(L) \in Int
  PROVE  FirstOfMonth(At(L)) = At(LastFirst(L))
<1>1. LocalDay(At(L)) = L
  BY DayStart
<1>2. DayOfMonth(At(L)) = L - LastFirst(L) + 1
  BY <1>1 DEF DayOfMonth, LastFirst
<1> DEFINE k == LastFirst(L)
<1>3. k \in Int /\ DayOfMonth(At(L)) = L - k + 1
  BY <1>2
<1> HIDE DEF k
<1>4. At(L - (L - k)) = At(L) - Day * (L - k) /\ L - (L - k) = k /\ DayOfMonth(At(L)) - 1 = L - k
  BY <1>3, DayOrder
<1>5. FirstOfMonth(At(L)) = At(L) - Day * (DayOfMonth(At(L)) - 1)
  BY DEF FirstOfMonth
<1>6. FirstOfMonth(At(L)) = At(k)
  BY <1>4, <1>5
<1>7. QED
  BY <1>6 DEF k

NamedKinds == {"today", "yesterday", "week", "lastweek", "month", "lastmonth"}

LEMMA NamedIs ==
  ASSUME zone \in Zones, now \in Int, Begin <= now
  PROVE  LET L == LocalDay(now)
             k == LastFirst(L)
         IN  /\ DOMAIN Named = NamedKinds
             /\ Named["today"] = Span(At(L), now)
             /\ Named["yesterday"] = Span(At(L - 1), At(L))
             /\ Named["week"] = Span(At(L - (L % 7)), now)
             /\ Named["lastweek"] = Span(At(L - (L % 7) - 7), At(L - (L % 7)))
             /\ Named["month"] = Span(At(k), now)
             /\ Named["lastmonth"] = Span(At(LastFirst(k - 1)), At(k))
<1> DEFINE L == LocalDay(now)
           k == LastFirst(L)
           j == LastFirst(k - 1)
<1>1. L \in Int /\ k \in Int /\ j \in Int /\ Midnight = At(L)
  BY Calendar, MidnightIs
<1> HIDE DEF L
<1>2. Monday(Midnight) = At(L - (L % 7)) /\ L - (L % 7) \in Int
  BY <1>1, MondayIs
<1>3. FirstOfMonth(Midnight) = At(k)
  BY <1>1, FirstOfMonthIs
<1>4. At(k) - Day = At(k - 1)
  BY <1>1, DayOrder, Positive
<1>5. FirstOfMonth(At(k) - Day) = At(j)
  BY <1>1, <1>4, FirstOfMonthIs
<1>6. At(L) - Day = At(L - 1)
  BY <1>1, DayOrder, Positive
<1>7. At(L - (L % 7)) - Week = At(L - (L % 7) - 7)
  BY <1>2, DayOrder, Positive, Units
<1> HIDE DEF k, j
<1>8. Named = [today |-> Span(At(L), now),
               yesterday |-> Span(At(L - 1), At(L)),
               week |-> Span(At(L - (L % 7)), now),
               lastweek |-> Span(At(L - (L % 7) - 7), At(L - (L % 7))),
               month |-> Span(At(k), now),
               lastmonth |-> Span(At(j), At(k))]
  BY <1>1, <1>2, <1>3, <1>5, <1>6, <1>7 DEF Named
<1>9. QED
  BY <1>8 DEF NamedKinds, L, k, j

\* What a number of units is: whole minutes, and whole days if the unit is a day or a week.
LEMMA Lengths ==
  ASSUME NEW n \in Nat, NEW u \in DOMAIN Unit
  PROVE  /\ Unit[u] \in Int /\ OffsetUnit[u] \in Int
         /\ n * Unit[u] \in Nat /\ \E c \in Nat : n * Unit[u] = Minute * c
         /\ n * OffsetUnit[u] \in Nat /\ \E c \in Nat : n * OffsetUnit[u] = Minute * c
         /\ u \in {"d", "w"} => \E c \in Nat : n * Unit[u] = Day * c
<1>1. u \in {"m", "h", "d", "w"}
  BY DEF Unit
<1>2. PICK c \in Nat : Unit[u] = Minute * c
  <2>1. /\ Unit["m"] = Minute * 1 /\ Unit["h"] = Minute * 60
        /\ Unit["d"] = Minute * 1440 /\ Unit["w"] = Minute * 10080
    BY Units DEF Unit
  <2>2. QED
    BY <1>1, <2>1
<1>3. PICK e \in Nat : OffsetUnit[u] = Minute * e
  <2>1. /\ OffsetUnit["m"] = Minute * 1 /\ OffsetUnit["h"] = Minute * 60
        /\ OffsetUnit["d"] = Minute * 1440 /\ OffsetUnit["w"] = Minute * 241920
    BY Units DEF Unit, OffsetUnit
  <2>2. QED
    BY <1>1, <2>1
<1>4. u \in {"d", "w"} => \E f \in Nat : Unit[u] = Day * f
  <2>1. Unit["d"] = Day * 1 /\ Unit["w"] = Day * 7
    BY Units DEF Unit
  <2>2. QED
    BY <2>1
<1>5. /\ n * (Minute * c) = Minute * (n * c) /\ n * c \in Nat
      /\ n * (Minute * e) = Minute * (n * e) /\ n * e \in Nat
      /\ Minute * (n * c) \in Nat /\ Minute * (n * e) \in Nat
  BY Positive
<1>6. \A f \in Nat : n * (Day * f) = Day * (n * f) /\ n * f \in Nat
  BY Positive
<1>7. Unit[u] \in Int /\ OffsetUnit[u] \in Int
  BY <1>2, <1>3, Positive
<1>8. QED
  BY <1>2, <1>3, <1>4, <1>5, <1>6, <1>7

LEMMA MinutesAreWhole ==
  ASSUME NEW x \in Int, \E c \in Int : x = Minute * c
  PROVE  Whole(x) /\ Whole(-x)
<1>1. PICK c \in Int : x = Minute * c
  OBVIOUS
<1>2. -x = Minute * (-c) /\ -c \in Int
  BY <1>1, Positive
<1>3. QED
  BY <1>1, <1>2, WholeUnits

\* A window of the past is counted back from now, or from the coming local midnight.
LEMMA PastIs ==
  ASSUME zone \in Zones, now \in Int, NEW w \in Windows, w.kind = "past"
  PROVE  LET length == w.num * Unit[w.unit]
         IN  /\ Past(w).start \in Int /\ Past(w).end = now
             /\ w.unit \in {"d", "w"} /\ Fits(w) => Past(w).start = At(LocalDay(now) + 1) - length
             /\ w.unit \in {"m", "h"} /\ Fits(w) => Past(w).start = now - length
<1> DEFINE length == w.num * Unit[w.unit]
           L == LocalDay(now)
           from == now + Wrap(-w.num * Unit[w.unit])
<1>1. w.num \in Nat /\ w.unit \in DOMAIN Unit
  BY TextAssumption
<1>2. length \in Nat /\ Unit[w.unit] \in Int
  BY <1>1, Lengths
<1>3. -w.num * Unit[w.unit] = -length /\ -length \in Int
  BY <1>1, <1>2
<1>4. from \in Int
  BY <1>3, WrapType
<1>5. Fits(w) => from = now - length
  <2> SUFFICES ASSUME Fits(w) PROVE from = now - length
    OBVIOUS
  <2>1. length <= MaxInt
    BY DEF Fits
  <2>2. -MaxInt - 1 <= -length /\ -length <= MaxInt
    BY <1>2, <2>1, WrapType
  <2>3. Wrap(-length) = -length
    BY <1>3, <2>2, WrapKeeps
  <2>4. QED
    BY <1>2, <1>3, <2>3
<1>6. Past(w) = Span(IF w.unit \in {"d", "w"} THEN NextMidnight(from) ELSE from, now)
  BY DEF Past
<1> HIDE DEF from
<1>7. NextMidnight(from) \in Int
  <2>1. Truncate(from, Day) \in Int /\ Day \in Int /\ Offset(now) \in Int
    BY <1>4, Truncated, Positive, OffsetIs
  <2>2. QED
    BY <2>1 DEF NextMidnight
<1>8. w.unit \in {"d", "w"} /\ Fits(w) => NextMidnight(from) = At(L + 1) - length
  <2> SUFFICES ASSUME w.unit \in {"d", "w"}, Fits(w)
               PROVE  NextMidnight(from) = At(L + 1) - length
    OBVIOUS
  <2>1. PICK c \in Nat : length = Day * c
    BY <1>1, Lengths
  <2> HIDE DEF length
  <2> DEFINE x == -length
  <2>2. x \in Int /\ from = now + x /\ \E k \in Int : x = Day * k
    <3>1. -length = Day * (-c) /\ -c \in Int
      BY <2>1, Positive
    <3>2. from = now + x /\ x \in Int
      BY <1>2, <1>5
    <3>3. QED
      BY <3>1, <3>2, Zenon
  <2> HIDE DEF x
  <2>3. Truncate(now + x, Day) = Truncate(now, Day) + x
    <3>1. now \in Int /\ Day \in Nat \ {0}
      BY Positive
    <3>2. PICK k \in Int : x = Day * k
      BY <2>2
    <3>3. QED
      BY <2>2, <3>1, <3>2, TruncateShift
  <2>4. Truncate(now, Day) + Offset(now) = At(L)
    BY MidnightIs DEF Midnight
  <2>5. /\ Truncate(now, Day) \in Int /\ Offset(now) \in Int /\ Day \in Int /\ L \in Int
        /\ At(L) \in Int
    BY Truncated, Positive, OffsetIs, InLocalDay, DayStart
  <2>6. At(L + 1) = At(L) + Day * 1
    BY <2>5, DayOrder
  <2>7. NextMidnight(from) = Truncate(now, Day) + x + Day + Offset(now)
    BY <2>2, <2>3 DEF NextMidnight
  <2>8. NextMidnight(from) = At(L) + Day + x
    BY <2>2, <2>4, <2>5, <2>7
  <2>9. QED
    BY <1>2, <2>5, <2>6, <2>8 DEF x
<1>9. /\ Past(w).end = now /\ Past(w).start \in Int
      /\ w.unit \in {"d", "w"} => Past(w).start = NextMidnight(from)
      /\ w.unit \in {"m", "h"} => Past(w).start = from
  BY <1>4, <1>6, <1>7 DEF Span
<1>10. QED
  BY <1>5, <1>8, <1>9

LEMMA PastBeforeIs ==
  ASSUME now \in Int, NEW w \in Windows, w.kind = "pastBefore"
  PROVE  LET length == w.num * Unit[w.unit]
             before == w.num2 * OffsetUnit[w.unit2]
         IN  /\ PastBefore(w).start \in Int /\ PastBefore(w).end \in Int
             /\ Fits(w) => PastBefore(w) = Span(now - before - length, now - before)
<1> DEFINE length == w.num * Unit[w.unit]
           before == w.num2 * OffsetUnit[w.unit2]
           end == now + Wrap(-w.num2 * OffsetUnit[w.unit2])
           start == end + Wrap(-w.num * Unit[w.unit])
<1>1. w.num \in Nat /\ w.unit \in DOMAIN Unit /\ w.num2 \in Nat /\ w.unit2 \in DOMAIN Unit
  BY TextAssumption
<1>2. /\ length \in Nat /\ Unit[w.unit] \in Int
      /\ before \in Nat /\ OffsetUnit[w.unit2] \in Int
  BY <1>1, Lengths
<1>3. /\ -w.num * Unit[w.unit] = -length /\ -length \in Int
      /\ -w.num2 * OffsetUnit[w.unit2] = -before /\ -before \in Int
  BY <1>1, <1>2
<1>4. Wrap(-length) \in Int /\ Wrap(-before) \in Int /\ MaxInt \in Int
  BY <1>3, WrapType
<1>5. PastBefore(w) = Span(start, end)
  BY DEF PastBefore
<1>6. end = now + Wrap(-before) /\ start = now + Wrap(-before) + Wrap(-length)
  BY <1>3
<1> HIDE DEF length, before, start, end
<1>7. Fits(w) => Wrap(-length) = -length /\ Wrap(-before) = -before
  <2> SUFFICES ASSUME Fits(w) PROVE Wrap(-length) = -length /\ Wrap(-before) = -before
    OBVIOUS
  <2>1. length <= MaxInt /\ before <= MaxInt
    BY DEF Fits, length, before
  <2>2. /\ -MaxInt - 1 <= -length /\ -length <= MaxInt
        /\ -MaxInt - 1 <= -before /\ -before <= MaxInt
    BY <1>2, <1>4, <2>1
  <2>3. QED
    BY <1>3, <2>2, WrapKeeps
<1>8. start \in Int /\ end \in Int
  BY <1>4, <1>6
<1>9. Fits(w) => start = now - before - length /\ end = now - before
  BY <1>2, <1>6, <1>7
<1>10. QED
  BY <1>5, <1>8, <1>9 DEF Span, length, before

LEMMA SpanTruncated ==
  ASSUME NEW s \in Int, NEW e \in Int, NEW w, ParseAt(w) = Span(s, e)
  PROVE  /\ Parsed(w) = Span(Truncate(s, Second), Truncate(e, Second))
         /\ Parsed(w).start = Truncate(s, Second) /\ Parsed(w).end = Truncate(e, Second)
         /\ Parsed(w).start \in Int /\ Parsed(w).end \in Int
         /\ Whole(Parsed(w).start) /\ Whole(Parsed(w).end)
<1>1. Parsed(w) = Span(Truncate(s, Second), Truncate(e, Second))
  BY DEF Parsed, Span
<1>2. /\ Parsed(w).start = Truncate(s, Second)
      /\ Parsed(w).end = Truncate(e, Second)
  BY <1>1 DEF Span
<1>3. /\ Truncate(s, Second) \in Int /\ Whole(Truncate(s, Second))
      /\ Truncate(e, Second) \in Int /\ Whole(Truncate(e, Second))
  BY Truncated, Positive DEF Whole
<1>4. QED
  BY <1>1, <1>2, <1>3

\* A text that is parsed means what it says, and is parsed to whole seconds even if its
\* numbers do not fit.
LEMMA ParsedMeans ==
  ASSUME zone \in Zones, now \in Int, Begin <= now, NEW w \in Windows, w.kind # "illegal"
  PROVE  /\ Parsed(w).start \in Int /\ Parsed(w).end \in Int
         /\ Whole(Parsed(w).start) /\ Whole(Parsed(w).end)
         /\ Means(w, now, Parsed(w))
<1> DEFINE L == LocalDay(now)
           k == LastFirst(L)
           j == LastFirst(k - 1)
           m == L - (L % 7)
           second == Truncate(now, Second)
<1>1. L \in Int /\ k \in Int /\ j \in Int
  BY Calendar
<1>2. m \in Int /\ m - 7 \in Int /\ L - 1 \in Int
  BY <1>1
<1>3. /\ At(L) \in Int /\ At(L - 1) \in Int /\ At(m) \in Int /\ At(m - 7) \in Int
      /\ At(k) \in Int /\ At(j) \in Int
      /\ Truncate(At(L), Second) = At(L) /\ Truncate(At(L - 1), Second) = At(L - 1)
      /\ Truncate(At(m), Second) = At(m) /\ Truncate(At(m - 7), Second) = At(m - 7)
      /\ Truncate(At(k), Second) = At(k) /\ Truncate(At(j), Second) = At(j)
  BY <1>1, <1>2, WholeDays
<1>4. /\ DOMAIN Named = NamedKinds
      /\ Named["today"] = Span(At(L), now)
      /\ Named["yesterday"] = Span(At(L - 1), At(L))
      /\ Named["week"] = Span(At(m), now)
      /\ Named["lastweek"] = Span(At(m - 7), At(m))
      /\ Named["month"] = Span(At(k), now)
      /\ Named["lastmonth"] = Span(At(j), At(k))
  BY NamedIs
<1>5. w.kind \in NamedKinds => ParseAt(w) = Named[w.kind]
  <2>1. w.kind \in NamedKinds => w.kind \notin {"past", "pastBefore", "between"}
    BY DEF NamedKinds
  <2>2. QED
    BY <1>4, <2>1 DEF ParseAt
<1>6. /\ w.kind = "past" => ParseAt(w) = Past(w)
      /\ w.kind = "pastBefore" => ParseAt(w) = PastBefore(w)
      /\ w.kind = "between" => ParseAt(w) = Between(w)
  BY <1>4 DEF ParseAt, NamedKinds
<1>7. CASE w.kind = "today"
  <2>1. ParseAt(w) = Span(At(L), now)
    BY <1>4, <1>5, <1>7 DEF NamedKinds
  <2>2. QED
    BY <1>3, <1>7, <2>1, SpanTruncated DEF Means
<1>8. CASE w.kind = "yesterday"
  <2>1. ParseAt(w) = Span(At(L - 1), At(L))
    BY <1>4, <1>5, <1>8 DEF NamedKinds
  <2>2. QED
    BY <1>3, <1>8, <2>1, SpanTruncated DEF Means
<1>9. CASE w.kind = "week"
  <2>1. ParseAt(w) = Span(At(m), now)
    BY <1>4, <1>5, <1>9 DEF NamedKinds
  <2>2. QED
    BY <1>3, <1>9, <2>1, SpanTruncated DEF Means
<1>10. CASE w.kind = "lastweek"
  <2>1. ParseAt(w) = Span(At(m - 7), At(m))
    BY <1>4, <1>5, <1>10 DEF NamedKinds
  <2>2. QED
    BY <1>3, <1>10, <2>1, SpanTruncated DEF Means
<1>11. CASE w.kind = "month"
  <2>1. ParseAt(w) = Span(At(k), now)
    BY <1>4, <1>5, <1>11 DEF NamedKinds
  <2>2. QED
    BY <1>3, <1>11, <2>1, SpanTruncated DEF Means
<1>12. CASE w.kind = "lastmonth"
  <2>1. ParseAt(w) = Span(At(j), At(k))
    BY <1>4, <1>5, <1>12 DEF NamedKinds
  <2>2. QED
    BY <1>3, <1>12, <2>1, SpanTruncated DEF Means
<1>13. CASE w.kind = "past"
  <2> DEFINE length == w.num * Unit[w.unit]
             from == Past(w).start
  <2>1. w.num \in Nat /\ w.unit \in DOMAIN Unit
    BY <1>13, TextAssumption
  <2>2. length \in Nat /\ Whole(-length) /\ -length \in Int
    BY <2>1, Lengths, MinutesAreWhole
  <2>3. /\ from \in Int /\ Past(w).end = now
        /\ w.unit \in {"d", "w"} /\ Fits(w) => from = At(L + 1) - length
        /\ w.unit \in {"m", "h"} /\ Fits(w) => from = now - length
    BY <1>13, PastIs
  <2>4. ParseAt(w) = Span(from, now)
    BY <1>6, <1>13, <2>3 DEF Past, Span
  <2>5. /\ Parsed(w).start = Truncate(from, Second) /\ Parsed(w).end = second
        /\ Parsed(w).start \in Int /\ Parsed(w).end \in Int
        /\ Whole(Parsed(w).start) /\ Whole(Parsed(w).end)
    BY <2>3, <2>4, SpanTruncated
  <2> HIDE DEF length, from
  <2>6. w.unit \in {"d", "w"} /\ Fits(w) => Truncate(from, Second) = At(L + 1) - length
    <3>1. At(L + 1) \in Int /\ Truncate(At(L + 1), Second) = At(L + 1)
      BY <1>1, WholeDays
    <3>2. Truncate(At(L + 1) + (-length), Second) = Truncate(At(L + 1), Second) + (-length)
      <4>1. \E q \in Int : -length = Second * q
        BY <2>2 DEF Whole
      <4>2. Second \in Nat \ {0} /\ At(L + 1) \in Int /\ -length \in Int
        BY <2>2, <3>1, Positive
      <4>3. QED
        BY <4>1, <4>2, TruncateShift, Zenon
    <3>3. At(L + 1) - length = At(L + 1) + (-length)
      BY <2>2, <3>1
    <3>4. QED
      BY <2>3, <3>1, <3>2, <3>3
  <2>7. w.unit \in {"m", "h"} /\ Fits(w) => Truncate(from, Second) = second - length
    <3>1. Truncate(now + (-length), Second) = second + (-length)
      BY <2>2, Positive, TruncateShift DEF Whole
    <3>2. now - length = now + (-length) /\ second - length = second + (-length)
      BY <2>2, Truncated, Positive
    <3>3. QED
      BY <2>3, <3>1, <3>2
  <2>8. QED
    BY <1>13, <2>5, <2>6, <2>7 DEF Means, length
<1>14. CASE w.kind = "pastBefore"
  <2> DEFINE length == w.num * Unit[w.unit]
             before == w.num2 * OffsetUnit[w.unit2]
  <2>1. w.num \in Nat /\ w.unit \in DOMAIN Unit /\ w.num2 \in Nat /\ w.unit2 \in DOMAIN Unit
    BY <1>14, TextAssumption
  <2>2. /\ length \in Nat /\ Whole(-length) /\ -length \in Int
        /\ before \in Nat /\ Whole(-before) /\ -before \in Int
    <3>1. /\ length \in Nat /\ \E c \in Nat : length = Minute * c
          /\ before \in Nat /\ \E c \in Nat : before = Minute * c
      BY <2>1, Lengths
    <3> HIDE DEF length, before
    <3>2. Whole(-length) /\ Whole(-before)
      BY <3>1, MinutesAreWhole
    <3>3. QED
      BY <3>1, <3>2
  <2>3. /\ PastBefore(w).start \in Int /\ PastBefore(w).end \in Int
        /\ Fits(w) => PastBefore(w) = Span(now - before - length, now - before)
    BY <1>14, PastBeforeIs
  <2>4. ParseAt(w) = Span(PastBefore(w).start, PastBefore(w).end)
    BY <1>6, <1>14 DEF PastBefore, Span
  <2>5. /\ Parsed(w) = Span(Truncate(PastBefore(w).start, Second),
                            Truncate(PastBefore(w).end, Second))
        /\ Parsed(w).start \in Int /\ Parsed(w).end \in Int
        /\ Whole(Parsed(w).start) /\ Whole(Parsed(w).end)
    BY <2>3, <2>4, SpanTruncated
  <2> HIDE DEF length, before
  <2>6. Fits(w) => Parsed(w) = Span(second - before - length, second - before)
    <3>1. second \in Int
      BY Truncated, Positive
    <3> DEFINE x == -before
               y == -length
               z == now + x
    <3>2. x \in Int /\ y \in Int /\ Whole(x) /\ Whole(y) /\ z \in Int
      BY <2>2
    <3> HIDE DEF x, y
    <3>3. Truncate(now + x, Second) = second + x
      <4>1. \E q \in Int : x = Second * q
        BY <3>2 DEF Whole
      <4>2. Second \in Nat \ {0} /\ now \in Int /\ x \in Int
        BY <3>2, Positive
      <4>3. QED
        BY <4>1, <4>2, TruncateShift, Zenon
    <3> HIDE DEF z
    <3>4. Truncate(z + y, Second) = Truncate(z, Second) + y
      <4>1. \E q \in Int : y = Second * q
        BY <3>2 DEF Whole
      <4>2. Second \in Nat \ {0} /\ z \in Int /\ y \in Int
        BY <3>2, Positive
      <4>3. QED
        BY <4>1, <4>2, TruncateShift, Zenon
    <3>5. Truncate(now + (-before), Second) = second + (-before)
      BY <3>3 DEF x
    <3>6. Truncate((now + (-before)) + (-length), Second) = second + (-before) + (-length)
      BY <3>3, <3>4 DEF x, y, z
    <3>7. /\ now - before = now + (-before) /\ now - before - length = (now + (-before)) + (-length)
          /\ second - before = second + (-before)
          /\ second - before - length = second + (-before) + (-length)
      BY <2>2, <3>1
    <3>8. Fits(w) => /\ PastBefore(w).start = now - before - length
                     /\ PastBefore(w).end = now - before
      BY <2>3 DEF Span
    <3>9. QED
      BY <2>5, <3>5, <3>6, <3>7, <3>8
  <2>7. QED
    BY <1>14, <2>5, <2>6 DEF Means, length, before
<1>15. CASE w.kind = "between"
  <2>1. w.num \in Int /\ w.num2 \in Int
    BY <1>15, TextAssumption
  <2>2. /\ ParseAt(w) = Span(w.num * Second, w.num2 * Second)
        /\ w.num * Second \in Int /\ w.num2 * Second \in Int
        /\ w.num * Second = Second * w.num /\ w.num2 * Second = Second * w.num2
    BY <1>6, <1>15, <2>1, Positive DEF Between
  <2>3. /\ Truncate(w.num * Second, Second) = w.num * Second
        /\ Truncate(w.num2 * Second, Second) = w.num2 * Second
    <3> DEFINE x == w.num * Second
               y == w.num2 * Second
    <3>1. (\E q \in Int : x = Second * q) /\ (\E q \in Int : y = Second * q)
      BY <2>1, <2>2
    <3>2. x \in Int /\ y \in Int /\ 0 \in Int
      BY <2>2
    <3> HIDE DEF x, y
    <3>3. Truncate(x, Second) = x /\ Truncate(y, Second) = y
      BY <3>1, <3>2, Positive, TruncateShift
    <3>4. QED
      BY <3>3 DEF x, y
  <2>4. QED
    BY <1>15, <2>2, <2>3, SpanTruncated DEF Means, Between
<1>16. w.kind \in NamedKinds \cup {"past", "pastBefore", "between"}
  BY TextAssumption DEF NamedKinds
<1>17. QED
  BY <1>7, <1>8, <1>9, <1>10, <1>11, <1>12, <1>13, <1>14, <1>15, <1>16 DEF NamedKinds

-----------------------------------------------------------------------------

\* What every request finds: a clock that has started, and an answer that means what its text
\* said when it was parsed.
ClockInv ==
  /\ zone \in Zones /\ now \in Int /\ Begin <= now
  /\ IsWindow =>
       /\ answer.text.kind # "illegal"
       /\ answer.at \in Int /\ Begin <= answer.at /\ answer.at <= now
       /\ answer.result.start \in Int /\ Whole(answer.result.start)
       /\ answer.result.end \in Int /\ Whole(answer.result.end)
       /\ Means(answer.text, answer.at, answer.result)

LEMMA ClockInit == Init => ClockInv
BY WindowAssumption DEF Init, WindowInit, ClockInv, IsWindow, Answered

LEMMA ClockKept ==
  ASSUME ClockInv, UNCHANGED <<zone, answer>>, now' \in Int, now <= now'
  PROVE  ClockInv'
<1>1. zone' \in Zones /\ now' \in Int /\ Begin <= now'
  BY WindowAssumption DEF ClockInv
<1>2. ASSUME IsWindow' PROVE /\ IsWindow /\ answer.at <= now'
  BY <1>2, WindowAssumption DEF ClockInv, IsWindow, Answered
<1>3. QED
  BY <1>1, <1>2
     DEF ClockInv, IsWindow, Answered, Means, At, LocalDay, LastFirst, Whole

LEMMA ClockStep == ClockInv /\ [Next]_vars => ClockInv'
<1> SUFFICES ASSUME ClockInv, [Next]_vars PROVE ClockInv'
  OBVIOUS
<1>1. CASE Pass
  <2>1. zone' = zone /\ now' = now + Tick /\ now' \in Int /\ now <= now'
    BY <1>1, WindowAssumption DEF Pass, ClockInv
  <2>2. CASE answer' = answer
    BY <2>1, <2>2, ClockKept
  <2>3. CASE answer' = Nothing
    BY <2>1, <2>3, WindowAssumption DEF ClockInv, IsWindow, Answered
  <2>4. QED
    BY <1>1, <2>2, <2>3 DEF Pass
<1>2. ASSUME NEW w \in Windows, ParseWindow(w) PROVE ClockInv'
  <2>1. /\ UNCHANGED <<now, zone>> /\ zone \in Zones /\ now \in Int /\ Begin <= now
        /\ answer' = [text |-> w, at |-> now,
                      result |-> IF w.kind = "illegal" THEN Refused ELSE Parsed(w)]
    BY <1>2 DEF ParseWindow, Answer, ClockInv
  <2>2. CASE w.kind = "illegal"
    BY <2>1, <2>2 DEF ClockInv, IsWindow, Answered
  <2>3. CASE w.kind # "illegal"
    <3>1. /\ Parsed(w).start \in Int /\ Parsed(w).end \in Int
          /\ Whole(Parsed(w).start) /\ Whole(Parsed(w).end)
          /\ Means(w, now, Parsed(w))
      BY <2>1, <2>3, ParsedMeans
    <3>2. answer'.text = w /\ answer'.at = now /\ answer'.result = Parsed(w)
      BY <2>1, <2>3
    <3>3. Means(w, now, Parsed(w)) => Means(answer.text, answer.at, answer.result)'
      BY <2>1, <3>2 DEF Means, At, LocalDay, LastFirst
    <3>4. /\ answer'.text.kind # "illegal"
          /\ answer'.at \in Int /\ Begin <= answer'.at /\ answer'.at <= now'
          /\ answer'.result.start \in Int /\ Whole(answer'.result.start)
          /\ answer'.result.end \in Int /\ Whole(answer'.result.end)
      BY <2>1, <2>3, <3>1, <3>2
    <3>5. QED
      BY <2>1, <3>1, <3>3, <3>4 DEF ClockInv, Whole
  <2>4. QED
    BY <2>2, <2>3
<1>3. ASSUME NEW x \in Texts, ParseStep(x) PROVE ClockInv'
  <2>1. /\ UNCHANGED <<now, zone>> /\ answer'.text = x
    BY <1>3 DEF ParseStep, Answer
  <2>2. ~IsWindow'
    BY <2>1, TextAssumption DEF IsWindow
  <2>3. QED
    BY <2>1, <2>2 DEF ClockInv
<1>4. CASE UNCHANGED windowVars
  <2>1. UNCHANGED <<zone, answer>> /\ now' = now /\ now \in Int
    BY <1>4 DEF windowVars, ClockInv
  <2>2. QED
    BY <2>1, ClockKept
<1>5. WindowNext \/ UNCHANGED windowVars
  BY DEF Next, vars, Ask, Return
<1>6. QED
  BY <1>1, <1>2, <1>3, <1>4, <1>5 DEF WindowNext

LEMMA ClockAlways == Spec => []ClockInv
BY ClockInit, ClockStep, PTL DEF Spec

-----------------------------------------------------------------------------

\* A local midnight is on the Monday its number says.
LEMMA MondayOf ==
  ASSUME zone \in Zones, NEW L \in Int
  PROVE  LET m == L - (L % 7)
         IN  /\ m \in Int /\ m <= L /\ L <= m + 6
             /\ IsMonday(At(m)) /\ IsMonday(At(m - 7))
<1> DEFINE m == L - (L % 7)
<1>1. m \in Int /\ m - 7 \in Int /\ m <= L /\ L <= m + 6 /\ m % 7 = 0 /\ (m - 7) % 7 = 0
  OBVIOUS
<1> HIDE DEF m
<1>2. IsMonday(At(m)) /\ IsMonday(At(m - 7))
  BY <1>1, DayStart DEF IsMonday
<1>3. QED
  BY <1>1, <1>2 DEF m

\* A window that has a name is the local day, week or month of that name, at any hour, in any
\* time zone of whole minutes and with any calendar (window.go:165-251).
THEOREM NamedWindowsAreLocal == Spec => []NamedIsLocal
<1>1. ClockInv => NamedIsLocal
  <2> SUFFICES ASSUME ClockInv, IsWindow PROVE NamedIsLocal
    BY DEF NamedIsLocal
  <2> DEFINE t == answer.at
             s == answer.result.start
             e == answer.result.end
             kind == answer.text.kind
             L == LocalDay(t)
             k == LastFirst(L)
             j == LastFirst(k - 1)
             m == L - (L % 7)
  <2>1. zone \in Zones /\ t \in Int /\ Begin <= t /\ Means(answer.text, t, answer.result)
    BY DEF ClockInv
  <2>2. L \in Int /\ At(L) <= t /\ t < At(L) + Day /\ Day \in Int
    BY <2>1, InLocalDay, Positive
  <2>3. /\ k \in Firsts /\ k \in Int /\ k <= L /\ \A f \in Firsts : f <= L => f <= k
        /\ j \in Firsts /\ j \in Int /\ j < k /\ \A f \in Firsts : f < k => f <= j
    BY <2>1, Calendar
  <2>4. /\ m \in Int /\ m <= L /\ L <= m + 6
        /\ IsMonday(At(m)) /\ IsMonday(At(m - 7))
    BY <2>1, <2>2, MondayOf
  <2>5. Firsts \subseteq Int
    BY CalendarAssumption
  <2> HIDE DEF t, s, e, kind
  <2>6. ASSUME kind = "today"
        PROVE  AtMidnight(s) /\ LocalDay(s) = L
    <3>1. s = At(L)
      BY <2>1, <2>6 DEF Means, Span, s, t, kind
    <3>2. AtMidnight(s) /\ LocalDay(s) = L
      BY <2>1, <2>2, <3>1, DayStart
    <3>3. QED
      BY <3>2
  <2>7. ASSUME kind = "yesterday"
        PROVE  AtMidnight(s) /\ e = s + Day /\ LocalDay(e) = L
    <3>1. s = At(L - 1) /\ e = At(L)
      BY <2>1, <2>7 DEF Means, Span, s, e, t, kind
    <3>2. AtMidnight(s) /\ LocalDay(e) = L
      BY <2>1, <2>2, <3>1, DayStart
    <3>3. e = s + Day
      <4> HIDE DEF L
      <4>1. At(L - 1) = At(L) - Day /\ At(L) \in Int
        BY <2>1, <2>2, NextDay
      <4>2. QED
        BY <2>2, <3>1, <4>1
    <3>4. QED
      BY <3>2, <3>3
  <2>8. At(m) \in Int /\ At(m) <= t /\ t < At(m) + Week /\ At(m) = At(m - 7) + Week
    <3>1. /\ At(m) \in Int /\ At(L) \in Int /\ At(m) <= At(L) /\ At(L) <= At(m + 6)
          /\ At(m + 6) = At(m) + Day * 6 /\ At(m - 7) = At(m) - Day * 7
      <4>1. m + 6 \in Int /\ 6 \in Int /\ 7 \in Int
        BY <2>4
      <4>2. At(m + 6) = At(m) + Day * 6 /\ At(m - 7) = At(m) - Day * 7
        BY <2>1, <2>4, <4>1, DayOrder
      <4>3. At(m) \in Int /\ At(L) \in Int /\ At(m) <= At(L)
        BY <2>1, <2>2, <2>4, DayOrder
      <4>4. At(L) <= At(m + 6)
        BY <2>1, <2>2, <2>4, <4>1, DayOrder
      <4>5. QED
        BY <4>2, <4>3, <4>4
    <3>2. QED
      BY <2>1, <2>2, <3>1, Units
  <2>9. ASSUME kind = "week"
        PROVE  IsMonday(s) /\ s <= t /\ t < s + Week
    <3>1. s = At(m)
      BY <2>1, <2>9 DEF Means, Span, s, t, kind
    <3>2. IsMonday(s) /\ s <= t /\ t < s + Week
      BY <2>4, <2>8, <3>1
    <3>3. QED
      BY <3>2
  <2>10. ASSUME kind = "lastweek"
        PROVE  IsMonday(s) /\ e = s + Week /\ e <= t /\ t < e + Week
    <3>1. s = At(m - 7) /\ e = At(m)
      BY <2>1, <2>10 DEF Means, Span, s, e, t, kind
    <3>2. IsMonday(s) /\ e = s + Week /\ e <= t /\ t < e + Week
      BY <2>4, <2>8, <3>1
    <3>3. QED
      BY <3>2
  <2>11. /\ IsFirst(At(k)) /\ At(k) <= t /\ NoFirstBetween(At(k), t) /\ At(k) \in Int
         /\ IsFirst(At(j)) /\ At(j) < At(k) /\ NoFirstBetween(At(j), At(k) - Day)
    <3>1. /\ IsFirst(At(k)) /\ LocalDay(At(k)) = k /\ At(k) \in Int
          /\ IsFirst(At(j)) /\ LocalDay(At(j)) = j /\ At(j) \in Int
      BY <2>1, <2>3, DayStart DEF IsFirst
    <3>2. At(k) <= At(L) /\ At(j) + Day <= At(k) /\ At(L) \in Int
      BY <2>1, <2>2, <2>3, DayOrder
    <3>3. At(k) - Day = At(k - 1) /\ LocalDay(At(k - 1)) = k - 1
      <4>1. At(k - 1) = At(k) - Day * 1
        BY <2>1, <2>3, DayOrder
      <4>2. k - 1 \in Int
        BY <2>3
      <4>3. QED
        BY <2>1, <2>2, <4>1, <4>2, DayStart
    <3>4. NoFirstBetween(At(k), t)
      BY <2>2, <2>3, <2>5, <3>1 DEF NoFirstBetween
    <3>5. NoFirstBetween(At(j), At(k) - Day)
      BY <2>3, <2>5, <3>1, <3>3 DEF NoFirstBetween
    <3>6. QED
      BY <2>1, <2>2, <3>1, <3>2, <3>4, <3>5, Positive
  <2>12. ASSUME kind = "month"
        PROVE  IsFirst(s) /\ s <= t /\ NoFirstBetween(s, t)
    <3>1. s = At(k)
      BY <2>1, <2>12 DEF Means, Span, s, t, kind
    <3>2. IsFirst(s) /\ s <= t /\ NoFirstBetween(s, t)
      BY <2>11, <3>1
    <3>3. QED
      BY <3>2
  <2>13. ASSUME kind = "lastmonth"
        PROVE  /\ IsFirst(s) /\ IsFirst(e) /\ s < e /\ e <= t
                  /\ NoFirstBetween(s, e - Day) /\ NoFirstBetween(e, t)
    <3>1. s = At(j) /\ e = At(k)
      BY <2>1, <2>13 DEF Means, Span, s, e, t, kind
    <3>2. /\ IsFirst(s) /\ IsFirst(e) /\ s < e /\ e <= t
          /\ NoFirstBetween(s, e - Day) /\ NoFirstBetween(e, t)
      BY <2>11, <3>1
    <3>3. QED
      BY <3>2
  <2>14. QED
    BY <2>6, <2>7, <2>9, <2>10, <2>12, <2>13 DEF NamedIsLocal, s, e, t, kind
<1>2. QED
  BY <1>1, ClockAlways, PTL

-----------------------------------------------------------------------------

\* An instant is in the day that has begun and not ended, and so is its whole second.
LEMMA SameDay ==
  ASSUME zone \in Zones, NEW t \in Int
  PROVE  LocalDay(Truncate(t, Second)) = LocalDay(t)
<1> DEFINE L == LocalDay(t)
           u == Truncate(t, Second)
<1>1. L \in Int /\ At(L) \in Int /\ At(L) <= t /\ t < At(L) + Day /\ zone \in Int
  BY InLocalDay, DayStart, ZoneMinutes
<1>2. u \in Int /\ u <= t /\ At(L) <= u
  <2>1. u \in Int /\ u <= t
    BY Truncated, Positive
  <2>2. Truncate(At(L), Second) = At(L)
    BY <1>1, WholeDays
  <2>3. Truncate(At(L), Second) <= u
    BY <1>1, TruncateOrder
  <2>4. QED
    BY <2>1, <2>2, <2>3
<1> HIDE DEF L, u
<1>3. /\ Day * L <= u + zone /\ u + zone < Day * L + Day /\ u + zone \in Int /\ Day \in Int
      /\ Day * L \in Int
  BY <1>1, <1>2, Positive DEF At
<1>4. (u + zone) \div Day = L
  BY <1>1, <1>3, Positive, Quotient
<1>5. QED
  BY <1>4 DEF LocalDay, L, u

\* What the code makes of the past days is today up to now and the local days before it, from
\* midnight, however many fit in int64 (window.go:277-281).
THEOREM PastDays == Spec => []PastDaysAreLocal
<1>1. ClockInv => PastDaysAreLocal
  <2> DEFINE w == answer.text
             t == answer.at
             length == w.num * Unit[w.unit]
             s == answer.result.start
             e == answer.result.end
             L == LocalDay(t)
  <2> SUFFICES ASSUME ClockInv, IsWindow, w.kind = "past", w.unit \in {"d", "w"},
                      length > 0, Fits(w)
               PROVE  /\ AtMidnight(s)
                      /\ (LocalDay(e) - LocalDay(s) + 1) * Day = length
                      /\ e <= t /\ t < e + Second
    BY DEF PastDaysAreLocal
  <2>1. zone \in Zones /\ t \in Int /\ Begin <= t /\ Means(w, t, answer.result) /\ w \in Windows
    BY DEF ClockInv, IsWindow
  <2>2. w.num \in Nat /\ w.unit \in DOMAIN Unit
    BY <2>1, TextAssumption
  <2>3. PICK c \in Nat : length = Day * c
    BY <2>2, Lengths
  <2>4. s = At(L + 1) - length /\ e = Truncate(t, Second)
    BY <2>1 DEF Means
  <2>5. L \in Int /\ L + 1 \in Int
    BY <2>1, InLocalDay
  <2> HIDE DEF w, t, length, s, e, L
  <2>6. At((L + 1) - c) = At(L + 1) - Day * c /\ (L + 1) - c \in Int
    BY <2>1, <2>5, DayOrder
  <2>7. AtMidnight(s) /\ LocalDay(s) = (L + 1) - c
    BY <2>1, <2>3, <2>4, <2>6, DayStart
  <2>8. LocalDay(e) = L
    BY <2>1, <2>4, SameDay DEF L
  <2>9. (L - ((L + 1) - c) + 1) * Day = Day * c
    BY <2>5, Positive
  <2>10. e <= t /\ t < e + Second
    BY <2>1, <2>4, Truncated, Positive
  <2>11. QED
    BY <2>3, <2>7, <2>8, <2>9, <2>10
<1>2. QED
  BY <1>1, ClockAlways, PTL

-----------------------------------------------------------------------------

\* The meaning of a window whose numbers fit does not move back as time passes.
LEMMA MeansOrder ==
  ASSUME zone \in Zones, NEW w \in Windows, w.kind # "illegal", Fits(w),
         NEW t \in Int, NEW u \in Int, Begin <= t, t <= u, NEW r, NEW q,
         Means(w, t, r), Means(w, u, q)
  PROVE  r.start <= q.start /\ r.end <= q.end
<1> DEFINE L == LocalDay(t)
           k == LastFirst(L)
           j == LastFirst(k - 1)
           m == L - (L % 7)
           now1 == Truncate(t, Second)
           length == w.num * Unit[w.unit]
           before == w.num2 * OffsetUnit[w.unit2]
           L2 == LocalDay(u)
           k2 == LastFirst(L2)
           j2 == LastFirst(k2 - 1)
           m2 == L2 - (L2 % 7)
           now2 == Truncate(u, Second)
<1>1. L \in Int /\ L2 \in Int /\ L <= L2 /\ Begin <= u
  BY InLocalDay, LaterDay, WindowAssumption
<1>2. now1 \in Int /\ now2 \in Int /\ now1 <= now2
  BY Truncated, Positive, TruncateOrder
<1>3. /\ k \in Firsts /\ k \in Int /\ k <= L
      /\ j \in Firsts /\ j \in Int /\ j < k
  BY Calendar
<1>4. /\ k2 \in Int /\ \A f \in Firsts : f <= L2 => f <= k2
      /\ j2 \in Int /\ \A f \in Firsts : f < k2 => f <= j2
  BY <1>1, Calendar
<1>5. m \in Int /\ m2 \in Int /\ m <= m2
  BY <1>1
<1>6. w.kind \in NamedKinds \cup {"past", "pastBefore", "between"}
  BY TextAssumption DEF NamedKinds
<1>7. /\ w.kind = "today" => r = Span(At(L), now1) /\ q = Span(At(L2), now2)
      /\ w.kind = "yesterday" => r = Span(At(L - 1), At(L)) /\ q = Span(At(L2 - 1), At(L2))
      /\ w.kind = "week" => r = Span(At(m), now1) /\ q = Span(At(m2), now2)
      /\ w.kind = "lastweek" => r = Span(At(m - 7), At(m)) /\ q = Span(At(m2 - 7), At(m2))
      /\ w.kind = "month" => r = Span(At(k), now1) /\ q = Span(At(k2), now2)
      /\ w.kind = "lastmonth" => r = Span(At(j), At(k)) /\ q = Span(At(j2), At(k2))
      /\ w.kind = "past" =>
           /\ r.end = now1 /\ q.end = now2
           /\ w.unit \in {"d", "w"} => r.start = At(L + 1) - length /\ q.start = At(L2 + 1) - length
           /\ w.unit \in {"m", "h"} => r.start = now1 - length /\ q.start = now2 - length
      /\ w.kind = "pastBefore" => /\ r = Span(now1 - before - length, now1 - before)
                                  /\ q = Span(now2 - before - length, now2 - before)
      /\ w.kind = "between" => r = Between(w) /\ q = Between(w)
  BY DEF Means
<1> HIDE DEF L, L2, k, k2, m, m2, j, j2, now1, now2, length, before
<1>8. k <= k2 /\ j <= j2
  <2>1. k <= L2
    BY <1>1, <1>3
  <2>2. k <= k2
    BY <1>3, <1>4, <2>1
  <2>3. j < k2
    BY <1>3, <1>4, <2>2
  <2>4. QED
    BY <1>3, <1>4, <2>2, <2>3
<1>9. At(L) <= At(L2) /\ At(m) <= At(m2) /\ At(k) <= At(k2) /\ At(j) <= At(j2)
  BY <1>1, <1>3, <1>4, <1>5, <1>8, DayOrder
<1>10. /\ At(L - 1) <= At(L2 - 1) /\ At(L + 1) <= At(L2 + 1) /\ At(m - 7) <= At(m2 - 7)
       /\ At(L + 1) \in Int /\ At(L2 + 1) \in Int
  <2>1. /\ L - 1 \in Int /\ L2 - 1 \in Int /\ L - 1 <= L2 - 1
        /\ L + 1 \in Int /\ L2 + 1 \in Int /\ L + 1 <= L2 + 1
        /\ m - 7 \in Int /\ m2 - 7 \in Int /\ m - 7 <= m2 - 7
    BY <1>1, <1>5
  <2>2. QED
    BY <2>1, DayOrder
<1>11. CASE w.kind \in NamedKinds
  BY <1>2, <1>7, <1>9, <1>10, <1>11 DEF NamedKinds, Span
<1>12. CASE w.kind = "past"
  <2>1. length \in Nat /\ w.unit \in {"m", "h", "d", "w"}
    <3>1. w.num \in Nat /\ w.unit \in DOMAIN Unit
      BY <1>12, TextAssumption
    <3>2. length \in Nat
      BY <3>1, Lengths DEF length
    <3>3. QED
      BY <3>1, <3>2 DEF Unit
  <2>2. QED
    BY <1>2, <1>7, <1>10, <1>12, <2>1
<1>13. CASE w.kind = "pastBefore"
  <2>1. length \in Nat /\ before \in Nat
    <3>1. w.num \in Nat /\ w.unit \in DOMAIN Unit /\ w.num2 \in Nat /\ w.unit2 \in DOMAIN Unit
      BY <1>13, TextAssumption
    <3>2. QED
      BY <3>1, Lengths DEF length, before
  <2>2. QED
    BY <1>2, <1>7, <1>13, <2>1 DEF Span
<1>14. CASE w.kind = "between"
  <2>1. w.num * Second \in Int /\ w.num2 * Second \in Int
    BY <1>14, TextAssumption, Positive
  <2>2. QED
    BY <1>7, <1>14, <2>1 DEF Between, Span
<1>15. QED
  BY <1>6, <1>11, <1>12, <1>13, <1>14

\* Who asks for the same window later is not shown an earlier one, whatever was asked and
\* however long it took in between (window.go:165-299).
THEOREM WindowsMoveOn == Spec => NeverEarlier
<1> DEFINE Forward == IsWindow /\ IsWindow' /\ answer'.text = answer.text /\ Fits(answer.text)
                        => /\ answer'.result.start >= answer.result.start
                           /\ answer'.result.end >= answer.result.end
<1>1. ClockInv /\ ClockInv' /\ [Next]_vars => [Forward]_windowVars
  <2> SUFFICES ASSUME ClockInv, ClockInv', [Next]_vars, ~UNCHANGED windowVars,
                      IsWindow, IsWindow', answer'.text = answer.text, Fits(answer.text)
               PROVE  /\ answer'.result.start >= answer.result.start
                      /\ answer'.result.end >= answer.result.end
    OBVIOUS
  <2>1. WindowNext
    BY DEF Next, vars, Ask, Return
  <2>2. /\ zone \in Zones /\ answer.text \in Windows /\ answer.text.kind # "illegal"
        /\ answer.at \in Int /\ Begin <= answer.at /\ answer.at <= now /\ now \in Int
        /\ answer.result.start \in Int /\ answer.result.end \in Int
        /\ Means(answer.text, answer.at, answer.result)
    BY DEF ClockInv, IsWindow
  <2>3. CASE Pass
    <3>1. answer' = answer
      BY <2>3 DEF Pass, IsWindow, Answered
    <3>2. QED
      BY <2>2, <3>1
  <2>4. ASSUME NEW w \in Windows, ParseWindow(w)
        PROVE  /\ answer'.result.start >= answer.result.start
               /\ answer'.result.end >= answer.result.end
    <3>1. /\ zone' = zone /\ answer'.at = now
          /\ answer'.result.start \in Int /\ answer'.result.end \in Int
          /\ Means(answer.text, answer.at, answer.result)'
      BY <2>4 DEF ParseWindow, Answer, ClockInv
    <3>2. Means(answer.text, now, answer'.result)
      BY <3>1 DEF Means, At, LocalDay, LastFirst
    <3>3. answer.result.start <= answer'.result.start /\ answer.result.end <= answer'.result.end
      BY <2>2, <3>2, MeansOrder
    <3>4. QED
      BY <2>2, <3>1, <3>3
  <2>5. ASSUME NEW x \in Texts, ParseStep(x) PROVE FALSE
    <3>1. answer'.text = x
      BY <2>5 DEF ParseStep, Answer
    <3>2. QED
      BY <3>1, TextAssumption DEF IsWindow
  <2>6. QED
    BY <2>1, <2>3, <2>4, <2>5 DEF WindowNext
<1>2. QED
  BY <1>1, ClockAlways, PTL DEF Spec, NeverEarlier

-----------------------------------------------------------------------------

\* A query that was made is that of the window that was answered last, and is not empty.
QueryInv ==
  query # Nothing =>
    /\ IsWindow
    /\ answer.result.start < answer.result.end
    /\ query.metric \in Metric /\ query.at \in Int
    /\ query = Query(query.metric, query.filter, query.resolution, query.at)

LEMMA QueryInit == Init => QueryInv
BY DEF Init, QueryInv

LEMMA AskStep ==
  ASSUME ClockInv, NEW metric \in Metric, NEW filter, NEW resolution, NEW lag \in Nat,
         Ask(metric, filter, resolution, lag)
  PROVE  QueryInv'
<1>1. /\ UNCHANGED <<now, zone, answer>> /\ IsWindow
      /\ answer.result.start < answer.result.end
      /\ query' = Query(metric, filter, resolution, now + lag)
      /\ now + lag \in Int
  BY DEF Ask, windowVars, ClockInv
<1>2. /\ query'.metric = metric /\ query'.filter = filter /\ query'.resolution = resolution
      /\ query'.at = now + lag
  BY <1>1 DEF Query
<1>3. query' = Query(query'.metric, query'.filter, query'.resolution, query'.at)
  BY <1>1, <1>2
<1>4. Query(query'.metric, query'.filter, query'.resolution, query'.at)
        = Query(query.metric, query.filter, query.resolution, query.at)'
  BY <1>1 DEF Query, WallClock, GetUTCTime, HourOffset, MinuteOfDay
<1>5. IsWindow'
  BY <1>1 DEF IsWindow, Answered
<1>6. QED
  BY <1>1, <1>2, <1>3, <1>4, <1>5 DEF QueryInv

LEMMA QueryStep == ClockInv /\ QueryInv /\ [Next]_vars => QueryInv'
<1> SUFFICES ASSUME ClockInv, QueryInv, [Next]_vars PROVE QueryInv'
  OBVIOUS
<1>1. CASE query = Nothing /\ WindowNext /\ UNCHANGED query
  BY <1>1 DEF QueryInv
<1>2. ASSUME NEW metric \in Metric, NEW lag \in Lags, Ask(metric, <<>>, Nothing, lag)
      PROVE  QueryInv'
  BY <1>2, QueryAssumption, AskStep
<1>3. ASSUME NEW metric \in Metric, NEW filter \in Filters, Ask(metric, filter, Nothing, 0)
      PROVE  QueryInv'
  BY <1>3, AskStep
<1>4. ASSUME NEW metric \in Metric, NEW resolution \in Resolutions,
             Ask(metric, <<>>, resolution, 0)
      PROVE  QueryInv'
  BY <1>4, AskStep
<1>5. CASE Return
  BY <1>5 DEF Return, QueryInv
<1>6. CASE UNCHANGED vars
  <2>1. UNCHANGED <<now, zone, answer, query>>
    BY <1>6 DEF vars, windowVars
  <2>2. Query(query.metric, query.filter, query.resolution, query.at)
          = Query(query.metric, query.filter, query.resolution, query.at)'
    BY <2>1 DEF Query, WallClock, GetUTCTime, HourOffset, MinuteOfDay
  <2>3. IsWindow => IsWindow'
    BY <2>1 DEF IsWindow, Answered
  <2>4. QED
    BY <2>1, <2>2, <2>3 DEF QueryInv
<1>7. QED
  BY <1>1, <1>2, <1>3, <1>4, <1>5, <1>6 DEF Next

LEMMA QueryAlways == Spec => [](ClockInv /\ QueryInv)
BY ClockInit, ClockStep, QueryInit, QueryStep, PTL DEF Spec

-----------------------------------------------------------------------------

\* Counting whole minutes and then hours is counting hours.
LEMMA HoursOfMinutes ==
  ASSUME NEW a \in Int
  PROVE  (a \div Minute) \div 60 = a \div Hour
<1> DEFINE q == a \div Minute
           p == q \div 60
<1>1. q \in Int /\ Minute * q <= a /\ a < Minute * q + Minute
  BY Positive, DivMod
<1> HIDE DEF q
<1>2. p \in Int /\ 60 * p <= q /\ q <= 60 * p + 59
  BY <1>1
<1> HIDE DEF p
<1>3. Minute * (60 * p) <= Minute * q /\ Minute * q <= Minute * (60 * p + 59)
  BY <1>1, <1>2, Positive
<1>4. Hour * p = Minute * (60 * p) /\ Hour * p + Hour = Minute * (60 * p + 59) + Minute
  BY <1>2, Units
<1>5. /\ Hour * p \in Int /\ Minute * q \in Int /\ Minute * (60 * p + 59) \in Int
      /\ Hour \in Int /\ Minute \in Int
  BY <1>1, <1>2, Positive
<1>6. Hour * p <= a /\ a < Hour * p + Hour
  BY <1>1, <1>3, <1>4, <1>5
<1>7. a \div Hour = p
  BY <1>2, <1>6, Positive, Quotient
<1>8. QED
  BY <1>7 DEF p, q

LEMMA HourOffsetType ==
  ASSUME zone \in Zones, NEW t \in Int
  PROVE  HourOffset(t) \in Int
<1>1. t % Day \in Int /\ (t + zone) % Day \in Int
  BY ZoneMinutes, Positive, DivMod
<1>2. MinuteOfDay(t) \in Int /\ MinuteOfDay(t + zone) \in Int
  BY <1>1, Positive, DivMod DEF MinuteOfDay
<1>3. QED
  BY <1>2, Positive DEF HourOffset

LEMMA DayShift ==
  ASSUME NEW t \in Int
  PROVE  (t + Day) \div Day = t \div Day + 1 /\ (t - Day) \div Day = t \div Day - 1
<1> DEFINE p == t \div Day
           u == t + Day
           v == t - Day
<1>1. p \in Int /\ Day * p <= t /\ t < Day * p + Day
  BY Positive, DivMod
<1> HIDE DEF p
<1>2. /\ Day * (p + 1) <= u /\ u < Day * (p + 1) + Day /\ u \in Int /\ p + 1 \in Int
      /\ Day * (p - 1) <= v /\ v < Day * (p - 1) + Day /\ v \in Int /\ p - 1 \in Int
  BY <1>1, Positive
<1> HIDE DEF u, v
<1>3. u \div Day = p + 1 /\ v \div Day = p - 1
  BY <1>2, Positive, Quotient
<1>4. QED
  BY <1>3 DEF p, u, v

\* In a zone of whole hours the hours of the two clocks differ by the zone, but for a day if
\* they show two dates.
LEMMA HourOffsetIs ==
  ASSUME zone \in Zones, zone % Hour = 0, NEW t \in Int
  PROVE  /\ LocalDay(t) \in Int /\ t \div Day \in Int
         /\ HourOffset(t) = Day * (LocalDay(t) - t \div Day) - zone
         /\ LocalDay(t) - t \div Day \in {-1, 0, 1}
<1> DEFINE p == t \div Day
           q == LocalDay(t)
           a == t % Day
           b == (t + zone) % Day
<1>1. zone \in Int /\ -Day <= zone /\ zone <= Day /\ t + zone \in Int
  BY ZoneMinutes
<1>2. PICK c \in Int : zone = Hour * c
  <2>1. zone \div Hour \in Int /\ zone = Hour * (zone \div Hour) + (zone % Hour)
    BY <1>1, Positive, DivMod
  <2>2. zone = Hour * (zone \div Hour)
    BY <1>1, <2>1, Positive
  <2>3. QED
    BY <2>1, <2>2
<1>3. p \in Int /\ a \in Int /\ t = Day * p + a
  BY Positive, DivMod
<1>4. q \in Int /\ b \in Int /\ t + zone = Day * q + b
  BY <1>1, Positive, DivMod DEF LocalDay
<1>5. q - p \in {-1, 0, 1}
  <2>1. (t + Day) \div Day = p + 1 /\ (t - Day) \div Day = p - 1
    BY DayShift
  <2>2. t + Day \in Int /\ t - Day \in Int
    BY Positive
  <2>3. q <= p + 1
    <3>1. (t + zone) \div Day <= (t + Day) \div Day
      BY <1>1, <2>2, Positive, DivOrder
    <3>2. QED
      BY <2>1, <2>2, <3>1 DEF LocalDay
  <2>4. p - 1 <= q
    <3>1. (t - Day) \div Day <= (t + zone) \div Day
      BY <1>1, <2>2, Positive, DivOrder
    <3>2. QED
      BY <1>3, <2>1, <2>2, <3>1 DEF LocalDay
  <2> HIDE DEF p, q
  <2>5. QED
    BY <1>3, <1>4, <2>3, <2>4
<1>6. HourOffset(t) = (a \div Hour - b \div Hour) * Hour
  BY <1>3, <1>4, HoursOfMinutes DEF HourOffset, MinuteOfDay
<1> HIDE DEF p, q, a, b
<1>7. PICK e \in Int : b = a + Hour * e
  <2>1. b = a + Hour * (c + 24 * p - 24 * q)
    BY <1>1, <1>2, <1>3, <1>4, Positive, Units, SameSeconds
  <2>2. c + 24 * p - 24 * q \in Int
    BY <1>3, <1>4
  <2>3. QED
    BY <2>1, <2>2
<1>8. (a \div Hour - b \div Hour) * Hour = a - b
  <2>1. \E k \in Int : b = a + Hour * k
    BY <1>7
  <2>2. Hour \in Nat \ {0} /\ a \in Int /\ b \in Int
    BY <1>3, <1>4, Positive
  <2>3. QED
    BY <2>1, <2>2, Clocks, Zenon
<1>9. a - b = Day * (q - p) - zone
  <2>1. Day * (q - p) = Day * q - Day * p /\ Day * q \in Int /\ Day * p \in Int
    BY <1>3, <1>4, Positive
  <2>2. QED
    BY <1>1, <1>3, <1>4, <2>1
<1>10. QED
  BY <1>3, <1>4, <1>5, <1>6, <1>8, <1>9 DEF p, q

\* The fields of a query, in terms of the window: length is that of the window, whatever the
\* time zone.
LEMMA QueryFields ==
  ASSUME ClockInv, QueryInv, IsAsked
  PROVE  LET w == answer.text
             e == answer.result.end
             d == WallClock(w, e) - WallClock(w, answer.result.start)
         IN  /\ zone \in Zones /\ zone \in Int /\ query.at \in Int
             /\ answer.result.start \in Int /\ e \in Int /\ answer.result.start < e
             /\ Whole(answer.result.start) /\ Whole(e)
             /\ d = e - answer.result.start
             /\ query.instant = Told(query.metric, WallClock(w, e)) + HourOffset(query.at)
             /\ query.range = (d \div DurationUnit(d)) * DurationUnit(d)
             /\ query.step = StepOf(d, query.resolution)
<1>1. /\ answer.result.start \in Int /\ answer.result.end \in Int
      /\ Whole(answer.result.start) /\ Whole(answer.result.end)
      /\ answer.result.start < answer.result.end /\ query.at \in Int
      /\ query = Query(query.metric, query.filter, query.resolution, query.at)
      /\ zone \in Zones /\ zone \in Int
  BY ZoneMinutes DEF ClockInv, QueryInv, IsAsked
<1>2. WallClock(answer.text, answer.result.end) - WallClock(answer.text, answer.result.start)
        = answer.result.end - answer.result.start
  BY <1>1 DEF WallClock
<1>3. \A m, f, r, t :
        LET end == WallClock(answer.text, answer.result.end)
            d == end - WallClock(answer.text, answer.result.start)
        IN  /\ Query(m, f, r, t).instant = Told(m, end) + HourOffset(t)
            /\ Query(m, f, r, t).range = (d \div DurationUnit(d)) * DurationUnit(d)
            /\ Query(m, f, r, t).step = StepOf(d, r)
  BY DEF Query, GetUTCTime
<1>4. QED
  BY <1>1, <1>2, <1>3

LEMMA RightAtOnce == ClockInv /\ QueryInv => RightWhileDatesAgree
<1> SUFFICES ASSUME ClockInv, QueryInv, IsAsked, HoursSuffice
             PROVE  /\ query.instant - End \in {-Day, 0, Day}
                    /\ SameDate(query.at) => query.instant = End
  BY DEF RightWhileDatesAgree
<1> DEFINE e == answer.result.end
           n == LocalDay(query.at) - query.at \div Day
<1>1. /\ zone \in Zones /\ zone \in Int /\ query.at \in Int /\ e \in Int
      /\ query.instant = Told(query.metric, WallClock(answer.text, e)) + HourOffset(query.at)
  BY QueryFields
<1>2. /\ LocalDay(query.at) \in Int /\ query.at \div Day \in Int
      /\ n \in {-1, 0, 1} /\ HourOffset(query.at) = Day * n - zone
  BY <1>1, HourOffsetIs DEF HoursSuffice
<1>3. SameDate(query.at) => n = 0
  BY <1>2 DEF SameDate
<1>4. WallClock(answer.text, e) = e + zone
  BY DEF WallClock, HoursSuffice
<1>5. Told(query.metric, e + zone) = End + zone /\ End \in Int
  BY <1>1, <1>4, Positive DEF Told, End
<1> HIDE DEF e, n
<1>6. query.instant = (End + zone) + (Day * n - zone)
  BY <1>1, <1>2, <1>4, <1>5
<1>7. Day * n \in {-Day, 0, Day} /\ (n = 0 => Day * n = 0)
  BY <1>2, Positive
<1>8. query.instant - End = Day * n /\ (Day * n = 0 => query.instant = End)
  BY <1>1, <1>5, <1>6, <1>7, Positive
<1>9. QED
  BY <1>3, <1>7, <1>8

\* While the two clocks show the same date, a query is evaluated at the end of its window;
\* otherwise it is off by a day, never by less, and never by more (timeutil.go:84-88).
THEOREM OnlyDaysAreLost == Spec => []RightWhileDatesAgree
BY RightAtOnce, QueryAlways, PTL

-----------------------------------------------------------------------------

\* A multiple of a unit leaves nothing, and what leaves nothing is one.
LEMMA Multiple ==
  ASSUME NEW a \in Int, NEW b \in Nat \ {0}
  PROVE  (a % b = 0) <=> \E k \in Int : a = b * k
<1>1. ASSUME NEW k \in Int, a = b * k PROVE a % b = 0
  <2>1. b * k <= a /\ a < b * k + b
    BY <1>1
  <2>2. a % b = a - b * k
    BY <2>1, Quotient
  <2>3. QED
    BY <1>1, <2>2
<1>2. ASSUME a % b = 0 PROVE a = b * (a \div b) /\ a \div b \in Int
  <2> DEFINE q == a \div b
             r == a % b
  <2>1. q \in Int /\ r \in Int /\ a = b * q + r
    BY DivMod
  <2>2. r = 0
    BY <1>2
  <2> HIDE DEF q, r
  <2>3. a = b * q
    BY <2>1, <2>2
  <2>4. QED
    BY <2>1, <2>3 DEF q
<1>3. QED
  BY <1>1, <1>2

\* The unit in which a range is written divides it: nothing is lost.
LEMMA RangeIsWhole ==
  ASSUME NEW d \in Int, Whole(d)
  PROVE  (d \div DurationUnit(d)) * DurationUnit(d) = d
<1> DEFINE u == DurationUnit(d)
<1>1. d % Second = 0
  BY Positive, Multiple DEF Whole
<1>2. u \in Nat \ {0} /\ d % u = 0
  BY <1>1, Positive DEF DurationUnit
<1> HIDE DEF u
<1> DEFINE q == d \div u
           r == d % u
<1>3. q \in Int /\ r \in Int /\ d = u * q + r /\ r = 0
  BY <1>2, DivMod
<1> HIDE DEF q, r
<1>4. q * u = d
  BY <1>2, <1>3
<1>5. QED
  BY <1>4 DEF q, u

\* Of whole seconds, a multiple of a minute is never a second past a multiple of a day, so that
\* a second earlier no further midnight is reached; and a second before an instant that is no
\* midnight, none is missed.
LEMMA SecondPast ==
  ASSUME NEW x \in Int, \E c \in Int : x = Minute * c
  PROVE  (-(x - Second)) \div Day = (-x) \div Day
<1>1. PICK c \in Int : x = Minute * c
  OBVIOUS
<1> DEFINE y == -x
           p == y \div Day
           m == -c - 1440 * p
<1>2. y \in Int /\ p \in Int /\ Day * p <= y /\ y < Day * p + Day
  BY Positive, DivMod
<1> HIDE DEF p
<1>3. m \in Int /\ y = Day * p + Minute * m
  BY <1>1, <1>2, Units
<1> HIDE DEF m, y
<1>4. /\ Minute * m < Day /\ Day = Minute * 1440 /\ Second < Minute
      /\ Second \in Int /\ Minute \in Int /\ Minute > 0 /\ Day \in Int
      /\ Minute * m \in Int /\ Day * p \in Int
  BY <1>2, <1>3, Units
<1>5. m <= 1439
  <2> SUFFICES ASSUME m >= 1440 PROVE FALSE
    BY <1>3
  <2>1. Minute * m >= Minute * 1440
    BY <1>3, <1>4
  <2>2. QED
    BY <1>4, <2>1
<1>6. Minute * m <= Minute * 1439 /\ Minute * 1439 + Minute = Minute * 1440
  BY <1>3, <1>4, <1>5
<1>7. y + Second < Day * p + Day
  BY <1>2, <1>3, <1>4, <1>6
<1>8. Day * p <= y + Second /\ y + Second \in Int
  BY <1>2, <1>4, Positive
<1>9. (y + Second) \div Day = p
  BY <1>2, <1>7, <1>8, Positive, Quotient
<1>10. -(x - Second) = y + Second
  BY <1>4 DEF y
<1>11. QED
  BY <1>9, <1>10 DEF p, y

LEMMA SecondBefore ==
  ASSUME NEW x \in Int, Whole(x), x % Day # 0
  PROVE  (x - Second) \div Day = x \div Day
<1> DEFINE q == x \div Day
           r == x % Day
<1>1. q \in Int /\ r \in Int /\ x = Day * q + r /\ 0 <= r /\ r < Day /\ r # 0
  BY Positive, DivMod
<1>2. PICK k \in Int : x = Second * k
  BY DEF Whole
<1> HIDE DEF q, r
<1>3. Day * q = Second * (86400 * q) /\ Second * (k - 86400 * q) = Second * k - Second * (86400 * q)
  BY <1>1, Units
<1>4. r = Second * (k - 86400 * q) /\ k - 86400 * q \in Int
  <2>1. Second * k \in Int /\ Second * (86400 * q) \in Int
    BY <1>1, Positive
  <2>2. QED
    BY <1>1, <1>2, <1>3, <2>1
<1>5. r >= Second
  <2> DEFINE m == k - 86400 * q
  <2>1. m \in Int /\ r = Second * m /\ r > 0
    BY <1>1, <1>4
  <2> HIDE DEF m
  <2>2. m >= 1
    BY <2>1, Positive
  <2>3. Second * m >= Second * 1
    BY <2>1, <2>2, Positive
  <2>4. QED
    BY <2>1, <2>3, Positive
<1>6. /\ Day * q <= x - Second /\ x - Second < Day * q + Day /\ x - Second \in Int
      /\ Day * q \in Int
  BY <1>1, <1>5, Positive
<1>7. (x - Second) \div Day = q
  BY <1>1, <1>6, Positive, Quotient
<1>8. QED
  BY <1>7 DEF q

\* A local window whose numbers fit starts at midnight or minutes before its end.
LEMMA StartsByTheMinute ==
  ASSUME zone \in Zones, NEW w \in Windows, IsLocal(w), w.kind # "illegal", Fits(w),
         NEW t \in Int, Begin <= t, NEW r, Means(w, t, r)
  PROVE  (\E k \in Int : r.start = At(k)) \/ (\E c \in Int : r.start = r.end - Minute * c)
<1> DEFINE L == LocalDay(t)
           k == LastFirst(L)
           j == LastFirst(k - 1)
           m == L - (L % 7)
           second == Truncate(t, Second)
           length == w.num * Unit[w.unit]
           before == w.num2 * OffsetUnit[w.unit2]
<1>1. L \in Int /\ k \in Int /\ j \in Int /\ second \in Int
  BY Calendar, Truncated, Positive
<1>2. L - 1 \in Int /\ m \in Int /\ m - 7 \in Int /\ L + 1 \in Int
  BY <1>1
<1>3. w.kind \in NamedKinds \cup {"past", "pastBefore"}
  BY TextAssumption DEF NamedKinds, IsLocal
<1>4. /\ w.kind = "today" => r.start = At(L)
      /\ w.kind = "yesterday" => r.start = At(L - 1)
      /\ w.kind = "week" => r.start = At(m)
      /\ w.kind = "lastweek" => r.start = At(m - 7)
      /\ w.kind = "month" => r.start = At(k)
      /\ w.kind = "lastmonth" => r.start = At(j)
      /\ w.kind = "past" /\ w.unit \in {"d", "w"} => r.start = At(L + 1) - length
      /\ w.kind = "past" /\ w.unit \in {"m", "h"} => r.start = second - length /\ r.end = second
      /\ w.kind = "pastBefore" => r.start = second - before - length /\ r.end = second - before
  BY DEF Means, Span
<1> HIDE DEF L, k, j, m, second, length, before
<1>5. CASE w.kind \in NamedKinds
  BY <1>1, <1>2, <1>4, <1>5 DEF NamedKinds
<1>6. CASE w.kind = "past"
  <2>1. w.num \in Nat /\ w.unit \in DOMAIN Unit /\ w.unit \in {"m", "h", "d", "w"}
    BY <1>6, TextAssumption DEF Unit
  <2>2. CASE w.unit \in {"d", "w"}
    <3>1. PICK c \in Nat : length = Day * c
      BY <2>1, <2>2, Lengths DEF length
    <3>2. r.start = At((L + 1) - c) /\ (L + 1) - c \in Int
      <4> DEFINE n == L + 1
      <4>1. (L + 1) - c \in Int /\ At((L + 1) - c) = At(L + 1) - Day * c
        <5>1. n \in Int /\ c \in Int
          BY <1>2
        <5> HIDE DEF n
        <5>2. n - c \in Int /\ At(n - c) = At(n) - Day * c
          BY <5>1, DayOrder
        <5>3. QED
          BY <5>2 DEF n
      <4>2. r.start = At(L + 1) - Day * c
        BY <1>4, <1>6, <2>2, <3>1
      <4>3. QED
        BY <4>1, <4>2
    <3>3. QED
      BY <3>2
  <2>3. CASE w.unit \in {"m", "h"}
    <3>1. PICK c \in Nat : length = Minute * c
      BY <2>1, Lengths DEF length
    <3>2. QED
      BY <1>4, <1>6, <2>3, <3>1
  <2>4. QED
    BY <2>1, <2>2, <2>3
<1>7. CASE w.kind = "pastBefore"
  <2>1. w.num \in Nat /\ w.unit \in DOMAIN Unit
    BY <1>7, TextAssumption
  <2>2. PICK c \in Nat : length = Minute * c
    BY <2>1, Lengths DEF length
  <2>3. QED
    BY <1>4, <1>7, <2>2
<1>8. QED
  BY <1>3, <1>5, <1>6, <1>7

\* While the two clocks show the same date, the bills of a window are those of its days, each
\* in one window: that of the midnight it ends with is left to the next (cost_metrics.go:118-123).
THEOREM EveryBillOnce == Spec => []BillsCountedOnce
<1>1. ClockInv /\ QueryInv => BillsCountedOnce
  <2> DEFINE s == answer.result.start
             e == answer.result.end
  <2> SUFFICES ASSUME ClockInv, QueryInv, IsAsked, query.metric = "billing", HoursSuffice,
                      SameDate(query.at), Fits(answer.text)
               PROVE  Midnights(query.instant - query.range, query.instant)
                        = Midnights(s, e - Second)
    BY DEF BillsCountedOnce
  <2>1. /\ zone \in Zones /\ zone \in Int /\ query.at \in Int
        /\ s \in Int /\ e \in Int /\ Whole(s) /\ Whole(e)
    BY QueryFields
  <2>2. query.range = e - s
    <3> DEFINE d == e - s
    <3>1. d \in Int /\ Whole(d)
      BY <2>1, WholeSums
    <3>2. query.range = (d \div DurationUnit(d)) * DurationUnit(d)
      BY QueryFields
    <3>3. QED
      BY <3>1, <3>2, RangeIsWhole
  <2>3. query.instant = End
    BY RightAtOnce DEF RightWhileDatesAgree
  <2>4. End = IF (e + zone) % Day = 0 THEN e - Second ELSE e
    BY DEF End, WallClock, HoursSuffice
  <2>5. PICK z \in Int : zone = Minute * z
    BY <2>1, ZoneMinutes
  <2> HIDE DEF s, e
  <2>6. CASE (e + zone) % Day # 0
    <3>1. query.instant = e /\ query.instant - query.range = s
      BY <2>1, <2>2, <2>3, <2>4, <2>6
    <3>2. e + zone \in Int /\ Whole(e + zone) /\ (e - Second) + zone = (e + zone) - Second
      <4>1. Whole(zone)
        BY <2>1, <2>5, WholeUnits
      <4>2. QED
        BY <2>1, <4>1, WholeSums, Positive
    <3>3. ((e + zone) - Second) \div Day = (e + zone) \div Day
      BY <2>6, <3>2, SecondBefore
    <3>4. QED
      BY <3>1, <3>2, <3>3 DEF Midnights
  <2>7. CASE (e + zone) % Day = 0
    <3>1. query.instant = e - Second /\ query.instant - query.range = s - Second
      BY <2>1, <2>2, <2>3, <2>4, <2>7, Positive
    <3>2. \E c \in Int : s + zone = Minute * c
      <4>1. PICK p \in Int : e + zone = Day * p
        BY <2>1, <2>7, Positive, Multiple
      <4>2. \/ \E k \in Int : s = At(k)
            \/ \E c \in Int : s = e - Minute * c
        <5>1. /\ answer.text \in Windows /\ IsLocal(answer.text) /\ answer.text.kind # "illegal"
              /\ answer.at \in Int /\ Begin <= answer.at
              /\ Means(answer.text, answer.at, answer.result)
          BY DEF ClockInv, QueryInv, IsAsked, IsWindow, HoursSuffice
        <5>2. QED
          BY <2>1, <5>1, StartsByTheMinute DEF s, e
      <4>3. ASSUME NEW k \in Int, s = At(k) PROVE s + zone = Minute * (1440 * k) /\ 1440 * k \in Int
        BY <2>1, <4>3, Units DEF At
      <4>4. ASSUME NEW c \in Int, s = e - Minute * c
            PROVE  s + zone = Minute * (1440 * p - c) /\ 1440 * p - c \in Int
        <5>1. /\ Minute * (1440 * p - c) = Day * p - Minute * c
              /\ Day * p \in Int /\ Minute * c \in Int
          BY Units
        <5>2. QED
          BY <2>1, <4>1, <4>4, <5>1
      <4>5. QED
        BY <4>2, <4>3, <4>4
    <3>3. (-((s + zone) - Second)) \div Day = (-(s + zone)) \div Day
      BY <2>1, <3>2, SecondPast
    <3>4. (s - Second) + zone = (s + zone) - Second
      BY <2>1, Positive
    <3>5. QED
      BY <3>1, <3>3, <3>4 DEF Midnights
  <2>8. QED
    BY <2>6, <2>7
<1>2. QED
  BY <1>1, QueryAlways, PTL

-----------------------------------------------------------------------------

\* A resolution that was chosen for a window is positive and not longer than it.
LEMMA ResolutionFits ==
  ASSUME NEW d \in Int, Whole(d), d > 0
  PROVE  Resolution(d) \in Nat \ {0} /\ Resolution(d) <= d
<1>1. Second <= d
  <2>1. PICK k \in Int : d = Second * k
    BY DEF Whole
  <2>2. k >= 1
    <3> SUFFICES ASSUME k <= 0 PROVE FALSE
      BY <2>1
    <3>1. Second * k <= Second * 0
      BY Positive
    <3>2. QED
      BY <2>1, <3>1, Positive
  <2>3. Second * k >= Second * 1
    BY <2>2, Positive
  <2>4. QED
    BY <2>1, <2>3, Positive
<1>2. QED
  BY <1>1, Positive DEF Resolution

\* A number is a multiple of another just if its opposite is.
LEMMA OppositeMultiple ==
  ASSUME NEW a \in Int, NEW b \in Nat \ {0}
  PROVE  (a % b = 0) <=> ((-a) % b = 0)
<1>1. ASSUME NEW x \in Int, x % b = 0 PROVE (-x) % b = 0
  <2>1. PICK k \in Int : x = b * k
    BY <1>1, Multiple
  <2>2. -x = b * (-k) /\ -k \in Int /\ -x \in Int
    BY <2>1
  <2>3. QED
    BY <2>2, Multiple
<1>2. -a \in Int /\ -(-a) = a
  OBVIOUS
<1>3. QED
  BY <1>1, <1>2

\* The samples that a sum over the range sees, one at each multiple of the step, both ends
\* included, stand for the window but for less than a step, or for just a step too much where
\* both ends are multiples of it; and there is one (timeutil.go:44-82, cost_metrics.go:247-258).
THEOREM SumsCover == Spec => []SumsCoverWindow
<1>1. ClockInv /\ QueryInv => SumsCoverWindow
  <2> DEFINE d == answer.result.end - answer.result.start
             i == query.instant
             h == query.step
             a == i \div h
             b == (-(i - d)) \div h
             r == i % h
             q == (-(i - d)) % h
             n == SamplesIn(i - d, i, h)
  <2> SUFFICES ASSUME ClockInv, QueryInv, IsAsked, query.resolution = Nothing
               PROVE  LET from == i - query.range
                          samples == SamplesIn(from, i, h)
                          off == samples * h - d
                      IN  /\ samples >= 1 /\ -h < off
                          /\ IF from % h = 0 /\ i % h = 0 THEN off = h ELSE off < h
    BY DEF SumsCoverWindow
  <2>1. /\ d \in Int /\ Whole(d) /\ d > 0
        /\ query.range = (d \div DurationUnit(d)) * DurationUnit(d)
        /\ query.step = Resolution(d)
    <3>1. d \in Int /\ Whole(d) /\ d > 0
      <4> DEFINE s == answer.result.start
                 e == answer.result.end
      <4>1. s \in Int /\ e \in Int /\ s < e /\ Whole(s) /\ Whole(e)
        BY QueryFields
      <4> HIDE DEF s, e
      <4>2. Whole(e - s) /\ e - s \in Int /\ e - s > 0
        BY <4>1, WholeSums
      <4>3. QED
        BY <4>2 DEF s, e
    <3>2. /\ query.range = (d \div DurationUnit(d)) * DurationUnit(d)
          /\ query.step = StepOf(d, query.resolution)
      BY QueryFields
    <3>3. QED
      BY <3>1, <3>2 DEF StepOf
  <2>2. query.range = d
    BY <2>1, RangeIsWhole
  <2>3. h \in Nat \ {0} /\ h <= d
    BY <2>1, ResolutionFits
  <2>4. i \in Int
    <3>1. HourOffset(query.at) \in Int
      BY QueryFields, HourOffsetType
    <3>2. Told(query.metric, WallClock(answer.text, answer.result.end)) \in Int
      BY QueryFields, Positive DEF Told, WallClock
    <3>3. QED
      BY <3>1, <3>2, QueryFields
  <2> HIDE DEF d, i, h
  <2> DEFINE j == i - d
  <2>5. /\ j \in Int /\ -j \in Int
        /\ a \in Int /\ r \in Int /\ i = h * a + r /\ 0 <= r /\ r < h
        /\ b \in Int /\ q \in Int /\ -j = h * b + q /\ 0 <= q /\ q < h
        /\ j % h = 0 <=> q = 0
    <3>1. j \in Int /\ -j \in Int
      BY <2>1, <2>4
    <3>2. a \in Int /\ r \in Int /\ i = h * a + r /\ 0 <= r /\ r < h
      BY <2>3, <2>4, DivMod
    <3>3. b = (-j) \div h /\ q = (-j) % h
      OBVIOUS
    <3> HIDE DEF j, b, q
    <3>4. b \in Int /\ q \in Int /\ -j = h * b + q /\ 0 <= q /\ q < h
      BY <2>3, <3>1, <3>3, DivMod
    <3>5. j % h = 0 <=> q = 0
      BY <2>3, <3>1, <3>3, OppositeMultiple
    <3>6. QED
      BY <3>1, <3>2, <3>4, <3>5
  <2>6. n = a + b + 1
    BY DEF SamplesIn
  <2> HIDE DEF a, b, r, q, n
  <2>7. n \in Int /\ n * h = d + h - r - q
    <3>1. n * h = h * a + h * b + h /\ h * a \in Int /\ h * b \in Int /\ h \in Int
      BY <2>3, <2>5, <2>6
    <3>2. h * a = i - r /\ h * b = -i + d - q
      BY <2>1, <2>3, <2>4, <2>5, <3>1
    <3>3. QED
      BY <2>1, <2>3, <2>4, <2>5, <2>6, <3>1, <3>2
  <2>8. n >= 1
    <3> SUFFICES ASSUME n <= 0 PROVE FALSE
      BY <2>7
    <3>1. n * h <= 0
      BY <2>3, <2>7
    <3>2. QED
      BY <2>1, <2>3, <2>5, <2>7, <3>1
  <2>9. -h < n * h - d /\ n * h - d < h + 1
        /\ (n * h - d = h <=> r = 0 /\ q = 0)
    <3>1. n * h - d = h - r - q
      BY <2>1, <2>3, <2>5, <2>7
    <3>2. QED
      BY <2>3, <2>5, <3>1
  <2>10. r = i % h
    BY DEF r
  <2>11. IF j % h = 0 /\ i % h = 0 THEN n * h - d = h ELSE n * h - d < h
    <3>1. n * h - d \in Int /\ h \in Int
      BY <2>1, <2>3, <2>7
    <3>2. QED
      BY <2>5, <2>9, <2>10, <3>1
  <2>12. QED
    BY <2>2, <2>8, <2>9, <2>11 DEF n, i, h
<1>2. QED
  BY <1>1, QueryAlways, PTL

-----------------------------------------------------------------------------

\* Induction up to a bound, for a set of numbers.
LEMMA Climb ==
  ASSUME NEW N \in Nat, NEW S, 0 \in S, \A n \in 0..N : n \in S /\ n < N => n + 1 \in S
  PROVE  0..N \subseteq S
<1> SUFFICES ASSUME ~(0..N \subseteq S) PROVE FALSE
  OBVIOUS
<1> DEFINE C == {n \in 0..N : n \notin S}
           R == OpToRel(<, Nat)
<1>1. C # {} /\ C \in SUBSET Nat
  OBVIOUS
<1>2. IsWellFoundedOn(R, Nat)
  BY NatLessThanWellFounded
<1>3. \A x, y \in Nat : y < x => <<y, x>> \in R
  BY DEF OpToRel
<1> HIDE DEF R
<1>4. \E c \in C : \A d \in C : ~(<<d, c>> \in R)
  BY <1>1, <1>2, WFMin
<1>5. PICK c \in C : \A d \in C : ~(<<d, c>> \in R)
  BY <1>4
<1>6. c \in 0..N /\ c # 0 /\ c \notin S
  OBVIOUS
<1>7. c - 1 \in 0..N /\ c - 1 < c /\ c - 1 < N /\ (c - 1) + 1 = c
  BY <1>6
<1>8. c - 1 \notin C
  BY <1>1, <1>3, <1>5, <1>6, <1>7
<1>9. c - 1 \in S
  BY <1>7, <1>8
<1>10. QED
  BY <1>6, <1>7, <1>9

LEMMA MaxIs ==
  ASSUME NEW S \in SUBSET Int, NEW x \in S, \A y \in S : y <= x
  PROVE  Max(S) = x
<1>1. \E u \in S : \A y \in S : u >= y
  OBVIOUS
<1>2. Max(S) \in S /\ \A y \in S : Max(S) >= y
  BY <1>1 DEF Max
<1> DEFINE m == Max(S)
<1>3. m \in S /\ m >= x /\ m <= x
  BY <1>2
<1> HIDE DEF m
<1>4. m \in Int /\ x \in Int
  BY <1>3
<1>5. m = x
  BY <1>3, <1>4
<1>6. QED
  BY <1>5 DEF m

\* How FoldLeft goes through a sequence: f is defined for all sets of indexes, the greatest of
\* them last.
Folds(f, P, base, seq, n) ==
  f = [s \in SUBSET (1..n) |->
         IF s = {} THEN base ELSE P[<<f[s \ {Max(s)}], seq[Max(s)]>>]]

\* There is such a function for any step P from values in V and elements in T.
LEMMA FoldExists ==
  ASSUME NEW V, NEW T, NEW base \in V, NEW seq \in Seq(T), NEW P \in [V \X T -> V]
  PROVE  \E f \in [SUBSET (1..Len(seq)) -> V] : Folds(f, P, base, seq, Len(seq))
<1> DEFINE N == Len(seq)
           S == {n \in 0..N : \E f \in [SUBSET (1..n) -> V] : Folds(f, P, base, seq, n)}
<1>1. N \in Nat /\ \A i \in 1..N : seq[i] \in T
  OBVIOUS
<1>2. 0 \in S
  <2> DEFINE f == [s \in SUBSET (1..0) |-> base]
  <2>1. SUBSET (1..0) = {{}}
    OBVIOUS
  <2>2. f \in [SUBSET (1..0) -> V] /\ Folds(f, P, base, seq, 0)
    BY <2>1 DEF Folds
  <2>3. QED
    BY <1>1, <2>2
<1>3. ASSUME NEW n \in 0..N, n \in S, n < N PROVE n + 1 \in S
  <2>1. PICK f \in [SUBSET (1..n) -> V] : Folds(f, P, base, seq, n)
    BY <1>3
  <2> DEFINE g == [s \in SUBSET (1..(n + 1)) |->
                     IF n + 1 \in s THEN P[<<f[s \ {n + 1}], seq[n + 1]>>] ELSE f[s]]
             h == [s \in SUBSET (1..(n + 1)) |->
                     IF s = {} THEN base ELSE P[<<g[s \ {Max(s)}], seq[Max(s)]>>]]
  <2>2. n \in Nat /\ n + 1 \in 1..N /\ seq[n + 1] \in T
    BY <1>1, <1>3
  <2>3. ASSUME NEW s \in SUBSET (1..(n + 1)), n + 1 \in s
        PROVE  /\ s \ {n + 1} \in SUBSET (1..n) /\ s \ {n + 1} \in SUBSET (1..(n + 1))
               /\ Max(s) = n + 1
    <3>1. s \in SUBSET Int /\ \A y \in s : y <= n + 1
      BY <2>2
    <3>2. Max(s) = n + 1
      BY <2>3, <3>1, MaxIs
    <3>3. QED
      BY <2>2, <3>2
  <2>4. ASSUME NEW s \in SUBSET (1..(n + 1)), n + 1 \notin s
        PROVE  s \in SUBSET (1..n)
    BY <2>2, <2>4
  <2>5. ASSUME NEW s \in SUBSET (1..n), s # {}
        PROVE  Max(s) \in s /\ Max(s) \in 1..n
    <3>1. n \in Int /\ s \in SUBSET Int /\ s # {} /\ \A y \in s : y <= n
      BY <2>2, <2>5
    <3>2. Max(s) \in s
      BY <3>1, Greatest
    <3>3. QED
      BY <2>5, <3>2
  <2>6. g \in [SUBSET (1..(n + 1)) -> V]
    <3> SUFFICES ASSUME NEW s \in SUBSET (1..(n + 1)) PROVE g[s] \in V
      OBVIOUS
    <3>1. CASE n + 1 \in s
      <4>1. f[s \ {n + 1}] \in V
        BY <2>3, <3>1
      <4>2. QED
        BY <2>2, <3>1, <4>1
    <3>2. CASE n + 1 \notin s
      BY <2>4, <3>2
    <3>3. QED
      BY <3>1, <3>2
  <2>7. ASSUME NEW s \in SUBSET (1..(n + 1)) PROVE g[s] = h[s]
    <3>1. CASE n + 1 \in s
      <4>1. /\ s \ {n + 1} \in SUBSET (1..n) /\ s \ {n + 1} \in SUBSET (1..(n + 1))
            /\ Max(s) = n + 1 /\ n + 1 \notin s \ {n + 1}
        BY <2>3, <3>1
      <4>2. g[s \ {n + 1}] = f[s \ {n + 1}]
        BY <4>1
      <4>3. QED
        BY <3>1, <4>1, <4>2
    <3>2. CASE n + 1 \notin s
      <4>1. s \in SUBSET (1..n)
        BY <2>4, <3>2
      <4>2. f[s] = IF s = {} THEN base ELSE P[<<f[s \ {Max(s)}], seq[Max(s)]>>]
        BY <2>1, <4>1 DEF Folds
      <4>3. s # {} => g[s \ {Max(s)}] = f[s \ {Max(s)}]
        BY <2>2, <2>5, <3>2, <4>1
      <4>4. QED
        BY <3>2, <4>2, <4>3
    <3>3. QED
      BY <3>1, <3>2
  <2>8. g = h
    BY <2>7
  <2> HIDE DEF g
  <2>9. Folds(g, P, base, seq, n + 1)
    BY <2>8 DEF Folds
  <2>10. n + 1 \in 0..N
    BY <1>1, <1>3
  <2>11. QED
    BY <2>6, <2>9, <2>10
<1>4. N \in S
  <2> HIDE DEF S
  <2>1. 0..N \subseteq S
    BY <1>1, <1>2, <1>3, Climb
  <2>2. QED
    BY <1>1, <2>1
<1>5. QED
  BY <1>4

\* The sets of indexes that matter are the prefixes.
LEMMA PrefixIn ==
  ASSUME NEW N \in Nat, NEW n \in 0..N, n < N
  PROVE  1..(n + 1) # {} /\ 1..(n + 1) \in SUBSET (1..N)
<1>1. n \in Nat /\ n + 1 <= N
  OBVIOUS
<1>2. 1 \in 1..(n + 1)
  BY <1>1
<1>3. 1..(n + 1) \in SUBSET (1..N)
  BY <1>1
<1>4. QED
  BY <1>2, <1>3

LEMMA PrefixLast ==
  ASSUME NEW n \in Nat
  PROVE  Max(1..(n + 1)) = n + 1 /\ (1..(n + 1)) \ {n + 1} = 1..n
<1> DEFINE p == 1..(n + 1)
<1>1. p \in SUBSET Int /\ n + 1 \in p /\ \A y \in p : y <= n + 1
  OBVIOUS
<1>2. p \ {n + 1} = 1..n
  OBVIOUS
<1> HIDE DEF p
<1>3. Max(p) = n + 1
  BY <1>1, MaxIs
<1>4. QED
  BY <1>2, <1>3 DEF p

-----------------------------------------------------------------------------

\* The terms that the scanner lets pass.
Terms == {r \in [num : Nat, unit : DOMAIN StepUnit, part : Nat] : r.part <= StepUnit[r.unit]}

\* What a term adds to a sum that does not overflow.
Exact(d, t) == d + t.num * StepUnit[t.unit] + t.part

LEMMA TermTypes ==
  ASSUME NEW t \in Terms
  PROVE  /\ t.num \in Nat /\ t.part \in Nat /\ t.unit \in DOMAIN StepUnit
         /\ StepUnit[t.unit] \in Nat \ {0} /\ t.part <= StepUnit[t.unit] /\ StepUnit[t.unit] <= MaxInt
         /\ t.num * StepUnit[t.unit] \in Nat
         /\ MaxInt \in Int
<1>1. t.num \in Nat /\ t.part \in Nat /\ t.unit \in {"s", "m", "h", "d", "w"} /\ t.part <= StepUnit[t.unit]
  BY DEF Terms, StepUnit
<1>2. Week <= MaxInt /\ MaxInt \in Int
  <2>1. Word \in Int /\ Word \div 2 \in Int /\ Week < Word \div 2
    BY WindowAssumption
  <2>2. QED
    BY <2>1, Positive DEF MaxInt
<1>3. StepUnit[t.unit] \in Nat \ {0} /\ StepUnit[t.unit] <= Week
  BY <1>1, Units DEF StepUnit
<1>4. t.num * StepUnit[t.unit] \in Nat
  BY <1>1, <1>3
<1>5. StepUnit[t.unit] <= MaxInt
  <2>1. StepUnit[t.unit] \in Int /\ Week \in Int
    BY <1>3, Positive
  <2>2. QED
    BY <1>2, <1>3, <2>1
<1>6. t.unit \in DOMAIN StepUnit
  BY <1>1 DEF StepUnit
<1>7. QED
  BY <1>1, <1>2, <1>3, <1>4, <1>5, <1>6

\* A number beyond int64, but not by more than as much again, shows as a negative one.
LEMMA WrapShows ==
  ASSUME NEW v \in Int, 0 <= v, v <= 2 * MaxInt, Wrap(v) >= 0
  PROVE  Wrap(v) = v /\ v <= MaxInt
<1> DEFINE half == Word \div 2
           y == v + half
<1>1. Word = 2 * half /\ half \in Int /\ Word \in Nat \ {0} /\ MaxInt = half - 1 /\ MaxInt \in Int
  BY WindowAssumption DEF MaxInt
<1>2. Wrap(v) = (y % Word) - half
  BY DEF Wrap
<1> HIDE DEF half
<1>3. y \in Int /\ v = y - half
  BY <1>1
<1> HIDE DEF y
<1>4. ~(v > MaxInt)
  <2> SUFFICES ASSUME v > MaxInt PROVE FALSE
    OBVIOUS
  <2> DEFINE q == 1
  <2>1. q \in Int /\ Word * q = Word
    BY <1>1
  <2>2. Word * q <= y /\ y < Word * q + Word
    BY <1>1, <1>3, <2>1
  <2> HIDE DEF q
  <2>3. y % Word = y - Word * q
    BY <1>1, <1>3, <2>1, <2>2, Quotient
  <2>4. QED
    BY <1>1, <1>2, <1>3, <2>1, <2>3
<1>5. v <= MaxInt /\ -MaxInt - 1 <= v
  BY <1>1, <1>4
<1>6. QED
  BY <1>5, WrapKeeps

\* One term more is added as it is, or the text is refused.
LEMMA PlusIsExact ==
  ASSUME NEW d \in Int, 0 <= d, d <= MaxInt, NEW t \in Terms, Plus(d, t) # Refused
  PROVE  /\ Plus(d, t) = Exact(d, t) /\ Exact(d, t) \in Int
         /\ 0 <= Exact(d, t) /\ Exact(d, t) <= MaxInt
<1> DEFINE whole == t.num * StepUnit[t.unit]
           v == whole + t.part
<1>1. /\ t.num \in Nat /\ t.part \in Nat /\ StepUnit[t.unit] \in Nat \ {0} /\ whole \in Nat
      /\ t.part <= MaxInt /\ MaxInt \in Int
  BY TermTypes
<1>2. d # Refused /\ Term(t) # Refused /\ ~(Wrap(d + Term(t)) < 0) /\ Plus(d, t) = Wrap(d + Term(t))
  BY DEF Plus
<1>3. t.num <= MaxInt \div StepUnit[t.unit] /\ ~(Wrap(v) < 0) /\ Term(t) = v
  <2> DEFINE q == MaxInt \div StepUnit[t.unit]
  <2>1. q \in Int
    BY <1>1, DivMod
  <2>2. ~(t.num > q) /\ ~(Wrap(v) < 0) /\ Term(t) = v
    BY <1>2 DEF Term
  <2> HIDE DEF q
  <2>3. t.num <= q
    BY <1>1, <2>1, <2>2
  <2>4. QED
    BY <2>2, <2>3 DEF q
<1>4. whole <= MaxInt
  <2> DEFINE u == StepUnit[t.unit]
             q == MaxInt \div u
  <2>1. u \in Nat \ {0} /\ t.num <= q /\ whole = t.num * u
    BY <1>1, <1>3
  <2> HIDE DEF u
  <2>2. q \in Int /\ MaxInt % u \in Int /\ 0 <= MaxInt % u /\ MaxInt = u * q + (MaxInt % u)
    BY <1>1, <2>1, DivMod
  <2> HIDE DEF q, whole
  <2>3. t.num * u <= q * u /\ t.num * u \in Int /\ q * u \in Int /\ q * u = u * q
    BY <1>1, <2>1, <2>2
  <2>4. QED
    BY <1>1, <2>1, <2>2, <2>3
<1> HIDE DEF whole
<1>5. v \in Int /\ 0 <= v /\ v <= 2 * MaxInt /\ Wrap(v) \in Int
  BY <1>1, <1>4, WrapType
<1>6. v <= MaxInt
  BY <1>3, <1>5, WrapShows
<1> HIDE DEF v
<1>7. d + v \in Int /\ 0 <= d + v /\ d + v <= 2 * MaxInt /\ Wrap(d + v) \in Int
  BY <1>1, <1>5, <1>6, WrapType
<1>8. Wrap(d + v) = d + v /\ d + v <= MaxInt
  BY <1>2, <1>3, <1>7, WrapShows
<1>9. Exact(d, t) = d + v
  BY <1>1 DEF Exact, v, whole
<1>10. QED
  BY <1>2, <1>3, <1>7, <1>8, <1>9

\* What adding up the terms of a text goes through, index by index: with the sums that the
\* code looks at, and without.
Sums(seq, c) ==
  c = [s \in SUBSET DOMAIN seq |-> IF s = {} THEN 0 ELSE Plus(c[s \ {Max(s)}], seq[Max(s)])]
ExactSums(seq, c) ==
  c = [s \in SUBSET DOMAIN seq |-> IF s = {} THEN 0 ELSE Exact(c[s \ {Max(s)}], seq[Max(s)])]

LEMMA LastIndex ==
  ASSUME NEW N \in Nat, NEW s \in SUBSET (1..N), s # {}
  PROVE  Max(s) \in 1..N /\ s \ {Max(s)} \in SUBSET (1..N)
<1>1. s \in SUBSET Int /\ N \in Int /\ \A y \in s : y <= N
  OBVIOUS
<1>2. Max(s) \in s
  BY <1>1, Greatest
<1>3. QED
  BY <1>2

LEMMA SumsExist ==
  ASSUME NEW seq \in Seq(Terms)
  PROVE  \E c : Sums(seq, c)
<1> DEFINE N == Len(seq)
           V == Int \cup {Refused}
           P == [q \in V \X Terms |-> Plus(q[1], q[2])]
<1>1. N \in Nat /\ DOMAIN seq = 1..N /\ \A i \in 1..N : seq[i] \in Terms
  OBVIOUS
<1>2. ASSUME NEW d \in V, NEW t \in Terms PROVE Plus(d, t) \in V
  <2>1. t.num * StepUnit[t.unit] \in Nat /\ t.part \in Nat
    BY TermTypes
  <2>2. Term(t) = Refused \/ Term(t) \in Int
    BY <2>1 DEF Term
  <2>3. CASE Plus(d, t) = Refused
    BY <2>3
  <2>4. CASE Plus(d, t) # Refused
    <3>1. d # Refused /\ Term(t) # Refused /\ Plus(d, t) = Wrap(d + Term(t))
      BY <2>4 DEF Plus
    <3>2. d + Term(t) \in Int
      BY <2>2, <3>1
    <3>3. QED
      BY <3>1, <3>2, WrapType
  <2>5. QED
    BY <2>3, <2>4
<1>3. P \in [V \X Terms -> V]
  BY <1>2
<1>4. 0 \in V
  OBVIOUS
<1> HIDE DEF P, V
<1>5. PICK c \in [SUBSET (1..N) -> V] : Folds(c, P, 0, seq, N)
  BY <1>3, <1>4, FoldExists
<1>6. ASSUME NEW s \in SUBSET (1..N), s # {}
      PROVE  P[<<c[s \ {Max(s)}], seq[Max(s)]>>] = Plus(c[s \ {Max(s)}], seq[Max(s)])
  <2>1. Max(s) \in 1..N /\ s \ {Max(s)} \in SUBSET (1..N)
    BY <1>1, <1>6, LastIndex
  <2>2. c[s \ {Max(s)}] \in V /\ seq[Max(s)] \in Terms
    BY <1>1, <2>1
  <2>3. QED
    BY <2>2 DEF P
<1>7. c = [s \in SUBSET (1..N) |->
             IF s = {} THEN 0 ELSE P[<<c[s \ {Max(s)}], seq[Max(s)]>>]]
  BY <1>5 DEF Folds
<1>8. c = [s \in SUBSET (1..N) |->
             IF s = {} THEN 0 ELSE Plus(c[s \ {Max(s)}], seq[Max(s)])]
  BY <1>6, <1>7
<1>9. QED
  BY <1>1, <1>8 DEF Sums

LEMMA ExactSumsExist ==
  ASSUME NEW seq \in Seq(Terms)
  PROVE  \E c : ExactSums(seq, c)
<1> DEFINE N == Len(seq)
           P == [q \in Int \X Terms |-> Exact(q[1], q[2])]
<1>1. N \in Nat /\ DOMAIN seq = 1..N /\ \A i \in 1..N : seq[i] \in Terms
  OBVIOUS
<1>2. ASSUME NEW d \in Int, NEW t \in Terms PROVE Exact(d, t) \in Int
  <2>1. t.num * StepUnit[t.unit] \in Nat /\ t.part \in Nat
    BY TermTypes
  <2>2. QED
    BY <2>1 DEF Exact
<1>3. P \in [Int \X Terms -> Int]
  BY <1>2
<1> HIDE DEF P
<1>4. 0 \in Int
  OBVIOUS
<1>5. PICK c \in [SUBSET (1..N) -> Int] : Folds(c, P, 0, seq, N)
  BY <1>3, <1>4, FoldExists
<1>6. ASSUME NEW s \in SUBSET (1..N), s # {}
      PROVE  P[<<c[s \ {Max(s)}], seq[Max(s)]>>] = Exact(c[s \ {Max(s)}], seq[Max(s)])
  <2>1. Max(s) \in 1..N /\ s \ {Max(s)} \in SUBSET (1..N)
    BY <1>1, <1>6, LastIndex
  <2>2. c[s \ {Max(s)}] \in Int /\ seq[Max(s)] \in Terms
    BY <1>1, <2>1
  <2>3. QED
    BY <2>2 DEF P
<1>7. c = [s \in SUBSET (1..N) |->
             IF s = {} THEN 0 ELSE P[<<c[s \ {Max(s)}], seq[Max(s)]>>]]
  BY <1>5 DEF Folds
<1>8. c = [s \in SUBSET (1..N) |->
             IF s = {} THEN 0 ELSE Exact(c[s \ {Max(s)}], seq[Max(s)])]
  BY <1>6, <1>7
<1>9. QED
  BY <1>1, <1>8 DEF ExactSums

\* After every term the sum is the exact one, or the text is refused.
LEMMA SumsAgree ==
  ASSUME NEW seq \in Seq(Terms), NEW c, Sums(seq, c), NEW e, ExactSums(seq, e),
         c[DOMAIN seq] # Refused
  PROVE  c[DOMAIN seq] = e[DOMAIN seq]
<1> DEFINE N == Len(seq)
           Right(n) == c[1..n] # Refused =>
                         c[1..n] \in Int /\ 0 <= c[1..n] /\ c[1..n] <= MaxInt /\ c[1..n] = e[1..n]
           S == {n \in 0..N : Right(n)}
<1>1. N \in Nat /\ DOMAIN seq = 1..N /\ \A i \in 1..N : seq[i] \in Terms
  OBVIOUS
<1>2. 0 \in S
  <2>1. 1..0 = {} /\ {} \in SUBSET (1..N)
    OBVIOUS
  <2>2. c[{}] = 0 /\ e[{}] = 0
    BY <1>1, <2>1 DEF Sums, ExactSums
  <2>3. MaxInt \in Int /\ 0 <= MaxInt
    BY WindowAssumption, Units DEF MaxInt
  <2>4. Right(0)
    BY <2>1, <2>2, <2>3
  <2>5. QED
    BY <1>1, <2>4
<1>3. ASSUME NEW n \in 0..N, n \in S, n < N PROVE n + 1 \in S
  <2> DEFINE p == 1..(n + 1)
             q == 1..n
             t == seq[n + 1]
  <2>1. n \in Nat /\ n + 1 \in 0..N /\ n + 1 \in 1..N /\ t \in Terms
    BY <1>1, <1>3
  <2>2. p # {} /\ p \in SUBSET (1..N)
    BY <1>1, <1>3, PrefixIn
  <2>3. Max(p) = n + 1 /\ p \ {n + 1} = q
    BY <2>1, PrefixLast
  <2>4. c[q] # Refused => c[q] \in Int /\ 0 <= c[q] /\ c[q] <= MaxInt /\ c[q] = e[q]
    BY <1>3
  <2> HIDE DEF p, q
  <2>5. c[p] = Plus(c[q], t) /\ e[p] = Exact(e[q], t)
    <3> HIDE DEF N, t
    <3>1. p \in SUBSET (DOMAIN seq)
      BY <1>1, <2>2
    <3>2. c[p] = Plus(c[p \ {Max(p)}], seq[Max(p)])
      BY <2>2, <3>1 DEF Sums
    <3>3. e[p] = Exact(e[p \ {Max(p)}], seq[Max(p)])
      BY <2>2, <3>1 DEF ExactSums
    <3>4. t = seq[n + 1]
      BY DEF t
    <3>5. QED
      BY <2>3, <3>2, <3>3, <3>4, Zenon
  <2> HIDE DEF t
  <2>6. c[p] # Refused => c[q] # Refused
    BY <2>5 DEF Plus
  <2>7. c[p] # Refused => c[p] \in Int /\ 0 <= c[p] /\ c[p] <= MaxInt /\ c[p] = e[p]
    BY <2>1, <2>4, <2>5, <2>6, PlusIsExact
  <2>8. Right(n + 1)
    BY <2>7 DEF p
  <2>9. QED
    BY <2>1, <2>8
<1>4. N \in S
  <2> HIDE DEF S
  <2>1. 0..N \subseteq S
    BY <1>1, <1>2, <1>3, Climb
  <2>2. QED
    BY <1>1, <2>1
<1>5. QED
  BY <1>1, <1>4

\* A step that was parsed is the sum of its terms.
LEMMA DurationIs ==
  ASSUME NEW x \in Texts, ParseDuration(x) # Refused
  PROVE  LET sum == FoldLeft(Exact, 0, x.terms)
         IN  ParseDuration(x) = IF x.negative THEN -sum ELSE sum
<1> DEFINE seq == x.terms
           c == CHOOSE f : Sums(seq, f)
           e == CHOOSE f : ExactSums(seq, f)
<1>1. seq \in Seq(Terms)
  <2> DEFINE R == [num : Nat, unit : DOMAIN StepUnit, part : Nat]
  <2>1. seq \in Seq(R) /\ \A i \in DOMAIN seq : seq[i].part <= StepUnit[seq[i].unit]
    BY TextAssumption
  <2> HIDE DEF seq, R
  <2>2. \A i \in DOMAIN seq : seq[i] \in R
    BY <2>1
  <2>3. \A i \in DOMAIN seq : seq[i] \in Terms
    BY <2>1, <2>2 DEF Terms, R
  <2>4. QED
    BY <2>1, <2>3
<1>2. FoldLeft(Plus, 0, seq) = c[DOMAIN seq]
  BY DEF FoldLeft, MapThenFoldSet, Sums
<1>3. FoldLeft(Exact, 0, seq) = e[DOMAIN seq]
  BY DEF FoldLeft, MapThenFoldSet, ExactSums
<1>4. /\ FoldLeft(Plus, 0, seq) # Refused
      /\ ParseDuration(x) = IF x.negative THEN -FoldLeft(Plus, 0, seq) ELSE FoldLeft(Plus, 0, seq)
  BY DEF ParseDuration
<1> HIDE DEF seq
<1>5. Sums(seq, c) /\ ExactSums(seq, e)
  BY <1>1, SumsExist, ExactSumsExist
<1> HIDE DEF c, e
<1>6. FoldLeft(Plus, 0, seq) = FoldLeft(Exact, 0, seq)
  BY <1>1, <1>2, <1>3, <1>4, <1>5, SumsAgree
<1>7. QED
  BY <1>4, <1>6 DEF seq

\* The steps that were parsed are what their texts say.
StepInv ==
  Answered /\ ~IsWindow => answer.text \in Texts /\ answer.result = ParseDuration(answer.text)

LEMMA StepStep == StepInv /\ [Next]_vars => StepInv'
<1> SUFFICES ASSUME StepInv, [Next]_vars PROVE StepInv'
  OBVIOUS
<1>1. CASE answer' = answer
  BY <1>1 DEF StepInv, Answered, IsWindow
<1>2. CASE Pass
  <2>1. answer' = answer \/ answer' = Nothing
    BY <1>2 DEF Pass
  <2>2. QED
    BY <1>1, <2>1 DEF StepInv, Answered
<1>3. ASSUME NEW w \in Windows, ParseWindow(w) PROVE StepInv'
  <2>1. answer'.text = w
    BY <1>3 DEF ParseWindow, Answer
  <2>2. QED
    BY <2>1 DEF StepInv, Answered, IsWindow
<1>4. ASSUME NEW x \in Texts, ParseStep(x) PROVE StepInv'
  <2>1. answer'.text = x /\ answer'.result = ParseDuration(x)
    BY <1>4 DEF ParseStep, Answer
  <2>2. QED
    BY <2>1 DEF StepInv
<1>5. WindowNext \/ answer' = answer
  BY DEF Next, vars, windowVars, Ask, Return
<1>6. QED
  BY <1>1, <1>2, <1>3, <1>4, <1>5 DEF WindowNext

\* A step that is accepted is the sum of its terms, however many there are and whatever the
\* width of a duration, never a sum that overflowed (timeutil.go:196-214).
THEOREM StepsAreExact == Spec => []StepIsExact
<1>1. Init => StepInv
  BY DEF Init, WindowInit, StepInv, Answered
<1>2. StepInv => StepIsExact
  <2> SUFFICES ASSUME StepInv, Answered, ~IsWindow PROVE StepIsExact
    BY DEF StepIsExact
  <2>1. answer.text \in Texts /\ answer.result = ParseDuration(answer.text)
        /\ ParseDuration(answer.text) # Refused
    BY DEF StepInv, Answered
  <2>2. answer.result = IF answer.text.negative THEN -FoldLeft(Exact, 0, answer.text.terms)
                                                ELSE FoldLeft(Exact, 0, answer.text.terms)
    BY <2>1, DurationIs
  <2>3. QED
    BY <2>2 DEF StepIsExact, Exact, FoldLeft, MapThenFoldSet
<1>3. QED
  BY <1>1, <1>2, StepStep, PTL DEF Spec

-----------------------------------------------------------------------------

(***************************************************************************)
(* A filter on its way to Prometheus, term by term.                        *)
(***************************************************************************)

\* What FoldLeft computes with a step P.
FoldsTo(P, base, seq, c) ==
  c = [s \in SUBSET DOMAIN seq |->
         IF s = {} THEN base ELSE P[<<c[s \ {Max(s)}], seq[Max(s)]>>]]

LEMMA FoldTyped ==
  ASSUME NEW V, NEW T, NEW base \in V, NEW seq \in Seq(T), NEW P \in [V \X T -> V]
  PROVE  \E c : FoldsTo(P, base, seq, c) /\ \A s \in SUBSET DOMAIN seq : c[s] \in V
<1> DEFINE N == Len(seq)
<1>1. N \in Nat /\ DOMAIN seq = 1..N
  OBVIOUS
<1>2. PICK c \in [SUBSET (1..N) -> V] : Folds(c, P, base, seq, N)
  BY FoldExists
<1>3. FoldsTo(P, base, seq, c)
  BY <1>1, <1>2 DEF Folds, FoldsTo
<1>4. QED
  BY <1>1, <1>2, <1>3

\* The terms of a text, and what is left of them.
FilterTerms == {t \in [key : STRING, values : Seq(STRING)] : t.values # <<>>}

LEMMA FrontIs ==
  ASSUME NEW S, NEW s \in Seq(S), s # <<>>
  PROVE  Front(s) \in Seq(S) /\ Len(Front(s)) = Len(s) - 1
         /\ \A i \in 1..(Len(s) - 1) : Front(s)[i] = s[i]
<1> DEFINE m == Len(s) - 1
           f == Front(s)
<1>1. Len(s) \in Nat \ {0} /\ \A i \in 1..Len(s) : s[i] \in S
  OBVIOUS
<1>2. m \in Nat /\ \A i \in 1..m : s[i] \in S
  BY <1>1
<1>3. f = SubSeq(s, 1, m)
  BY DEF Front
<1> HIDE DEF m, f
<1>4. f \in Seq(S) /\ Len(f) = (IF 1 <= m THEN m - 1 + 1 ELSE 0)
      /\ \A i \in 1..(m - 1 + 1) : f[i] = s[1 + i - 1]
  BY <1>2, <1>3, SubSeqProperties
<1>5. Len(f) = m
  BY <1>2, <1>4
<1>6. \A i \in 1..m : f[i] = s[i]
  <2> SUFFICES ASSUME NEW i \in 1..m PROVE f[i] = s[i]
    OBVIOUS
  <2>1. i \in 1..(m - 1 + 1) /\ 1 + i - 1 = i
    BY <1>2
  <2>2. QED
    BY <1>4, <2>1
<1>7. QED
  BY <1>4, <1>5, <1>6 DEF m, f

LEMMA GluedType ==
  ASSUME NEW part \in FilterTerms, NEW term \in FilterTerms
  PROVE  /\ Glued(part, term) \in FilterTerms
         /\ Glued(part, term).key = part.key
         /\ Garbled \in ToSet(Glued(part, term).values)
         /\ part.key \in LabelKeys => Glued(part, term).values = <<Garbled>>
<1> DEFINE a == part.values
           b == term.values
           x == Front(a) \o <<Garbled>> \o Tail(b)
           y == IF part.key \in LabelKeys THEN <<Garbled>> ELSE x
<1>1. /\ part \in [key : STRING, values : Seq(STRING)] /\ a \in Seq(STRING) /\ a # <<>>
      /\ b \in Seq(STRING) /\ b # <<>> /\ Garbled \in STRING
  BY FilterAssumption DEF FilterTerms
<1>2. Glued(part, term) = [part EXCEPT !.values = y]
  BY DEF Glued
<1>3. x \in Seq(STRING) /\ x # <<>> /\ Garbled \in ToSet(x)
  <2> DEFINE f == Front(a)
             g == Tail(b)
             h == f \o <<Garbled>>
  <2>1. f \in Seq(STRING) /\ g \in Seq(STRING)
    <3> HIDE DEF a, b
    <3>1. QED
      BY <1>1, FrontIs
  <2> HIDE DEF f, g, a, b
  <2>2. h \in Seq(STRING) /\ Len(h) = Len(f) + 1 /\ h[Len(f) + 1] = Garbled /\ Len(f) \in Nat
    BY <1>1, <2>1
  <2> HIDE DEF h
  <2>3. /\ h \o g \in Seq(STRING) /\ Len(h \o g) = Len(h) + Len(g) /\ Len(g) \in Nat
        /\ (h \o g)[Len(f) + 1] = Garbled
    BY <2>1, <2>2
  <2>4. Len(f) + 1 \in DOMAIN (h \o g)
    BY <2>2, <2>3
  <2>5. h \o g # <<>> /\ Garbled \in ToSet(h \o g)
    BY <2>3, <2>4 DEF ToSet
  <2>6. QED
    BY <2>3, <2>5 DEF f, g, h, a, b
<1>4. <<Garbled>> \in Seq(STRING) /\ <<Garbled>> # <<>> /\ Garbled \in ToSet(<<Garbled>>)
  <2>1. 1 \in DOMAIN <<Garbled>> /\ <<Garbled>>[1] = Garbled
    OBVIOUS
  <2>2. QED
    BY <1>1, <2>1 DEF ToSet
<1> HIDE DEF x
<1>5. y \in Seq(STRING) /\ y # <<>> /\ Garbled \in ToSet(y)
      /\ (part.key \in LabelKeys => y = <<Garbled>>)
  BY <1>3, <1>4
<1> HIDE DEF y
<1>6. Glued(part, term).key = part.key /\ Glued(part, term).values = y
      /\ Glued(part, term) \in [key : STRING, values : Seq(STRING)]
  BY <1>1, <1>2, <1>5
<1>7. QED
  BY <1>5, <1>6 DEF FilterTerms

\* A term is added as a part of its own, or glued to the last part.
LEMMA AddTermIs ==
  ASSUME NEW ps \in Seq(FilterTerms), NEW t \in FilterTerms
  PROVE  /\ AddTerm(ps, t) \in Seq(FilterTerms) /\ AddTerm(ps, t) # <<>>
         /\ t.key \in CutBefore \/ ps = <<>> =>
              /\ Len(AddTerm(ps, t)) = Len(ps) + 1
              /\ AddTerm(ps, t)[Len(ps) + 1] = t
              /\ \A i \in 1..Len(ps) : AddTerm(ps, t)[i] = ps[i]
         /\ t.key \notin CutBefore /\ ps # <<>> =>
              /\ Len(AddTerm(ps, t)) = Len(ps) /\ Len(ps) \in Nat \ {0}
              /\ AddTerm(ps, t)[Len(ps)] = Glued(ps[Len(ps)], t)
              /\ ps[Len(ps)] \in FilterTerms
              /\ \A i \in 1..Len(ps) : i # Len(ps) => AddTerm(ps, t)[i] = ps[i]
<1>1. CASE t.key \in CutBefore \/ ps = <<>>
  <2>1. AddTerm(ps, t) = Append(ps, t)
    BY <1>1 DEF AddTerm
  <2>2. QED
    BY <1>1, <2>1
<1>2. CASE t.key \notin CutBefore /\ ps # <<>>
  <2> DEFINE n == Len(ps)
             f == Front(ps)
             g == Glued(ps[n], t)
  <2>1. AddTerm(ps, t) = Append(f, g)
    BY <1>2 DEF AddTerm, Last
  <2>2. n \in Nat \ {0} /\ ps[n] \in FilterTerms
    BY <1>2
  <2>3. f \in Seq(FilterTerms) /\ Len(f) = n - 1 /\ \A i \in 1..(n - 1) : f[i] = ps[i]
    BY <2>2, FrontIs
  <2>4. g \in FilterTerms
    BY <2>2, GluedType
  <2> HIDE DEF f, g
  <2>5. /\ Append(f, g) \in Seq(FilterTerms) /\ Len(Append(f, g)) = n
        /\ Append(f, g)[n] = g /\ \A i \in 1..(n - 1) : Append(f, g)[i] = f[i]
    BY <2>2, <2>3, <2>4
  <2>6. QED
    BY <1>2, <2>1, <2>2, <2>3, <2>5 DEF g
<1>3. QED
  BY <1>1, <1>2

\* The parts of a text, term by term.
LEMMA PartsSteps ==
  ASSUME NEW text \in Seq(FilterTerms)
  PROVE  \E c : /\ \A n \in 0..Len(text) : c[1..n] \in Seq(FilterTerms)
                /\ c[1..0] = <<>>
                /\ \A n \in 0..Len(text) : n < Len(text) =>
                     c[1..(n + 1)] = AddTerm(c[1..n], text[n + 1])
                /\ Parts(text) = c[1..Len(text)]
<1> DEFINE N == Len(text)
           V == Seq(FilterTerms)
           P == [q \in V \X FilterTerms |-> AddTerm(q[1], q[2])]
           F(c) == c = [s \in SUBSET DOMAIN text |->
                          IF s = {} THEN <<>> ELSE AddTerm(c[s \ {Max(s)}], text[Max(s)])]
<1>1. N \in Nat /\ DOMAIN text = 1..N /\ \A i \in 1..N : text[i] \in FilterTerms
  OBVIOUS
<1>2. P \in [V \X FilterTerms -> V] /\ <<>> \in V
  BY AddTermIs
<1>3. \A v \in V, t \in FilterTerms : P[<<v, t>>] = AddTerm(v, t)
  OBVIOUS
<1>4. \E c : F(c)
  <2> HIDE DEF P, V
  <2>1. PICK c : FoldsTo(P, <<>>, text, c) /\ \A s \in SUBSET DOMAIN text : c[s] \in V
    BY <1>2, FoldTyped
  <2>2. ASSUME NEW s \in SUBSET DOMAIN text, s # {}
        PROVE  P[<<c[s \ {Max(s)}], text[Max(s)]>>] = AddTerm(c[s \ {Max(s)}], text[Max(s)])
    <3>1. Max(s) \in 1..N /\ s \ {Max(s)} \in SUBSET DOMAIN text
      BY <1>1, <2>2, LastIndex
    <3>2. c[s \ {Max(s)}] \in V /\ text[Max(s)] \in FilterTerms
      BY <1>1, <2>1, <3>1
    <3>3. QED
      BY <1>3, <3>2
  <2>3. c = [s \in SUBSET DOMAIN text |->
               IF s = {} THEN <<>> ELSE P[<<c[s \ {Max(s)}], text[Max(s)]>>]]
    BY <2>1 DEF FoldsTo
  <2>4. F(c)
    BY <2>2, <2>3
  <2> HIDE DEF F
  <2>5. QED
    BY <2>4
<1> DEFINE c == CHOOSE f : F(f)
<1>5. Parts(text) = c[1..N]
  BY <1>1 DEF Parts, FoldLeft, MapThenFoldSet
<1>6. F(c)
  BY <1>4
<1> HIDE DEF c
<1>7. c[1..0] = <<>>
  <2>1. 1..0 = {} /\ {} \in SUBSET DOMAIN text
    OBVIOUS
  <2>2. QED
    BY <1>6, <2>1
<1>8. ASSUME NEW n \in 0..N, n < N PROVE c[1..(n + 1)] = AddTerm(c[1..n], text[n + 1])
  <2> DEFINE p == 1..(n + 1)
             q == 1..n
  <2>1. p # {} /\ p \in SUBSET DOMAIN text
    BY <1>1, <1>8, PrefixIn
  <2>2. Max(p) = n + 1 /\ p \ {n + 1} = q
    <3>1. n \in Nat
      BY <1>1
    <3>2. QED
      BY <3>1, PrefixLast
  <2> HIDE DEF p, q
  <2>3. c[p] = AddTerm(c[q], text[n + 1])
    BY <1>6, <2>1, <2>2
  <2>4. QED
    BY <2>3 DEF p, q
<1>9. \A n \in 0..N : c[1..n] \in V
  <2> DEFINE S == {n \in 0..N : c[1..n] \in V}
  <2>1. 0 \in S
    <3>1. 0 \in 0..N /\ c[1..0] \in V
      BY <1>1, <1>2, <1>7
    <3>2. QED
      BY <3>1
  <2>2. ASSUME NEW n \in 0..N, n \in S, n < N PROVE n + 1 \in S
    <3>1. n + 1 \in 0..N /\ n + 1 \in 1..N
      BY <1>1, <2>2
    <3>2. c[1..n] \in V /\ text[n + 1] \in FilterTerms
      BY <1>1, <2>2, <3>1
    <3>3. c[1..(n + 1)] \in V
      <4>1. AddTerm(c[1..n], text[n + 1]) \in V
        BY <3>2, AddTermIs
      <4>2. c[1..(n + 1)] = AddTerm(c[1..n], text[n + 1])
        BY <1>8, <2>2
      <4>3. QED
        BY <4>1, <4>2
    <3>4. QED
      BY <3>1, <3>3
  <2> HIDE DEF S
  <2>3. 0..N \subseteq S
    BY <1>1, <2>1, <2>2, Climb
  <2>4. QED
    BY <2>3 DEF S
<1>10. QED
  BY <1>5, <1>7, <1>8, <1>9

\* Up to the n-th term: cut between any two terms.
IsCut(text, n) == \A i \in 1..n : i = 1 \/ text[i].key \in CutBefore

\* Keys that a filter keeps apart.
Apart(k, l) == k # l /\ ~({k, l} \subseteq LabelKeys)

\* What the parts of a text say of its first n terms, none of which shares its key.
PartsMean(text, n, ps) ==
  /\ ps \in Seq(FilterTerms)
  /\ n = 0 <=> ps = <<>>
  /\ \A j \in DOMAIN ps : \E i \in 1..n : ps[j].key = text[i].key
  /\ \A j, k \in DOMAIN ps : j # k => Apart(ps[j].key, ps[k].key)
  /\ IsCut(text, n) => Len(ps) = n /\ \A i \in 1..n : ps[i] = text[i]
  /\ ~IsCut(text, n) => \E j \in DOMAIN ps : Garbled \in ToSet(ps[j].values)

LEMMA PartsStep ==
  ASSUME NEW text \in Seq(FilterTerms), NamesNoKeyTwice(text),
         NEW n \in 0..Len(text), n < Len(text), NEW ps, PartsMean(text, n, ps)
  PROVE  PartsMean(text, n + 1, AddTerm(ps, text[n + 1]))
<1> DEFINE t == text[n + 1]
           qs == AddTerm(ps, t)
           m == Len(ps)
<1>1. n \in Nat /\ n + 1 \in 1..Len(text) /\ t \in FilterTerms /\ DOMAIN text = 1..Len(text)
  OBVIOUS
<1>2. ps \in Seq(FilterTerms) /\ m \in Nat /\ DOMAIN ps = 1..m
  BY DEF PartsMean
<1>3. qs \in Seq(FilterTerms) /\ qs # <<>> /\ DOMAIN qs = 1..Len(qs)
  BY <1>1, <1>2, AddTermIs
<1>4. \A i \in 1..n : Apart(text[i].key, t.key) /\ Apart(t.key, text[i].key)
  <2> SUFFICES ASSUME NEW i \in 1..n PROVE Apart(text[i].key, t.key) /\ Apart(t.key, text[i].key)
    OBVIOUS
  <2>1. i \in DOMAIN text /\ n + 1 \in DOMAIN text /\ i # n + 1
    BY <1>1
  <2>2. QED
    BY <2>1 DEF NamesNoKeyTwice, Apart
<1>5. 1..n \subseteq 1..(n + 1) /\ n + 1 \in 1..(n + 1)
      /\ \A i \in 1..(n + 1) : i \in 1..n \/ i = n + 1
  BY <1>1
<1>6. IsCut(text, n + 1) <=> IsCut(text, n) /\ (n = 0 \/ t.key \in CutBefore)
  BY <1>1, <1>5 DEF IsCut
<1>7. CASE t.key \in CutBefore \/ ps = <<>>
  <2>1. Len(qs) = m + 1 /\ qs[m + 1] = t /\ \A i \in 1..m : qs[i] = ps[i]
    BY <1>1, <1>2, <1>7, AddTermIs
  <2>2. \A j \in DOMAIN qs : j \in DOMAIN ps \/ j = m + 1
    BY <1>2, <1>3, <2>1
  <2>3. DOMAIN ps \subseteq DOMAIN qs /\ \A j \in DOMAIN ps : j # m + 1 /\ qs[j] = ps[j]
    BY <1>2, <1>3, <2>1
  <2> HIDE DEF t, qs, m
  <2>4. \A j \in DOMAIN qs : \E i \in 1..(n + 1) : qs[j].key = text[i].key
    BY <1>5, <2>1, <2>2, <2>3 DEF PartsMean, t
  <2>5. \A j, k \in DOMAIN qs : j # k => Apart(qs[j].key, qs[k].key)
    <3>1. \A j \in DOMAIN ps : Apart(ps[j].key, t.key) /\ Apart(t.key, ps[j].key)
      BY <1>4 DEF PartsMean
    <3>2. QED
      BY <2>1, <2>2, <2>3, <3>1 DEF PartsMean
  <2>6. IsCut(text, n + 1) => Len(qs) = n + 1 /\ \A i \in 1..(n + 1) : qs[i] = text[i]
    <3> SUFFICES ASSUME IsCut(text, n + 1)
                 PROVE  Len(qs) = n + 1 /\ \A i \in 1..(n + 1) : qs[i] = text[i]
      OBVIOUS
    <3>1. m = n /\ \A i \in 1..n : ps[i] = text[i]
      BY <1>6 DEF PartsMean, m
    <3>2. QED
      BY <1>5, <2>1, <3>1 DEF t
  <2>7. ~IsCut(text, n + 1) => \E j \in DOMAIN qs : Garbled \in ToSet(qs[j].values)
    <3>1. t.key \in CutBefore \/ n = 0
      BY <1>7 DEF PartsMean, t
    <3>2. QED
      BY <1>6, <2>3, <3>1 DEF PartsMean
  <2>8. n + 1 # 0
    BY <1>1
  <2>9. PartsMean(text, n + 1, qs)
    BY <1>3, <2>4, <2>5, <2>6, <2>7, <2>8 DEF PartsMean
  <2>10. QED
    BY <2>9 DEF qs, t
<1>8. CASE t.key \notin CutBefore /\ ps # <<>>
  <2> DEFINE g == Glued(ps[m], t)
  <2>1. /\ Len(qs) = m /\ m \in Nat \ {0} /\ qs[m] = g /\ ps[m] \in FilterTerms
        /\ \A i \in 1..m : i # m => qs[i] = ps[i]
    BY <1>1, <1>2, <1>8, AddTermIs
  <2>2. g.key = ps[m].key /\ Garbled \in ToSet(g.values)
    BY <1>1, <2>1, GluedType
  <2> HIDE DEF t, qs, m, g
  <2>3. DOMAIN qs = DOMAIN ps /\ m \in DOMAIN qs
    BY <1>2, <1>3, <2>1
  <2>4. \A j \in DOMAIN qs : qs[j].key = ps[j].key
    BY <1>2, <2>1, <2>2, <2>3
  <2>5. n # 0 /\ ~IsCut(text, n + 1) /\ n + 1 # 0
    BY <1>1, <1>6, <1>8 DEF PartsMean
  <2>6. \A j \in DOMAIN qs : \E i \in 1..(n + 1) : qs[j].key = text[i].key
    BY <1>5, <2>3, <2>4 DEF PartsMean
  <2>7. \A j, k \in DOMAIN qs : j # k => Apart(qs[j].key, qs[k].key)
    BY <2>3, <2>4 DEF PartsMean
  <2>8. \E j \in DOMAIN qs : Garbled \in ToSet(qs[j].values)
    BY <2>1, <2>2, <2>3
  <2>9. PartsMean(text, n + 1, qs)
    BY <1>3, <2>5, <2>6, <2>7, <2>8 DEF PartsMean
  <2>10. QED
    BY <2>9 DEF qs, t
<1>9. QED
  BY <1>7, <1>8

LEMMA PartsAre ==
  ASSUME NEW text \in Seq(FilterTerms), NamesNoKeyTwice(text)
  PROVE  PartsMean(text, Len(text), Parts(text))
<1> DEFINE N == Len(text)
<1>1. N \in Nat
  OBVIOUS
<1>2. PICK c : /\ \A n \in 0..N : c[1..n] \in Seq(FilterTerms)
               /\ c[1..0] = <<>>
               /\ \A n \in 0..N : n < N => c[1..(n + 1)] = AddTerm(c[1..n], text[n + 1])
               /\ Parts(text) = c[1..N]
  BY PartsSteps
<1> DEFINE S == {n \in 0..N : PartsMean(text, n, c[1..n])}
<1>3. 0 \in S
  <2>1. 0 \in 0..N /\ c[1..0] = <<>> /\ c[1..0] \in Seq(FilterTerms)
    BY <1>1, <1>2
  <2>2. 1..0 = {} /\ IsCut(text, 0) /\ Len(<<>>) = 0 /\ DOMAIN <<>> = {}
    BY DEF IsCut
  <2>3. PartsMean(text, 0, c[1..0])
    BY <2>1, <2>2 DEF PartsMean
  <2>4. QED
    BY <2>1, <2>3
<1>4. ASSUME NEW n \in 0..N, n \in S, n < N PROVE n + 1 \in S
  <2>1. PartsMean(text, n, c[1..n])
    BY <1>4
  <2>2. PartsMean(text, n + 1, AddTerm(c[1..n], text[n + 1]))
    BY <1>4, <2>1, PartsStep
  <2>3. c[1..(n + 1)] = AddTerm(c[1..n], text[n + 1])
    BY <1>2, <1>4
  <2>4. n + 1 \in 0..N
    BY <1>1, <1>4
  <2>5. QED
    BY <2>2, <2>3, <2>4
<1> HIDE DEF S
<1>5. 0..N \subseteq S
  BY <1>1, <1>3, <1>4, Climb
<1>6. QED
  BY <1>1, <1>2, <1>5 DEF S
\* A filter, and the parts it is made of.
FilterType == [Keys -> Seq(STRING)]
KnownTerms == {t \in FilterTerms : t.key \in Keys}

\* What a part leaves in the filter.
Final(part) ==
  IF part.key \in LabelKeys /\ Len(part.values) # 1 THEN <<Garbled>> ELSE part.values

LEMMA FinalType == ASSUME NEW t \in FilterTerms PROVE Final(t) \in Seq(STRING) /\ Final(t) # <<>>
<1>1. t.values \in Seq(STRING) /\ t.values # <<>> /\ Garbled \in STRING
  BY FilterAssumption DEF FilterTerms
<1>2. <<Garbled>> \in Seq(STRING) /\ <<Garbled>> # <<>>
  BY <1>1
<1>3. QED
  BY <1>1, <1>2 DEF Final

LEMMA AssignIs ==
  ASSUME NEW f \in FilterType, NEW t \in KnownTerms
  PROVE  /\ Assign(f, t) \in FilterType
         /\ Assign(f, t)[t.key] = Final(t)
         /\ \A k \in Keys : Apart(k, t.key) => Assign(f, t)[k] = f[k]
         /\ \A k \in Keys : k # t.key /\ f[k] = <<>> => Assign(f, t)[k] = <<>>
<1> DEFINE a == Assign(f, t)
<1>1. t \in FilterTerms /\ t.key \in Keys /\ Final(t) \in Seq(STRING) /\ <<>> \in Seq(STRING)
  BY FinalType DEF KnownTerms
<1>2. f \in [Keys -> Seq(STRING)]
  BY DEF FilterType
<1>3. CASE t.key \in LabelKeys
  <2>1. a = [k \in Keys |-> CASE k = t.key -> Final(t)
                              [] k \in LabelKeys \ {t.key} -> <<>>
                              [] OTHER -> f[k]]
    BY <1>3 DEF Assign, Final
  <2>2. a[t.key] = Final(t)
    BY <1>1, <2>1
  <2>3. \A k \in Keys : k \in LabelKeys \ {t.key} => a[k] = <<>>
    BY <2>1
  <2>4. \A k \in Keys : k # t.key /\ k \notin LabelKeys => a[k] = f[k]
    BY <2>1
  <2>5. a \in [Keys -> Seq(STRING)]
    <3>1. \A k \in Keys : a[k] \in Seq(STRING)
      BY <1>1, <1>2, <2>2, <2>3, <2>4
    <3>2. QED
      BY <2>1, <3>1
  <2> HIDE DEF a
  <2>6. \A k \in Keys : Apart(k, t.key) => k # t.key /\ k \notin LabelKeys
    BY <1>3 DEF Apart
  <2>7. QED
    BY <2>2, <2>3, <2>4, <2>5, <2>6 DEF FilterType, a
<1>4. CASE t.key \notin LabelKeys
  <2>1. a = [f EXCEPT ![t.key] = Final(t)]
    BY <1>4 DEF Assign, Final
  <2>2. a \in FilterType /\ a[t.key] = Final(t) /\ \A k \in Keys : k # t.key => a[k] = f[k]
    BY <1>1, <1>2, <2>1 DEF FilterType
  <2>3. QED
    BY <2>2 DEF Apart
<1>5. QED
  BY <1>3, <1>4

\* What the filter says after n parts.
FilterMeans(ps, n, f) ==
  /\ f \in FilterType
  /\ \A i \in 1..n : f[ps[i].key] = Final(ps[i])
  /\ \A k \in Keys : (\A i \in 1..n : ps[i].key # k) => f[k] = <<>>

LEMMA AssignStep ==
  ASSUME NEW ps \in Seq(KnownTerms), NEW n \in 0..Len(ps), n < Len(ps),
         \A j, k \in DOMAIN ps : j # k => Apart(ps[j].key, ps[k].key),
         NEW f, FilterMeans(ps, n, f)
  PROVE  FilterMeans(ps, n + 1, Assign(f, ps[n + 1]))
<1> DEFINE t == ps[n + 1]
           g == Assign(f, t)
<1>1. n \in Nat /\ n + 1 \in 1..Len(ps) /\ t \in KnownTerms /\ DOMAIN ps = 1..Len(ps)
  OBVIOUS
<1>2. /\ 1..n \subseteq 1..(n + 1) /\ n + 1 \in 1..(n + 1) /\ 1..n \subseteq DOMAIN ps
      /\ \A i \in 1..n : i # n + 1
      /\ \A i \in 1..(n + 1) : i \in 1..n \/ i = n + 1
  BY <1>1
<1>3. \A i \in 1..n : ps[i].key \in Keys /\ Apart(ps[i].key, t.key)
  BY <1>1, <1>2 DEF KnownTerms
<1>4. /\ g \in FilterType /\ g[t.key] = Final(t)
      /\ \A k \in Keys : Apart(k, t.key) => g[k] = f[k]
      /\ \A k \in Keys : k # t.key /\ f[k] = <<>> => g[k] = <<>>
  BY <1>1, AssignIs DEF FilterMeans
<1> HIDE DEF g
<1>5. \A i \in 1..(n + 1) : g[ps[i].key] = Final(ps[i])
  BY <1>2, <1>3, <1>4 DEF FilterMeans
<1>6. ASSUME NEW k \in Keys, \A i \in 1..(n + 1) : ps[i].key # k PROVE g[k] = <<>>
  BY <1>2, <1>4, <1>6 DEF FilterMeans
<1>7. FilterMeans(ps, n + 1, g)
  BY <1>4, <1>5, <1>6 DEF FilterMeans
<1>8. QED
  BY <1>7 DEF g

\* The filter of known parts that are apart.
LEMMA FilterIs ==
  ASSUME NEW ps \in Seq(KnownTerms),
         \A j, k \in DOMAIN ps : j # k => Apart(ps[j].key, ps[k].key)
  PROVE  FilterMeans(ps, Len(ps), FoldLeft(Assign, NoFilter, ps))
<1> DEFINE N == Len(ps)
           P == [q \in FilterType \X KnownTerms |-> Assign(q[1], q[2])]
           F(c) == c = [s \in SUBSET DOMAIN ps |->
                          IF s = {} THEN NoFilter ELSE Assign(c[s \ {Max(s)}], ps[Max(s)])]
<1>1. N \in Nat /\ DOMAIN ps = 1..N
  OBVIOUS
<1>2. \E c : F(c)
  <2>1. P \in [FilterType \X KnownTerms -> FilterType]
    BY AssignIs
  <2>2. \A v \in FilterType, t \in KnownTerms : P[<<v, t>>] = Assign(v, t)
    OBVIOUS
  <2>3. NoFilter \in FilterType
    BY DEF NoFilter, FilterType
  <2> HIDE DEF P
  <2>4. PICK c : FoldsTo(P, NoFilter, ps, c) /\ \A s \in SUBSET DOMAIN ps : c[s] \in FilterType
    BY <2>1, <2>3, FoldTyped
  <2>5. ASSUME NEW s \in SUBSET DOMAIN ps, s # {}
        PROVE  P[<<c[s \ {Max(s)}], ps[Max(s)]>>] = Assign(c[s \ {Max(s)}], ps[Max(s)])
    <3>1. Max(s) \in 1..N /\ s \ {Max(s)} \in SUBSET DOMAIN ps
      BY <1>1, <2>5, LastIndex
    <3>2. ps[Max(s)] \in KnownTerms
      BY <3>1
    <3>3. c[s \ {Max(s)}] \in FilterType
      BY <2>4, <3>1
    <3>4. QED
      BY <2>2, <3>2, <3>3
  <2>6. c = [s \in SUBSET DOMAIN ps |->
               IF s = {} THEN NoFilter ELSE P[<<c[s \ {Max(s)}], ps[Max(s)]>>]]
    BY <2>4 DEF FoldsTo
  <2>7. F(c)
    BY <2>5, <2>6
  <2> HIDE DEF F
  <2>8. QED
    BY <2>7
<1> DEFINE c == CHOOSE f : F(f)
<1>3. FoldLeft(Assign, NoFilter, ps) = c[1..N]
  BY <1>1 DEF FoldLeft, MapThenFoldSet
<1>4. F(c)
  BY <1>2
<1> HIDE DEF c
<1> DEFINE S == {n \in 0..N : FilterMeans(ps, n, c[1..n])}
<1>5. 0 \in S
  <2>1. 1..0 = {} /\ {} \in SUBSET DOMAIN ps
    OBVIOUS
  <2>2. c[1..0] = NoFilter
    BY <1>4, <2>1
  <2>3. NoFilter \in FilterType /\ \A k \in Keys : NoFilter[k] = <<>>
    BY DEF NoFilter, FilterType
  <2>4. 0 \in 0..N
    BY <1>1
  <2>5. QED
    BY <2>1, <2>2, <2>3, <2>4 DEF FilterMeans
<1>6. ASSUME NEW n \in 0..N, n \in S, n < N PROVE n + 1 \in S
  <2> DEFINE p == 1..(n + 1)
             q == 1..n
  <2>1. p # {} /\ p \in SUBSET DOMAIN ps
    BY <1>1, <1>6, PrefixIn
  <2>2. Max(p) = n + 1 /\ p \ {n + 1} = q
    <3>1. n \in Nat
      BY <1>1
    <3>2. QED
      BY <3>1, PrefixLast
  <2> HIDE DEF p, q
  <2>3. c[p] = Assign(c[q], ps[n + 1])
    BY <1>4, <2>1, <2>2
  <2>4. FilterMeans(ps, n, c[q])
    BY <1>6 DEF q
  <2>5. FilterMeans(ps, n + 1, c[p])
    BY <1>6, <2>3, <2>4, AssignStep
  <2>6. n + 1 \in 0..N
    BY <1>1, <1>6
  <2>7. QED
    BY <2>5, <2>6 DEF p
<1> HIDE DEF S
<1>7. 0..N \subseteq S
  BY <1>1, <1>5, <1>6, Climb
<1>8. QED
  BY <1>1, <1>3, <1>7 DEF S
\* What Prometheus is asked to match for a text that was accepted: what it asks for, all of it
\* or nothing.
LEMMA WholeOrNone ==
  ASSUME NEW text \in Seq(FilterTerms), NamesNoKeyTwice(text), Accepted(text),
         NEW matchers, matchers = Matchers(Selector(ParseFilter(text)), "pod")
  PROVE  \/ matchers = AskedFor(text)
         \/ /\ DOMAIN matchers = {}
            /\ \E i \in DOMAIN text :
                 LET t == text[i]
                 IN  \/ ~IsRequirement(t.key, t.values)
                     \/ t.key \in LabelKeys /\ Len(t.values) > 1
                     \/ t.key \notin CutBefore /\ i > 1
<1> DEFINE N == Len(text)
           ps == Parts(text)
           f == FoldLeft(Assign, NoFilter, ps)
           g == ParseFilter(text)
           CK == "controllerKind"
<1>1. N \in Nat /\ DOMAIN text = 1..N /\ \A i \in 1..N : text[i] \in FilterTerms
  OBVIOUS
<1>2. PartsMean(text, N, ps)
  BY PartsAre
<1>3. ps \in Seq(FilterTerms) /\ DOMAIN ps = 1..Len(ps) /\ Len(ps) \in Nat
  BY <1>2 DEF PartsMean
<1>4. ps \in Seq(KnownTerms) /\ \A j \in DOMAIN ps : ps[j] \in KnownTerms
  <2>1. \A j \in DOMAIN ps : ps[j] \in FilterTerms /\ ps[j].key \in Keys
    BY <1>3 DEF Accepted, ToSet
  <2>2. \A j \in DOMAIN ps : ps[j] \in KnownTerms
    BY <2>1 DEF KnownTerms
  <2> HIDE DEF ps
  <2>3. QED
    BY <1>3, <2>2
<1>5. FilterMeans(ps, Len(ps), f)
  <2>1. \A j, k \in DOMAIN ps : j # k => Apart(ps[j].key, ps[k].key)
    BY <1>2 DEF PartsMean
  <2> HIDE DEF ps
  <2>2. QED
    BY <1>4, <2>1, FilterIs
<1>6. ToSet(f[CK]) \subseteq DOMAIN Kind
  BY DEF Accepted
<1>7. g = [f EXCEPT ![CK] = [i \in DOMAIN f[CK] |-> Kind[f[CK][i]]]]
  BY DEF ParseFilter
<1> HIDE DEF ps, f, g
<1>8. CK \in Keys /\ CK \notin LabelKeys /\ CK # "prefixedLabel"
  BY DEF Keys, LabelKeys
<1>9. /\ f \in [Keys -> Seq(STRING)]
      /\ \A k \in Keys : k # CK => g[k] = f[k]
      /\ g[CK] = [i \in DOMAIN f[CK] |-> Kind[f[CK][i]]]
      /\ DOMAIN g = Keys
  BY <1>5, <1>7, <1>8 DEF FilterMeans, FilterType
<1>10. /\ DOMAIN g[CK] = DOMAIN f[CK]
       /\ ToSet(g[CK]) = {Kind[v] : v \in ToSet(f[CK])}
       /\ IsRequirement(CK, g[CK])
  <2>1. DOMAIN g[CK] = DOMAIN f[CK] /\ \A i \in DOMAIN f[CK] : g[CK][i] = Kind[f[CK][i]]
    BY <1>9
  <2>2. ToSet(g[CK]) = {Kind[v] : v \in ToSet(f[CK])}
    BY <2>1 DEF ToSet
  <2>3. \A v \in ToSet(g[CK]) : v \notin Illegal
    BY <1>6, <2>2, FilterAssumption
  <2>4. ToSet(g[CK]) \cap Illegal = {}
    BY <2>3
  <2>5. QED
    BY <1>8, <2>1, <2>2, <2>4 DEF IsRequirement
<1>11. \A k \in Keys : g[k] # <<>> <=> f[k] # <<>>
  <2>1. f[CK] \in Seq(STRING) /\ <<>> \in Seq(STRING) /\ DOMAIN <<>> = {}
    BY <1>8, <1>9
  <2>2. f[CK] # <<>> => DOMAIN f[CK] # {}
    <3> DEFINE s == f[CK]
    <3> HIDE DEF s
    <3>1. s \in Seq(STRING) /\ s # <<>> => 1 \in DOMAIN s
      OBVIOUS
    <3>2. QED
      BY <2>1, <3>1 DEF s
  <2>3. g[CK] = <<>> <=> f[CK] = <<>>
    <3>1. f[CK] = <<>> => g[CK] = <<>>
      BY <1>9
    <3>2. g[CK] = <<>> => DOMAIN f[CK] = {}
      BY <1>10, <2>1
    <3>3. QED
      BY <2>2, <3>1, <3>2
  <2>4. QED
    BY <1>9, <2>3
\* A filter that has an illegal requirement selects nothing in particular.
<1>12. ASSUME NEW k \in Keys, g[k] # <<>>, ~IsRequirement(k, g[k]) PROVE DOMAIN matchers = {}
  <2>1. Selector(g) = NoFilter
    BY <1>12 DEF Selector
  <2>2. \A k1 \in Keys : NoFilter[k1] = <<>>
    BY DEF NoFilter
  <2>3. QED
    BY <2>1, <2>2 DEF Matchers, g
<1>13. CASE ~IsCut(text, N)
  <2>1. PICK j \in DOMAIN ps : Garbled \in ToSet(ps[j].values)
    BY <1>2, <1>13 DEF PartsMean
  <2> DEFINE k == ps[j].key
  <2>2. k \in Keys /\ ps[j] \in FilterTerms /\ f[k] = Final(ps[j])
    BY <1>3, <1>4, <1>5 DEF KnownTerms, FilterMeans
  <2>3. Garbled \in ToSet(f[k])
    <3>1. 1 \in DOMAIN <<Garbled>> /\ <<Garbled>>[1] = Garbled
      OBVIOUS
    <3>2. Garbled \in ToSet(<<Garbled>>)
      BY <3>1 DEF ToSet
    <3>3. QED
      BY <2>1, <2>2, <3>2 DEF Final
  <2> HIDE DEF k
  <2>4. k # CK
    BY <1>6, <2>3, FilterAssumption
  <2>5. f[k] # <<>>
    <3>1. ToSet(<<>>) = {}
      BY DEF ToSet
    <3>2. QED
      BY <2>3, <3>1
  <2>6. g[k] # <<>> /\ ~IsRequirement(k, g[k])
    BY <1>9, <2>2, <2>3, <2>4, <2>5, FilterAssumption DEF IsRequirement
  <2>7. DOMAIN matchers = {}
    BY <1>12, <2>2, <2>6
  <2>8. PICK i \in 1..N : i # 1 /\ text[i].key \notin CutBefore
    BY <1>13 DEF IsCut
  <2>9. i > 1 /\ i \in DOMAIN text
    BY <1>1, <2>8
  <2>10. QED
    BY <2>7, <2>8, <2>9
<1>14. CASE IsCut(text, N)
  <2>1. ps = text
    <3>1. Len(ps) = N /\ \A i \in 1..N : ps[i] = text[i]
      BY <1>2, <1>14 DEF PartsMean
    <3>2. QED
      BY <1>1, <1>3, <3>1
  <2>2. /\ \A i \in DOMAIN text : text[i].key \in Keys /\ f[text[i].key] = Final(text[i])
        /\ \A k \in Keys : (\A i \in DOMAIN text : text[i].key # k) => f[k] = <<>>
    BY <1>1, <1>4, <1>5, <2>1 DEF FilterMeans, KnownTerms
  <2>3. \A k \in Keys : f[k] # <<>> <=> k \in {t.key : t \in ToSet(text)}
    <3>1. \A i \in DOMAIN text : f[text[i].key] # <<>>
      BY <1>1, <2>2, FinalType
    <3>2. QED
      BY <2>2, <3>1 DEF ToSet
  <2>4. {t.key : t \in ToSet(text)} \subseteq Keys
    BY <2>2 DEF ToSet
  <2>5. CASE \A k \in Keys : g[k] # <<>> => IsRequirement(k, g[k])
    <3>1. Selector(g) = g
      BY <2>5 DEF Selector
    <3>2. matchers = [k \in {l \in Keys : g[l] # <<>>} |-> ToSet(g[k])]
      BY <3>1 DEF Matchers, g
    <3>3. {l \in Keys : g[l] # <<>>} = {t.key : t \in ToSet(text)}
      BY <1>11, <2>3, <2>4
    <3>4. ASSUME NEW i \in DOMAIN text PROVE f[text[i].key] = text[i].values
      <4> DEFINE k == text[i].key
      <4>1. k \in Keys /\ f[k] = Final(text[i])
        BY <2>2
      <4>2. CASE k \in LabelKeys /\ Len(text[i].values) # 1
        <5>1. f[k] = <<Garbled>>
          BY <4>1, <4>2 DEF Final
        <5>2. 1 \in DOMAIN <<Garbled>> /\ <<Garbled>>[1] = Garbled
          OBVIOUS
        <5>3. Garbled \in ToSet(f[k])
          BY <5>1, <5>2 DEF ToSet
        <5>4. f[k] # <<>> /\ k # CK
          BY <1>8, <4>2, <5>1
        <5>5. g[k] = f[k]
          BY <1>9, <4>1, <5>4
        <5>6. ~IsRequirement(k, g[k])
          BY <5>3, <5>5, FilterAssumption DEF IsRequirement
        <5>7. QED
          BY <2>5, <4>1, <5>4, <5>5, <5>6
      <4>3. CASE ~(k \in LabelKeys /\ Len(text[i].values) # 1)
        BY <4>1, <4>3 DEF Final
      <4>4. QED
        BY <4>2, <4>3
    <3>5. ASSUME NEW k \in {t.key : t \in ToSet(text)}
          PROVE  ToSet(g[k]) = LET t == CHOOSE u \in ToSet(text) : u.key = k
                               IN  IF k = "controllerKind" THEN {Kind[v] : v \in ToSet(t.values)}
                                                           ELSE ToSet(t.values)
      <4> DEFINE t == CHOOSE u \in ToSet(text) : u.key = k
      <4>1. t \in ToSet(text) /\ t.key = k
        OBVIOUS
      <4>2. PICK i \in DOMAIN text : text[i] = t
        BY <4>1 DEF ToSet
      <4>3. k \in Keys /\ f[k] = t.values
        BY <2>4, <3>4, <4>1, <4>2
      <4> HIDE DEF t
      <4>4. k # CK => ToSet(g[k]) = ToSet(t.values)
        BY <1>9, <4>3
      <4>5. k = CK => ToSet(g[k]) = {Kind[v] : v \in ToSet(t.values)}
        BY <1>10, <4>3
      <4>6. QED
        BY <4>4, <4>5 DEF t
    <3>6. matchers = AskedFor(text)
      BY <3>2, <3>3, <3>5 DEF AskedFor
    <3>7. QED
      BY <3>6
  <2>6. CASE ~(\A k \in Keys : g[k] # <<>> => IsRequirement(k, g[k]))
    <3>1. PICK k \in Keys : g[k] # <<>> /\ ~IsRequirement(k, g[k])
      BY <2>6
    <3>2. DOMAIN matchers = {}
      BY <1>12, <3>1
    <3>3. k # CK /\ g[k] = f[k] /\ f[k] # <<>>
      BY <1>9, <1>10, <3>1
    <3>4. PICK i \in DOMAIN text : text[i].key = k
      BY <2>2, <3>3
    <3>5. f[k] = Final(text[i]) /\ Len(text[i].values) \in Nat \ {0}
      <4>1. text[i].values \in Seq(STRING) /\ text[i].values # <<>>
        BY <1>1 DEF FilterTerms
      <4>2. QED
        BY <2>2, <3>4, <4>1
    <3>6. \/ ~IsRequirement(text[i].key, text[i].values)
          \/ text[i].key \in LabelKeys /\ Len(text[i].values) > 1
      <4> DEFINE v == text[i].values
      <4>1. CASE k \in LabelKeys /\ Len(v) # 1
        <5>1. Len(v) > 1
          <6> DEFINE n == Len(v)
          <6>1. n \in Nat \ {0} /\ n # 1
            BY <3>5, <4>1
          <6> HIDE DEF n
          <6>2. n > 1
            BY <6>1
          <6>3. QED
            BY <6>2 DEF n
        <5>2. QED
          BY <3>4, <4>1, <5>1
      <4>2. CASE ~(k \in LabelKeys /\ Len(v) # 1)
        <5>1. g[k] = v
          BY <3>3, <3>4, <3>5, <4>2 DEF Final
        <5>2. ~IsRequirement(k, v)
          BY <3>1, <5>1
        <5>3. QED
          BY <3>4, <5>2
      <4>3. QED
        BY <4>1, <4>2
    <3>7. QED
      BY <3>2, <3>6
  <2>7. QED
    BY <2>5, <2>6
<1>15. QED
  BY <1>13, <1>14

\* The filter of a query was accepted.
FilterInv ==
  query # Nothing => query.filter \in Filters \cup {<<>>} /\ Accepted(query.filter)

LEMMA FilterStep == FilterInv /\ [Next]_vars => FilterInv'
<1> SUFFICES ASSUME FilterInv, [Next]_vars PROVE FilterInv'
  OBVIOUS
<1>1. ASSUME NEW metric, NEW filter \in Filters \cup {<<>>}, NEW resolution, NEW lag,
             Ask(metric, filter, resolution, lag)
      PROVE  FilterInv'
  <2>1. query'.filter = filter /\ Accepted(filter)
    BY <1>1 DEF Ask, Query
  <2>2. QED
    BY <2>1 DEF FilterInv
<1>2. CASE Return
  BY <1>2 DEF Return, FilterInv
<1>3. CASE query' = query
  BY <1>3 DEF FilterInv
<1>4. QED
  BY <1>1, <1>2, <1>3 DEF Next, vars

\* The filter of a request restricts what Prometheus is asked by all its terms or by none
\* (filter.go:20-162, cost_metrics.go:180-233).
THEOREM FiltersStayWhole == Spec => []WholeFilterOrNone
<1>1. Init => FilterInv
  BY DEF Init, FilterInv
<1>2. QueryInv /\ FilterInv => WholeFilterOrNone
  <2> SUFFICES ASSUME QueryInv, FilterInv, IsAsked, query.metric = "pod",
                      NamesNoKeyTwice(query.filter)
               PROVE  WholeFilterOrNone
    BY DEF WholeFilterOrNone
  <2> DEFINE text == query.filter
  <2>1. query.matchers = Matchers(Selector(ParseFilter(text)), "pod")
    <3>1. query = Query(query.metric, text, query.resolution, query.at)
      BY DEF QueryInv, IsAsked
    <3>2. query.matchers = Matchers(Selector(ParseFilter(text)), query.metric)
      BY <3>1 DEF Query
    <3>3. QED
      BY <3>2
  <2>2. Accepted(text) /\ text \in Filters \cup {<<>>}
    BY DEF FilterInv, IsAsked
  <2>3. text \in Seq(FilterTerms)
    <3>1. CASE text = <<>>
      BY <3>1
    <3>2. CASE text \in Filters
      <4> HIDE DEF text
      <4>1. text \in Seq([key : STRING, values : Seq(STRING)])
            /\ \A i \in DOMAIN text : text[i].values # <<>>
        BY <3>2, QueryAssumption
      <4>2. \A i \in DOMAIN text : text[i] \in [key : STRING, values : Seq(STRING)]
        <5> DEFINE R == [key : STRING, values : Seq(STRING)]
        <5> HIDE DEF R
        <5>1. text \in Seq(R) => \A i \in DOMAIN text : text[i] \in R
          OBVIOUS
        <5>2. QED
          BY <4>1, <5>1 DEF R
      <4>3. \A i \in DOMAIN text : text[i] \in FilterTerms
        BY <4>1, <4>2 DEF FilterTerms
      <4>4. QED
        BY <4>1, <4>3
    <3>3. QED
      BY <2>2, <3>1, <3>2
  <2> HIDE DEF text
  <2>4. NamesNoKeyTwice(text)
    BY DEF text
  <2>5. \/ query.matchers = AskedFor(text)
        \/ /\ DOMAIN query.matchers = {}
           /\ \E i \in DOMAIN text :
                LET t == text[i]
                IN  \/ ~IsRequirement(t.key, t.values)
                    \/ t.key \in LabelKeys /\ Len(t.values) > 1
                    \/ t.key \notin CutBefore /\ i > 1
    BY <2>1, <2>2, <2>3, <2>4, WholeOrNone
  <2>6. QED
    BY <2>5 DEF WholeFilterOrNone, text
<1>3. QED
  BY <1>1, <1>2, FilterStep, QueryAlways, PTL DEF Spec
=============================================================================
