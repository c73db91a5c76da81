--------------------------- MODULE AdvanceLoopProofs ---------------------------
(* The loops of advance_by and advance_by_minutes, for every interval,      *)
(* every number of minutes, every instant and every delay: what they return *)
(* is the next occurrence of the series the form began, and Schedule's      *)
(* closed form where there is one; and what the closed form is.             *)
EXTENDS AdvanceLoop, WellFoundedInduction, TLAPS

(* The closed form. *)

\* Integer division by a positive number rounds down.
LEMMA DivBounds ==
    ASSUME NEW a \in Nat, NEW b \in Nat \ {0}
    PROVE  /\ a \div b \in Nat
           /\ (a \div b) * b <= a
           /\ a < (a \div b) * b + b
  OBVIOUS

\* The loops of advance_by and advance_by_minutes make at least one turn, end
\* on an instant after `dt` that is not in the past, and go no further than
\* the first such instant.
THEOREM AdvanceIsFirst ==
    ASSUME NEW dt \in Nat, NEW delta \in Nat \ {0}, NEW t \in Nat
    PROVE  /\ Advance(dt, delta, t) \in Nat
           /\ Advance(dt, delta, t) > dt
           /\ Advance(dt, delta, t) >= t
           /\ \/ Advance(dt, delta, t) = dt + delta
              \/ Advance(dt, delta, t) - delta < t
  <1>1. CASE dt + delta >= t
    BY <1>1 DEF Advance, Advances
  <1>2. CASE dt + delta < t
    <2> DEFINE gap == t - dt
               k == (gap + delta - 1) \div delta
    <2>1. gap \in Nat /\ gap > delta /\ gap + delta - 1 \in Nat
      BY <1>2
    <2>2. k \in Nat /\ k * delta <= gap + delta - 1 /\ gap + delta - 1 < k * delta + delta
      BY <2>1, DivBounds
    <2>3. Advance(dt, delta, t) = dt + k * delta
      BY <1>2 DEF Advance, Advances
    <2>4. k * delta \in Nat /\ k * delta >= gap
      <3> DEFINE p == k * delta
      <3>1. p \in Nat
        BY <2>2
      <3>2. p <= gap + delta - 1 /\ gap + delta - 1 < p + delta
        BY <2>2
      <3> HIDE DEF p, gap, k
      <3>3. p >= gap
        BY <3>1, <3>2, <2>1
      <3> QED
        BY <3>1, <3>3 DEF p
    <2> HIDE DEF k
    <2>5. QED
      BY <2>1, <2>2, <2>3, <2>4
  <1> QED
    BY <1>1, <1>2

\* A product is larger because a factor is.
LEMMA FactorOrder ==
    ASSUME NEW a \in Nat, NEW b \in Nat, NEW d \in Nat \ {0}, a * d < b * d
    PROVE  a < b
  <1> SUFFICES ASSUME a >= b PROVE FALSE
    OBVIOUS
  <1>1. PICK c \in Nat : a = b + c
    <2>1. a - b \in Nat /\ a = b + (a - b)
      OBVIOUS
    <2> QED BY <2>1
  <1>2. a * d = b * d + c * d
    BY <1>1
  <1>3. c * d \in Nat /\ b * d \in Nat /\ a * d \in Nat
    OBVIOUS
  <1> QED
    BY <1>2, <1>3

\* The number of turns of the loop determines its result: it is the number
\* Advances computes.
LEMMA TurnsAreAdvances ==
    ASSUME NEW dt \in Nat, NEW delta \in Nat \ {0}, NEW t \in Nat,
           NEW k \in Nat \ {0},
           dt + k * delta >= t,
           k > 1 => dt + (k - 1) * delta < t
    PROVE  dt + k * delta = Advance(dt, delta, t)
  <1>1. CASE k = 1
    BY <1>1 DEF Advance, Advances
  <1>2. CASE k > 1
    <2> DEFINE gap == t - dt
               q == (gap + delta - 1) \div delta
               kd == k * delta
               jd == (k - 1) * delta
    <2>1. kd \in Nat /\ jd \in Nat /\ kd = jd + delta
      OBVIOUS
    <2>2. jd >= delta
      <3>1. k - 2 \in Nat /\ (k - 2) * delta \in Nat
        BY <1>2
      <3>2. jd = (k - 2) * delta + delta
        OBVIOUS
      <3> QED BY <3>1, <3>2
    <2>3. dt + jd < t /\ dt + kd >= t
      BY <1>2
    <2> HIDE DEF kd, jd
    <2>4. gap + delta - 1 \in Nat /\ dt + delta < t
      BY <2>1, <2>2, <2>3
    <2>5. q \in Nat /\ q * delta <= gap + delta - 1 /\ gap + delta - 1 < q * delta + delta
      BY <2>4, DivBounds
    <2>6. Advance(dt, delta, t) = dt + q * delta
      BY <2>4 DEF Advance, Advances
    <2> HIDE DEF q
    <2> DEFINE qd == q * delta
    <2>7. qd \in Nat /\ qd <= gap + delta - 1 /\ gap + delta - 1 < qd + delta
      BY <2>5
    <2>8. (q + 1) * delta = qd + delta /\ (k + 1) * delta = kd + delta
      BY <2>5 DEF kd
    <2> HIDE DEF qd
    <2>9. kd < qd + delta /\ qd < kd + delta
      BY <2>1, <2>3, <2>7
    <2>10. k < q + 1 /\ q < k + 1
      <3>1. k * delta < (q + 1) * delta /\ q * delta < (k + 1) * delta
        BY <2>8, <2>9 DEF kd, qd
      <3>2. q + 1 \in Nat /\ k + 1 \in Nat
        BY <2>5
      <3> QED BY <3>1, <3>2, <2>5, FactorOrder
    <2>11. q = k
      BY <2>10, <2>5
    <2> QED
      BY <2>6, <2>11
  <1> QED
    BY <1>1, <1>2

-----------------------------------------------------------------------------
(* Induction and recursion over the natural numbers. *)

\* The order of the natural numbers, as a relation.
Below == {pair \in Nat \X Nat : pair[1] < pair[2]}

\* No sequence of natural numbers goes down for ever.
LEMMA BelowWellFounded == IsWellFoundedOn(Below, Nat)
  BY NatLessThanWellFounded DEF OpToRel, Below

\* Induction, for a set in the place of a predicate.
LEMMA SetInduction ==
    ASSUME NEW X \in SUBSET Nat, 0 \in X, \A n \in X : n + 1 \in X
    PROVE  X = Nat
  <1> SUFFICES ASSUME Nat \ X # {} PROVE FALSE
    OBVIOUS
  <1>1. PICK least \in Nat \ X : \A n \in Nat \ X : ~(<<n, least>> \in Below)
    BY BelowWellFounded, WFMin, Nat \ X \subseteq Nat
  <1>2. least \in Nat /\ least # 0 /\ least - 1 \in Nat
    BY <1>1
  <1>3. <<least - 1, least>> \in Below
    BY <1>2 DEF Below
  <1>4. least - 1 \in X
    BY <1>1, <1>2, <1>3
  <1> QED
    BY <1>1, <1>2, <1>4

\* h starts from a, and goes on from one value to the next by the rule G.
Iterates(h, S, a, G) ==
    /\ h \in [Nat -> S]
    /\ h[0] = a
    /\ \A k \in Nat : h[k + 1] = G[<<k, h[k]>>]

\* Such a function exists.
LEMMA Iteration ==
    ASSUME NEW S, NEW a \in S, NEW G \in [Nat \X S -> S]
    PROVE  \E h : Iterates(h, S, a, G)
  <1> DEFINE Follows(h, n) == h[0] = a /\ \A k \in 0 .. n - 1 : h[k + 1] = G[<<k, h[k]>>]
             Partial(n) == {h \in [0 .. n -> S] : Follows(h, n)}
  <1>1. ASSUME NEW n \in Nat, NEW m \in 0 .. n, NEW f \in Partial(m), NEW g \in Partial(n),
               NEW k \in 0 .. m
        PROVE  f[k] = g[k]
    <2> DEFINE X == {i \in Nat : i <= m => f[i] = g[i]}
    <2>1. 0 \in X
      OBVIOUS
    <2>2. ASSUME NEW i \in X PROVE i + 1 \in X
      <3> SUFFICES ASSUME i + 1 <= m PROVE f[i + 1] = g[i + 1]
        OBVIOUS
      <3>1. i \in 0 .. m - 1 /\ i \in 0 .. n - 1 /\ f[i] = g[i]
        OBVIOUS
      <3> QED BY <3>1
    <2> HIDE DEF X
    <2>3. X = Nat
      <3>1. X \in SUBSET Nat BY DEF X
      <3> QED BY <3>1, <2>1, <2>2, SetInduction
    <2> QED BY <2>3 DEF X
  <1>2. \A n \in Nat : Partial(n) # {}
    <2> DEFINE X == {n \in Nat : Partial(n) # {}}
    <2>1. 0 \in X
      <3> DEFINE f == [i \in 0 .. 0 |-> a]
      <3>1. f \in Partial(0)
        OBVIOUS
      <3> QED BY <3>1
    <2>2. ASSUME NEW n \in X PROVE n + 1 \in X
      <3>1. PICK f \in [0 .. n -> S] : Follows(f, n)
        OBVIOUS
      <3> DEFINE g == [i \in 0 .. n + 1 |-> IF i = n + 1 THEN G[<<n, f[n]>>] ELSE f[i]]
      <3>2. g \in [0 .. n + 1 -> S]
        OBVIOUS
      <3>3. g[0] = a
        BY <3>1
      <3>4. ASSUME NEW k \in 0 .. (n + 1) - 1 PROVE g[k + 1] = G[<<k, g[k]>>]
        <4>1. k \in 0 .. n /\ k + 1 \in 0 .. n + 1 /\ g[k] = f[k]
          OBVIOUS
        <4>2. CASE k = n
          BY <4>1, <4>2
        <4>3. CASE k # n
          <5>1. k \in 0 .. n - 1 /\ g[k + 1] = f[k + 1]
            BY <4>1, <4>3
          <5> QED BY <5>1, <4>1, <3>1
        <4> QED BY <4>2, <4>3
      <3> HIDE DEF g
      <3>5. g \in Partial(n + 1)
        BY <3>2, <3>3, <3>4
      <3> QED BY <3>5
    <2> HIDE DEF X
    <2>3. X = Nat
      <3>1. X \in SUBSET Nat BY DEF X
      <3> QED BY <3>1, <2>1, <2>2, SetInduction
    <2> QED BY <2>3 DEF X
  <1> DEFINE upto == [n \in Nat |-> CHOOSE f \in Partial(n) : TRUE]
             h == [n \in Nat |-> upto[n][n]]
  <1>3. ASSUME NEW n \in Nat PROVE upto[n] \in Partial(n)
    BY <1>2
  <1> HIDE DEF upto
  <1>4. h \in [Nat -> S]
    <2> SUFFICES ASSUME NEW n \in Nat PROVE upto[n][n] \in S
      OBVIOUS
    <2>1. upto[n] \in [0 .. n -> S]
      BY <1>3
    <2> QED BY <2>1
  <1>5. h[0] = a
    BY <1>3
  <1>6. ASSUME NEW k \in Nat PROVE h[k + 1] = G[<<k, h[k]>>]
    <2>1. k + 1 \in Nat /\ k \in 0 .. k + 1 /\ k \in 0 .. k /\ k \in 0 .. (k + 1) - 1
      OBVIOUS
    <2>2. upto[k] \in Partial(k) /\ upto[k + 1] \in Partial(k + 1)
      BY <2>1, <1>3
    <2>3. upto[k + 1][k + 1] = G[<<k, upto[k + 1][k]>>]
      BY <2>1, <2>2
    <2> HIDE DEF Partial
    <2>4. upto[k][k] = upto[k + 1][k]
      BY <2>1, <2>2, <1>1
    <2> QED BY <2>1, <2>3, <2>4
  <1> QED
    BY <1>4, <1>5, <1>6 DEF Iterates

-----------------------------------------------------------------------------
(* The calendar. *)

\* A month has 28 to 31 days.
LEMMA MonthLengths == \A k \in Nat : MonthLength(k) \in 28 .. 31
  BY DEF MonthLength

\* MonthStart is what its equation says: the sum of the months before.
LEMMA MonthStarts ==
    /\ MonthStart \in [Nat -> Nat]
    /\ MonthStart[0] = 0
    /\ \A k \in Nat : MonthStart[k + 1] = MonthStart[k] + MonthLength(k)
  <1> DEFINE G == [p \in Nat \X Nat |-> p[2] + MonthLength(p[1])]
             Sums(f) == f = [k \in Nat |-> IF k = 0 THEN 0
                                           ELSE f[k - 1] + MonthLength(k - 1)]
  <1>1. PICK h : Iterates(h, Nat, 0, G)
    <2>1. G \in [Nat \X Nat -> Nat]
      BY MonthLengths
    <2> HIDE DEF G
    <2>2. 0 \in Nat
      OBVIOUS
    <2> QED BY <2>1, <2>2, Iteration
  <1>2. \A k \in Nat : h[k + 1] = h[k] + MonthLength(k)
    BY <1>1 DEF Iterates
  <1>3. Sums(h)
    <2> DEFINE g == [k \in Nat |-> IF k = 0 THEN 0 ELSE h[k - 1] + MonthLength(k - 1)]
    <2>1. ASSUME NEW k \in Nat PROVE h[k] = g[k]
      <3>1. CASE k = 0
        BY <3>1, <1>1 DEF Iterates
      <3>2. CASE k # 0
        <4>1. k - 1 \in Nat /\ (k - 1) + 1 = k
          BY <3>2
        <4>2. h[(k - 1) + 1] = h[k - 1] + MonthLength(k - 1)
          BY <4>1, <1>2
        <4> QED BY <3>2, <4>1, <4>2
      <3> QED BY <3>1, <3>2
    <2> QED BY <2>1, <1>1 DEF Iterates
  <1>4. Sums(MonthStart)
    <2>1. MonthStart = CHOOSE f : Sums(f)
      BY DEF MonthStart
    <2> HIDE DEF Sums
    <2> QED BY <2>1, <1>3
  <1> DEFINE M == MonthStart
  <1>5. Sums(M)
    BY <1>4
  <1> HIDE DEF M
  <1>6. \A k \in Nat : M[k] = IF k = 0 THEN 0 ELSE M[k - 1] + MonthLength(k - 1)
    BY <1>5
  <1>7. M[0] = 0 /\ \A k \in Nat : M[k + 1] = M[k] + MonthLength(k)
    BY <1>6
  <1>8. ASSUME NEW n \in Nat PROVE M[n] \in Nat
    <2> DEFINE X == {k \in Nat : M[k] \in Nat}
    <2>1. X \in SUBSET Nat /\ 0 \in X /\ \A k \in X : k + 1 \in X
      BY <1>7, MonthLengths
    <2> HIDE DEF X
    <2>2. X = Nat
      BY <2>1, SetInduction
    <2> QED BY <2>2 DEF X
  <1>9. M \in [Nat -> Nat]
    BY <1>5, <1>8
  <1> QED
    BY <1>7, <1>9 DEF M

\* Months later is at least so many times 28 days later.
LEMMA MonthsApart ==
    ASSUME NEW k \in Nat, NEW m \in Nat
    PROVE  MonthStart[k + m] >= MonthStart[k] + 28 * m
  <1> DEFINE X == {j \in Nat : MonthStart[k + j] >= MonthStart[k] + 28 * j}
  <1>1. 0 \in X
    BY MonthStarts
  <1>2. ASSUME NEW j \in X PROVE j + 1 \in X
    <2>1. MonthStart[k + (j + 1)] = MonthStart[k + j] + MonthLength(k + j)
      <3>1. k + j \in Nat /\ k + (j + 1) = (k + j) + 1
        OBVIOUS
      <3> QED BY <3>1, MonthStarts
    <2>2. MonthLength(k + j) \in 28 .. 31 /\ MonthStart[k + j] \in Nat /\ MonthStart[k] \in Nat
      BY MonthLengths, MonthStarts
    <2> QED BY <2>1, <2>2
  <1>3. X \in SUBSET Nat
    OBVIOUS
  <1> HIDE DEF X
  <1>4. X = Nat
    BY <1>1, <1>2, <1>3, SetInduction
  <1> QED
    BY <1>4 DEF X

\* Every date lies in a month, which MonthOf finds.
LEMMA MonthOfDate ==
    ASSUME NEW date \in Nat
    PROVE  /\ MonthOf(date) \in Nat
           /\ MonthStart[MonthOf(date)] <= date
           /\ date < MonthStart[MonthOf(date) + 1]
  <1> DEFINE X == {k \in Nat : MonthStart[k] <= date}
  <1>1. PICK k \in X : k + 1 \notin X
    <2> SUFFICES ASSUME \A k \in X : k + 1 \in X PROVE FALSE
      OBVIOUS
    <2>1. 0 \in X /\ X \in SUBSET Nat
      BY MonthStarts
    <2>2. date + 1 \notin X
      <3>1. MonthStart[0 + (date + 1)] >= MonthStart[0] + 28 * (date + 1)
        <4>1. 0 \in Nat /\ date + 1 \in Nat
          OBVIOUS
        <4> QED BY <4>1, MonthsApart
      <3> QED BY <3>1, MonthStarts
    <2> HIDE DEF X
    <2>3. X = Nat
      BY <2>1, SetInduction
    <2> QED BY <2>2, <2>3
  <1>2. k \in Nat /\ MonthStart[k] <= date /\ date < MonthStart[k + 1]
    BY <1>1, MonthStarts
  <1>3. k \in 0 .. date \div 28
    <2>1. MonthStart[0 + k] >= MonthStart[0] + 28 * k
      BY <1>2, MonthsApart
    <2>2. 28 * k <= date
      BY <2>1, <1>2, MonthStarts
    <2> QED BY <2>2, <1>2
  <1> DEFINE In(j) == MonthStart[j] <= date /\ date < MonthStart[j + 1]
  <1>4. MonthOf(date) = CHOOSE j \in 0 .. date \div 28 : In(j)
    BY DEF MonthOf
  <1>5. In(k)
    BY <1>2
  <1> HIDE DEF In
  <1>6. MonthOf(date) \in 0 .. date \div 28 /\ In(MonthOf(date))
    BY <1>3, <1>4, <1>5
  <1>7. 0 .. date \div 28 \subseteq Nat
    OBVIOUS
  <1> QED
    BY <1>6, <1>7 DEF In

\* No month is the same date; months later is at least 28 days later for each.
LEMMA AddedMonths ==
    ASSUME NEW date \in Nat, NEW months \in Nat
    PROVE  /\ AddMonths(date, months) \in Nat
           /\ AddMonths(date, months) >= date + 28 * months
           /\ months = 0 => AddMonths(date, months) = date
  <1> DEFINE j == MonthOf(date)
             k == j + months
             last == MonthLength(k) - 1
             day == date - MonthStart[j]
  <1>1. j \in Nat /\ k \in Nat /\ MonthStart[j] \in Nat /\ MonthStart[k] \in Nat
    BY MonthOfDate, MonthStarts
  <1>2. day \in Nat /\ day < MonthLength(j) /\ date = MonthStart[j] + day
    <2>1. MonthStart[j + 1] = MonthStart[j] + MonthLength(j)
      BY <1>1, MonthStarts
    <2> QED BY <1>1, <2>1, MonthOfDate, MonthLengths
  <1>3. AddMonths(date, months) = MonthStart[k] + IF day <= last THEN day ELSE last
    BY DEF AddMonths, DayOf
  <1>4. last \in 27 .. 30 /\ MonthLength(j) \in 28 .. 31
    BY <1>1, MonthLengths
  <1>5. MonthStart[k] >= MonthStart[j] + 28 * months
    BY <1>1, MonthsApart
  <1>6. CASE months = 0
    <2>1. k = j
      BY <1>1, <1>6
    <2> HIDE DEF k, j, last, day
    <2>2. last = MonthLength(j) - 1
      BY <2>1 DEF last
    <2>3. AddMonths(date, months) = MonthStart[k] + day
      BY <1>2, <1>3, <1>4, <2>2
    <2> QED BY <2>1, <2>3, <1>1, <1>2, <1>6
  <1>7. CASE months # 0 /\ day <= last
    BY <1>1, <1>2, <1>3, <1>5, <1>7
  <1>8. CASE months # 0 /\ day > last
    <2>1. months - 1 \in Nat /\ (j + 1) + (months - 1) = k
      BY <1>1, <1>8
    <2>2. MonthStart[k] >= MonthStart[j + 1] + 28 * (months - 1)
      <3>1. j + 1 \in Nat
        BY <1>1
      <3> HIDE DEF j, k
      <3>2. MonthStart[(j + 1) + (months - 1)] >= MonthStart[j + 1] + 28 * (months - 1)
        BY <2>1, <3>1, MonthsApart
      <3> QED BY <2>1, <3>2
    <2>3. MonthStart[j + 1] = MonthStart[j] + MonthLength(j)
      BY <1>1, MonthStarts
    <2> HIDE DEF k, j, last, day
    <2> QED BY <1>1, <1>2, <1>3, <1>4, <1>8, <2>2, <2>3
  <1> HIDE DEF k, j, last, day
  <1> QED
    BY <1>2, <1>4, <1>6, <1>7, <1>8

-----------------------------------------------------------------------------
(* The series of a form. *)

\* What a call adds is what a form, or snooze_minutes, holds.
LEMMA StepTypes ==
    ASSUME step \in Steps
    PROVE  /\ step.kind \in {"interval", "minutes"}
           /\ step.kind = "minutes" => step.by \in Int
           /\ step.kind = "interval" => step.by \in Interval /\ ~IsZero(step.by)
  <1>1. CASE step \in [kind : {"minutes"}, by : Minutes]
    <2>1. step.kind = "minutes" /\ step.by \in Minutes
      BY <1>1
    <2> QED BY <2>1, LoopAssumption
  <1>2. CASE step \in [kind : {"interval"}, by : {ri \in Intervals : ~IsZero(ri)}]
    <2>1. step.kind = "interval" /\ step.by \in Intervals /\ ~IsZero(step.by)
      BY <1>2
    <2> QED BY <2>1, LoopAssumption
  <1> QED
    BY <1>1, <1>2 DEF Steps

\* What is added does not go back in time, nor make chrono panic.
Forward == ~Panics /\ ~Backwards

\* What one turn of a loop adds then.
LEMMA PlusHeadway ==
    ASSUME step \in Steps, Forward, NEW date \in Nat
    PROVE  /\ Plus(date) \in Nat
           /\ Shortest \in Nat
           /\ Plus(date) >= date + Shortest
           /\ Shortest = 0 <=> Idles
           /\ step.kind = "minutes" => Plus(date) = date + step.by
           /\ step.kind = "interval" /\ step.by.months = 0 => Plus(date) = date + NetDays(step.by)
  <1>1. CASE step.kind = "minutes"
    BY <1>1, StepTypes DEF Plus, Shortest, Idles, Forward, Backwards
  <1>2. CASE step.kind = "interval"
    <2> DEFINE ri == step.by
    <2>1. ri \in Interval /\ CanAdd(ri)
      BY <1>2, StepTypes DEF Panics, Forward
    <2>2. ri.months \in Int /\ NetDays(ri) \in Int
      BY <2>1 DEF Interval, NetDays
    <2>3. ri.months \in Nat /\ NetDays(ri) \in Nat
      BY <2>1, <2>2 DEF CanAdd
    <2>4. /\ AddMonths(date, ri.months) \in Nat
          /\ AddMonths(date, ri.months) >= date + 28 * ri.months
          /\ ri.months = 0 => AddMonths(date, ri.months) = date
      BY <2>3, AddedMonths
    <2>5. /\ Plus(date) = AddMonths(date, ri.months) + NetDays(ri)
          /\ Shortest = 28 * ri.months + NetDays(ri)
          /\ Idles <=> ri.months = 0 /\ NetDays(ri) = 0
      BY <1>2 DEF Plus, Shortest, Idles, AddInterval, Cancels
    <2> HIDE DEF ri
    <2>6. /\ Plus(date) \in Nat /\ Shortest \in Nat
          /\ Plus(date) >= date + Shortest
          /\ Shortest = 0 <=> ri.months = 0 /\ NetDays(ri) = 0
          /\ ri.months = 0 => Plus(date) = date + NetDays(ri)
      BY <2>3, <2>4, <2>5
    <2> QED
      BY <1>2, <2>5, <2>6 DEF ri
  <1> QED
    BY <1>1, <1>2, StepTypes

\* The series is what its equation says.
LEMMA SeriesSteps ==
    ASSUME step \in Steps, Forward, first \in Nat
    PROVE  /\ Series \in [Nat -> Nat]
           /\ Series[0] = first
           /\ \A k \in Nat : Series[k + 1] = Plus(Series[k])
  <1> DEFINE G == [p \in Nat \X Nat |-> Plus(p[2])]
             Goes(f) == f = [k \in Nat |-> IF k = 0 THEN first ELSE Plus(f[k - 1])]
  <1>1. PICK h : Iterates(h, Nat, first, G)
    <2>1. G \in [Nat \X Nat -> Nat]
      <3>1. \A date \in Nat : Plus(date) \in Nat
        BY PlusHeadway
      <3> QED BY <3>1
    <2> HIDE DEF G
    <2> QED BY <2>1, Iteration
  <1>2. h \in [Nat -> Nat] /\ h[0] = first /\ \A k \in Nat : h[k + 1] = Plus(h[k])
    BY <1>1 DEF Iterates
  <1>3. Goes(h)
    <2> DEFINE g == [k \in Nat |-> IF k = 0 THEN first ELSE Plus(h[k - 1])]
    <2>1. ASSUME NEW k \in Nat PROVE h[k] = g[k]
      <3>1. CASE k = 0
        BY <3>1, <1>2
      <3>2. CASE k # 0
        <4>1. k - 1 \in Nat /\ (k - 1) + 1 = k
          BY <3>2
        <4>2. h[(k - 1) + 1] = Plus(h[k - 1])
          BY <4>1, <1>2
        <4> QED BY <3>2, <4>1, <4>2
      <3> QED BY <3>1, <3>2
    <2> QED BY <2>1, <1>2
  <1>4. Goes(Series)
    <2>1. Series = CHOOSE f : Goes(f)
      BY DEF Series
    <2> HIDE DEF Goes
    <2> QED BY <2>1, <1>3
  <1> DEFINE s == Series
  <1>5. Goes(s)
    BY <1>4
  <1> HIDE DEF s
  <1>6. \A k \in Nat : s[k] = IF k = 0 THEN first ELSE Plus(s[k - 1])
    BY <1>5
  <1>7. s[0] = first /\ \A k \in Nat : s[k + 1] = Plus(s[k])
    BY <1>6
  <1>8. ASSUME NEW n \in Nat PROVE s[n] \in Nat
    <2> DEFINE X == {k \in Nat : s[k] \in Nat}
    <2>1. X \in SUBSET Nat /\ 0 \in X
      BY <1>7
    <2>2. ASSUME NEW k \in X PROVE k + 1 \in X
      BY <1>7, PlusHeadway
    <2> HIDE DEF X
    <2>3. X = Nat
      BY <2>1, <2>2, SetInduction
    <2> QED BY <2>3 DEF X
  <1>9. s \in [Nat -> Nat]
    BY <1>5, <1>8
  <1> QED
    BY <1>7, <1>9 DEF s

\* m occurrences later is at least m times the shortest interval later.
LEMMA SeriesGrows ==
    ASSUME step \in Steps, Forward, first \in Nat, NEW k \in Nat, NEW m \in Nat
    PROVE  Series[k + m] >= Series[k] + m * Shortest
  <1> DEFINE X == {j \in Nat : Series[k + j] >= Series[k] + j * Shortest}
  <1>0. \A j \in Nat : Series[j] \in Nat /\ Series[j + 1] >= Series[j] + Shortest
    BY SeriesSteps, PlusHeadway
  <1>1. Shortest \in Nat
    BY PlusHeadway, 0 \in Nat
  <1>2. 0 \in X
    BY <1>0, <1>1
  <1>3. ASSUME NEW j \in X PROVE j + 1 \in X
    <2>1. k + j \in Nat /\ k + (j + 1) = (k + j) + 1
      OBVIOUS
    <2>2. Series[k + (j + 1)] >= Series[k + j] + Shortest
      BY <2>1, <1>0
    <2>3. (j + 1) * Shortest = j * Shortest + Shortest /\ j * Shortest \in Nat
      BY <1>1
    <2> QED BY <2>1, <2>2, <2>3, <1>0, <1>1
  <1>4. X \in SUBSET Nat
    OBVIOUS
  <1> HIDE DEF X
  <1>5. X = Nat
    BY <1>2, <1>3, <1>4, SetInduction
  <1> QED
    BY <1>5 DEF X

\* Later in the series is a later instant.
LEMMA SeriesOrder ==
    ASSUME step \in Steps, Forward, ~Idles, first \in Nat, NEW j \in Nat, NEW k \in Nat
    PROVE  Series[j] < Series[k] <=> j < k
  <1>1. ASSUME NEW a \in Nat, NEW b \in Nat, a < b PROVE Series[a] < Series[b]
    <2> DEFINE c == b - a - 1
    <2>1. c \in Nat /\ a + (c + 1) = b /\ c + 1 \in Nat
      BY <1>1
    <2>2. Shortest \in Nat /\ Shortest > 0
      BY PlusHeadway, 0 \in Nat
    <2>3. Series[a + (c + 1)] >= Series[a] + (c + 1) * Shortest
      BY <2>1, SeriesGrows
    <2>4. (c + 1) * Shortest = c * Shortest + Shortest /\ c * Shortest \in Nat
      BY <2>1, <2>2
    <2>5. Series[a] \in Nat /\ Series[b] \in Nat
      BY SeriesSteps
    <2> HIDE DEF c
    <2> QED BY <2>1, <2>2, <2>3, <2>4, <2>5
  <1>2. Series[j] \in Nat /\ Series[k] \in Nat
    BY SeriesSteps
  <1>3. j < k \/ j = k \/ k < j
    OBVIOUS
  <1> QED
    BY <1>1, <1>2, <1>3

-----------------------------------------------------------------------------
(* Calls. *)

\* What is true between any two steps.  A call that goes forward is at an
\* occurrence of the series; unless it has only made its first turn, the
\* occurrence before that one is over.  One that goes back is in the past, and
\* never returns.
OnSeries ==
    \E m, n \in Nat :
        /\ due = Series[m]
        /\ new = Series[n]
        /\ pc = "idle" => n = m
        /\ pc # "idle" => n = m + 1 \/ (n > m + 1 /\ Series[n - 1] < now)

SeriesInv ==
    /\ step \in Steps
    /\ {first, now} \subseteq Nat
    /\ pc \in {"idle", "loop", "returned", "panicked"}
    /\ pc \in {"loop", "returned"} => ~Panics
    /\ Forward => OnSeries /\ pc # "panicked"
    /\ Backwards => due \in Int /\ new \in Int /\ pc # "returned"
    /\ Backwards /\ pc = "loop" => new < now /\ new >= Earliest
    /\ pc = "returned" => new >= now

\* It holds at first,
LEMMA InitSeries == Init => SeriesInv
  <1> SUFFICES ASSUME Init PROVE SeriesInv
    OBVIOUS
  <1>1. first \in Nat /\ now \in Nat /\ step \in Steps /\ pc = "idle" /\ due = first /\ new = first
    BY LoopAssumption DEF Init
  <1>2. ASSUME Forward PROVE OnSeries
    <2>1. due = Series[0] /\ new = Series[0]
      BY <1>1, <1>2, SeriesSteps
    <2> QED BY <1>1, <2>1, 0 \in Nat DEF OnSeries
  <1> QED
    BY <1>1, <1>2 DEF SeriesInv

\* every step keeps it,
LEMMA NextSeries == SeriesInv /\ [Next]_vars => SeriesInv'
  <1> SUFFICES ASSUME SeriesInv, [Next]_vars PROVE SeriesInv'
    OBVIOUS
  <1>1. step' = step /\ first' = first
    BY DEF Next, vars, Call, Again, Return, Store
  <1>2. /\ Series' = Series
        /\ Panics <=> Panics'
        /\ Backwards <=> Backwards'
        /\ Forward <=> Forward'
    BY <1>1 DEF Series, Plus, Panics, Backwards, Forward
  <1>3. ASSUME Forward
        PROVE  /\ Series \in [Nat -> Nat]
               /\ \A k \in Nat : Series[k + 1] = Plus(Series[k])
               /\ \A date \in Nat : Plus(date) \in Nat /\ ~(Plus(date) < Earliest)
    <2>1. step \in Steps /\ first \in Nat
      BY DEF SeriesInv
    <2>2. \A date \in Nat : Plus(date) \in Nat
      BY <1>3, <2>1, PlusHeadway
    <2>3. \A t \in Nat : ~(t < Earliest)
      BY LoopAssumption
    <2> QED
      BY <1>3, <2>1, <2>2, <2>3, SeriesSteps
  <1>4. ASSUME Backwards
        PROVE  /\ ~Panics /\ ~Forward /\ step.kind = "minutes"
               /\ \A date \in Int : Plus(date) \in Int /\ Plus(date) < date
    <2>1. step.kind = "minutes" /\ step.by \in Int /\ step.by < 0
      BY <1>4, StepTypes DEF Backwards, SeriesInv
    <2>2. ~Panics /\ ~Forward /\ \A date : Plus(date) = date + step.by
      BY <1>4, <2>1 DEF Panics, Forward, Plus
    <2> QED
      BY <2>1, <2>2
  <1>5. CASE Call
    <2>1. now' \in Nat
      <3>1. PICK lag \in Lags : due + lag \in now .. Horizon /\ now' = due + lag
        BY <1>5 DEF Call, Comes
      <3>2. now \in Nat /\ Horizon \in Nat
        BY LoopAssumption DEF SeriesInv
      <3> QED BY <3>1, <3>2
    <2>2. pc = "idle" /\ due' = due /\ Add(due)
      BY <1>5 DEF Call
    <2>3. CASE Forward
      <3>1. PICK m \in Nat : due = Series[m]
        BY <2>3 DEF SeriesInv, OnSeries
      <3>2. pc' = "loop" /\ new' = Plus(due) /\ ~Panics
        BY <1>3, <2>2, <2>3, <3>1 DEF Add, Forward
      <3>3. m + 1 \in Nat /\ new' = Series[m + 1]
        BY <1>3, <2>3, <3>1, <3>2
      <3>4. OnSeries'
        BY <1>2, <2>2, <3>1, <3>2, <3>3 DEF OnSeries
      <3>5. ~Backwards
        BY <2>3 DEF Forward
      <3> QED
        BY <1>1, <1>2, <2>1, <2>3, <3>2, <3>4, <3>5 DEF SeriesInv
    <2>4. CASE Backwards
      <3>1. due \in Int /\ due <= now'
        <4>1. due \in Int
          BY <2>4 DEF SeriesInv
        <4>2. PICK lag \in Lags : lag >= 0 /\ now' = due + lag
          BY <1>4, <1>5, <2>4 DEF Call, Comes
        <4> QED BY <4>1, <4>2, LoopAssumption
      <3>2. \/ pc' = "panicked" /\ new' = new
            \/ pc' = "loop" /\ new' = Plus(due) /\ ~(Plus(due) < Earliest)
        BY <2>2 DEF Add
      <3>3. Plus(due) \in Int /\ Plus(due) < due /\ ~Panics /\ ~Forward
        BY <1>4, <2>4, <3>1
      <3>4. pc' = "loop" => new' < now' /\ new' >= Earliest
        BY <2>1, <3>1, <3>2, <3>3, LoopAssumption
      <3>5. new' \in Int
        BY <2>4, <3>2, <3>3 DEF SeriesInv
      <3>6. pc' \in {"loop", "panicked"}
        BY <3>2
      <3> QED
        BY <1>1, <1>2, <2>1, <2>2, <3>1, <3>3, <3>4, <3>5, <3>6 DEF SeriesInv
    <2>5. CASE Panics /\ ~Backwards
      <3>1. pc' = "panicked"
        BY <2>2, <2>5 DEF Add
      <3>2. ~Forward
        BY <2>5 DEF Forward
      <3> QED
        BY <1>1, <1>2, <2>1, <2>5, <3>1, <3>2 DEF SeriesInv
    <2> QED BY <2>3, <2>4, <2>5 DEF Forward
  <1>6. CASE Again
    <2>1. pc = "loop" /\ new < now /\ Add(new) /\ due' = due /\ now' = now /\ ~Panics
      BY <1>6 DEF Again, SeriesInv
    <2>2. CASE Forward
      <3>1. PICK m, n \in Nat : /\ due = Series[m]
                                /\ new = Series[n]
                                /\ n = m + 1 \/ (n > m + 1 /\ Series[n - 1] < now)
        BY <2>1, <2>2 DEF SeriesInv, OnSeries
      <3>2. pc' = "loop" /\ new' = Plus(new)
        BY <1>3, <2>1, <2>2, <3>1 DEF Add
      <3>3. n + 1 \in Nat /\ new' = Series[n + 1] /\ n + 1 > m + 1 /\ (n + 1) - 1 = n
        BY <1>3, <2>2, <3>1, <3>2
      <3>4. \E i, k \in Nat :
                due' = Series'[i] /\ new' = Series'[k] /\ k > i + 1 /\ Series'[k - 1] < now'
        BY <1>2, <2>1, <3>1, <3>3
      <3>5. OnSeries'
        BY <3>2, <3>4 DEF OnSeries
      <3>6. ~Backwards
        BY <2>2 DEF Forward
      <3> QED
        BY <1>1, <1>2, <2>1, <2>2, <3>2, <3>5, <3>6 DEF SeriesInv
    <2>3. CASE Backwards
      <3>1. new \in Int /\ due \in Int /\ now \in Nat
        BY <2>3 DEF SeriesInv
      <3>2. \/ pc' = "panicked" /\ new' = new
            \/ pc' = "loop" /\ new' = Plus(new) /\ ~(Plus(new) < Earliest)
        BY <2>1 DEF Add
      <3>3. Plus(new) \in Int /\ Plus(new) < new /\ ~Forward
        BY <1>4, <2>3, <3>1
      <3>4. pc' = "loop" => new' < now' /\ new' >= Earliest
        BY <2>1, <3>1, <3>2, <3>3, LoopAssumption
      <3>5. new' \in Int /\ pc' \in {"loop", "panicked"}
        BY <3>1, <3>2, <3>3
      <3> QED
        BY <1>1, <1>2, <2>1, <2>3, <3>1, <3>3, <3>4, <3>5 DEF SeriesInv
    <2> QED BY <2>1, <2>2, <2>3 DEF Forward
  <1>7. CASE Return
    <2>1. pc = "loop" /\ pc' = "returned" /\ new >= now /\ UNCHANGED <<due, now, new>>
      BY <1>7 DEF Return
    <2>2. ~Backwards
      <3>1. now \in Int
        BY DEF SeriesInv
      <3> QED BY <2>1, <3>1 DEF SeriesInv
    <2>3. Forward => OnSeries'
      BY <1>2, <2>1 DEF SeriesInv, OnSeries
    <2> QED
      BY <1>1, <1>2, <2>1, <2>2, <2>3 DEF SeriesInv
  <1>8. CASE Store
    <2>1. pc = "returned" /\ pc' = "idle" /\ due' = new /\ UNCHANGED <<now, new>>
      BY <1>8 DEF Store
    <2>2. ~Backwards /\ ~Panics /\ Forward
      BY <2>1 DEF SeriesInv, Forward
    <2>3. PICK n \in Nat : new = Series[n]
      BY <2>2 DEF SeriesInv, OnSeries
    <2>4. OnSeries'
      BY <1>2, <2>1, <2>3 DEF OnSeries
    <2> QED
      BY <1>1, <1>2, <2>1, <2>2, <2>4 DEF SeriesInv
  <1>9. CASE UNCHANGED vars
    BY <1>1, <1>2, <1>9 DEF vars, SeriesInv, OnSeries
  <1> QED
    BY <1>5, <1>6, <1>7, <1>8, <1>9 DEF Next

\* and so it always holds.
LEMMA AlwaysSeries == Spec => []SeriesInv
  BY InitSeries, NextSeries, PTL DEF Spec

\* A result is the first occurrence after `due` that is not in the past, of
\* all there will ever be.
NextInSeries ==
    /\ \E n \in Nat : new = Series[n]
    /\ new > due
    /\ new >= now
    /\ \A n \in Nat : Series[n] > due /\ Series[n] >= now => new <= Series[n]

\* It makes a call's result the next occurrence.
LEMMA ResultIsNext == SeriesInv /\ pc = "returned" /\ ~Idles => NextInSeries
  <1> SUFFICES ASSUME SeriesInv, pc = "returned", ~Idles
               PROVE  NextInSeries
    OBVIOUS
  <1>1. step \in Steps /\ first \in Nat /\ now \in Nat /\ Forward
    BY DEF SeriesInv, Forward
  <1>2. PICK m, n \in Nat : /\ due = Series[m]
                            /\ new = Series[n]
                            /\ n = m + 1 \/ (n > m + 1 /\ Series[n - 1] < now)
    BY <1>1 DEF SeriesInv, OnSeries
  <1>3. Series \in [Nat -> Nat]
    BY <1>1, SeriesSteps
  <1>4. \A i, j \in Nat : Series[i] < Series[j] <=> i < j
    BY <1>1, SeriesOrder
  <1>5. new > due /\ new >= now
    BY <1>2, <1>3, <1>4 DEF SeriesInv
  <1>6. ASSUME NEW k \in Nat, Series[k] > due, Series[k] >= now PROVE new <= Series[k]
    <2>1. k > m
      BY <1>2, <1>4, <1>6
    <2>2. CASE n = m + 1
      <3>1. ~(k < n)
        BY <2>1, <2>2
      <3> QED BY <1>2, <1>3, <1>4, <3>1
    <2>3. CASE n > m + 1 /\ Series[n - 1] < now
      <3>1. n - 1 \in Nat
        BY <2>3
      <3>2. Series[n - 1] < Series[k]
        BY <1>1, <1>3, <1>6, <2>3, <3>1
      <3>3. ~(k < n)
        BY <1>4, <3>1, <3>2
      <3> QED BY <1>2, <1>3, <1>4, <3>3
    <2> QED BY <1>2, <2>2, <2>3
  <1> QED
    BY <1>2, <1>5, <1>6 DEF NextInSeries

\* Whatever the interval or the minutes, and however late each call of
\* advance_by and advance_by_minutes came, what it returns is an occurrence of
\* the series the form began: lateness shifts nothing, and nothing that is
\* still to come is skipped.
THEOREM NeverSkips ==
    Spec => [](pc = "returned" /\ ~Idles => NextInSeries)
  BY AlwaysSeries, ResultIsNext, PTL

\* The form of this that the runs check: it is enough to look at the occurrences
\* up to the result.
THEOREM KeepsSchedule == Spec => []ReturnsNextOccurrence
  <1>1. SeriesInv => ReturnsNextOccurrence
    <2> SUFFICES ASSUME SeriesInv, pc = "returned", ~Idles PROVE ReturnsNextOccurrence
      BY DEF ReturnsNextOccurrence
    <2>1. NextInSeries
      BY ResultIsNext
    <2>2. step \in Steps /\ first \in Nat /\ Forward
      BY DEF SeriesInv, Forward
    <2>3. PICK n \in Nat : new = Series[n]
      BY <2>1 DEF NextInSeries
    <2> DEFINE most == (new - first) \div Shortest
    <2>4. Shortest \in Nat \ {0}
      BY <2>2, PlusHeadway, 0 \in Nat
    <2>5. n \in 0 .. most
      <3>1. Series[0 + n] >= Series[0] + n * Shortest /\ 0 + n = n
        BY <2>2, SeriesGrows, 0 \in Nat
      <3>2. new \in Nat /\ Series[0] = first
        BY <2>2, <2>3, SeriesSteps
      <3> DEFINE p == n * Shortest
      <3>3. p \in Nat
        BY <2>4
      <3>4. new - first >= p
        BY <2>2, <2>3, <3>1, <3>2, <3>3
      <3>5. new - first \in Nat
        BY <2>2, <3>2, <3>3, <3>4
      <3>6. most \in Nat /\ new - first < most * Shortest + Shortest
        BY <2>4, <3>5, DivBounds
      <3>7. most * Shortest + Shortest = (most + 1) * Shortest /\ (most + 1) * Shortest \in Nat
        BY <2>4, <3>6
      <3> HIDE DEF most
      <3>8. p < (most + 1) * Shortest
        BY <3>3, <3>4, <3>5, <3>6, <3>7
      <3>9. n < most + 1
        BY <2>4, <3>6, <3>8, FactorOrder
      <3> QED BY <3>6, <3>9
    <2>6. Occurrences \subseteq {Series[k] : k \in Nat}
      BY DEF Occurrences
    <2>7. new \in Occurrences
      BY <2>3, <2>5 DEF Occurrences
    <2>8. ASSUME NEW date \in Occurrences, date > due, date >= now PROVE new <= date
      BY <2>1, <2>6, <2>8 DEF NextInSeries
    <2> QED
      BY <2>1, <2>7, <2>8 DEF NextInSeries, ReturnsNextOccurrence
  <1> QED
    BY <1>1, AlwaysSeries, PTL

-----------------------------------------------------------------------------
(* Steps of a fixed length. *)

\* What is added has a fixed length.
Fixed == step.kind = "minutes" \/ step.by.months = 0

\* Then the series is an arithmetic progression.
LEMMA FixedSteps ==
    ASSUME step \in Steps, Forward, first \in Nat, Fixed, NEW k \in Nat, NEW m \in Nat
    PROVE  Series[k + m] = Series[k] + m * Shortest
  <1> DEFINE X == {j \in Nat : Series[k + j] = Series[k] + j * Shortest}
  <1>1. Shortest \in Nat
    BY PlusHeadway, 0 \in Nat
  <1>2. Series \in [Nat -> Nat]
    BY SeriesSteps
  <1>3. ASSUME NEW date \in Nat PROVE Plus(date) = date + Shortest
    <2>1. CASE step.kind = "minutes"
      BY <2>1, PlusHeadway DEF Shortest
    <2>2. CASE step.kind = "interval" /\ step.by.months = 0
      <3>1. step.by \in Interval
        BY <2>2, StepTypes
      <3>2. Shortest = NetDays(step.by)
        BY <2>2, <3>1 DEF Shortest, Interval, NetDays
      <3> QED BY <2>2, <3>2, PlusHeadway
    <2> QED BY <2>1, <2>2, StepTypes DEF Fixed
  <1>4. 0 \in X
    BY <1>1, <1>2
  <1>5. ASSUME NEW j \in X PROVE j + 1 \in X
    <2>1. k + j \in Nat /\ k + (j + 1) = (k + j) + 1
      OBVIOUS
    <2>2. Series[k + (j + 1)] = Series[k + j] + Shortest
      BY <2>1, <1>2, <1>3, SeriesSteps
    <2>3. (j + 1) * Shortest = j * Shortest + Shortest /\ j * Shortest \in Nat
      BY <1>1
    <2> QED BY <2>1, <2>2, <2>3, <1>1, <1>2
  <1>6. X \in SUBSET Nat
    OBVIOUS
  <1> HIDE DEF X
  <1>7. X = Nat
    BY <1>4, <1>5, <1>6, SetInduction
  <1> QED
    BY <1>7 DEF X

\* For an interval without months, and for minutes, what a call returns is
\* Schedule's closed form, which Reminders uses.
THEOREM LoopComputesAdvance == Spec => []ComputesAdvance
  <1>1. SeriesInv => ComputesAdvance
    <2> SUFFICES ASSUME SeriesInv, pc = "returned", ~Idles, Fixed
                 PROVE  new = Advance(due, Shortest, now)
      <3>1. step.kind = "interval" /\ step.by.months = 0 /\ step \in Steps
                => Shortest = NetDays(step.by)
        <4> SUFFICES ASSUME step.kind = "interval", step.by.months = 0, step \in Steps
                     PROVE  Shortest = NetDays(step.by)
          OBVIOUS
        <4>1. step.by \in Interval
          BY StepTypes
        <4> QED BY <4>1 DEF Shortest, Interval, NetDays
      <3>2. SeriesInv => step.kind \in {"interval", "minutes"} /\ step \in Steps
        BY StepTypes DEF SeriesInv
      <3> QED BY <3>1, <3>2 DEF ComputesAdvance, Fixed, Shortest
    <2>1. step \in Steps /\ first \in Nat /\ now \in Nat /\ Forward
      BY DEF SeriesInv, Forward
    <2>2. PICK m, n \in Nat : /\ due = Series[m]
                              /\ new = Series[n]
                              /\ n = m + 1 \/ (n > m + 1 /\ Series[n - 1] < now)
      BY <2>1 DEF SeriesInv, OnSeries
    <2>3. Shortest \in Nat \ {0} /\ Series \in [Nat -> Nat]
      BY <2>1, PlusHeadway, SeriesSteps, 0 \in Nat
    <2> DEFINE k == n - m
    <2>4. k \in Nat \ {0} /\ m + k = n
      BY <2>2
    <2>5. new = due + k * Shortest
      <3>1. Series[m + k] = Series[m] + k * Shortest
        BY <2>1, <2>4, FixedSteps
      <3> QED BY <2>2, <2>4, <3>1
    <2>6. k > 1 => due + (k - 1) * Shortest < now
      <3> SUFFICES ASSUME k > 1 PROVE due + (k - 1) * Shortest < now
        OBVIOUS
      <3>1. k - 1 \in Nat /\ m + (k - 1) = n - 1
        BY <2>4
      <3>2. Series[m + (k - 1)] = Series[m] + (k - 1) * Shortest
        BY <2>1, <3>1, FixedSteps
      <3>3. Series[n - 1] < now
        BY <2>2
      <3> QED BY <2>2, <3>1, <3>2, <3>3
    <2>7. new >= now /\ due \in Nat
      BY <2>2, <2>3 DEF SeriesInv
    <2> HIDE DEF k
    <2> QED
      BY <2>1, <2>3, <2>4, <2>5, <2>6, <2>7, TurnsAreAdvances
  <1> QED
    BY <1>1, AlwaysSeries, PTL

\* What a turn of the loop does: it leaves it where it was, when what is added
\* sums up to nothing; or takes it towards the current instant, by the shortest
\* interval at least; or takes it back, by the whole of a negative number of
\* minutes, to an instant chrono has, or there is none and chrono panics.
Headway ==
    \/ Idles /\ new' = new
    \/ Forward /\ Shortest > 0 /\ new' >= new + Shortest
    \/ Backwards /\ new' = new + step.by /\ new' >= Earliest
    \/ Backwards /\ new + step.by < Earliest /\ pc' = "panicked"

\* Whatever the form holds, an endless call of advance_by or advance_by_minutes
\* is one that adds nothing: any other turn takes the loop by a fixed amount at
\* least towards the current instant, or towards the beginning of time.  Only
\* so many turns fit before either.
THEOREM TurnsMakeHeadway == Spec => [][Again => Headway]_vars
  <1>1. SeriesInv /\ [Next]_vars => [Again => Headway]_vars
    <2> SUFFICES ASSUME SeriesInv, Again PROVE Headway
      OBVIOUS
    <2>1. step \in Steps /\ ~Panics /\ first \in Nat /\ Add(new)
      BY DEF Again, SeriesInv
    <2>2. CASE Forward
      <3>1. new \in Nat
        BY <2>1, <2>2, SeriesSteps DEF SeriesInv, OnSeries
      <3>2. /\ Shortest \in Nat /\ Plus(new) \in Nat
            /\ Plus(new) >= new + Shortest
            /\ Shortest = 0 <=> Idles
        BY <2>1, <2>2, <3>1, PlusHeadway
      <3>3. new' = Plus(new)
        BY <2>1, <3>2, LoopAssumption DEF Add
      <3>4. ASSUME Idles PROVE new' = new
        <4>1. step.kind = "minutes" => new' = new + step.by
          BY <2>1, <2>2, <3>1, <3>3, PlusHeadway
        <4>2. step.kind = "interval" /\ step.by.months = 0 => new' = new + NetDays(step.by)
          BY <2>1, <2>2, <3>1, <3>3, PlusHeadway
        <4>3. step.kind \in {"minutes", "interval"}
          BY <2>1, StepTypes
        <4> QED BY <3>1, <3>4, <4>1, <4>2, <4>3 DEF Idles, Cancels
      <3>5. ~Idles => Shortest > 0
        BY <3>2
      <3> QED BY <2>2, <3>2, <3>3, <3>4, <3>5 DEF Headway
    <2>3. CASE Backwards
      <3>1. Plus(new) = new + step.by /\ new \in Int /\ step.by \in Int
        BY <2>1, <2>3, StepTypes DEF Backwards, Plus, SeriesInv
      <3>2. \/ Plus(new) < Earliest /\ pc' = "panicked"
            \/ new' = Plus(new) /\ ~(Plus(new) < Earliest)
        BY <2>1 DEF Add
      <3> QED
        BY <2>3, <3>1, <3>2, LoopAssumption DEF Headway
    <2> QED BY <2>1, <2>2, <2>3 DEF Forward
  <1> QED
    BY <1>1, AlwaysSeries, PTL DEF Spec

\* A negative snooze_minutes never puts a notification off: no call of
\* advance_by_minutes with it returns, it panics.
THEOREM NegativeNeverReturns == Spec => [](Backwards => pc # "returned")
  BY AlwaysSeries, PTL DEF SeriesInv

=============================================================================
