------------------------ MODULE TimerService_proofs ------------------------
(***************************************************************************)
(* Proofs about TimerService for any timers, durations, resolution and     *)
(* width of the counters of ticks.                                         *)
(***************************************************************************)
EXTENDS TimerService, WellFoundedInduction, TLAPS

-----------------------------------------------------------------------------
(* Lists without duplicates.                                                *)

Distinct(q) == \A i, j \in DOMAIN q : q[i] = q[j] => i = j

Has(q, d) == \E i \in DOMAIN q : q[i] = d

\* RemoveAt keeps the elements before i and shifts the others.
LEMMA RemoveAtElements ==
    ASSUME NEW S, NEW q \in Seq(S), NEW i \in DOMAIN q
    PROVE  /\ RemoveAt(q, i) \in Seq(S)
           /\ Len(RemoveAt(q, i)) = Len(q) - 1
           /\ \A k \in DOMAIN RemoveAt(q, i) :
                  RemoveAt(q, i)[k] = IF k < i THEN q[k] ELSE q[k + 1]
<1>1. i \in 1 .. Len(q)
  OBVIOUS
<1> DEFINE before == SubSeq(q, 1, i - 1)
           after == SubSeq(q, i + 1, Len(q))
<1>2. /\ before \in Seq(S)
      /\ Len(before) = i - 1
      /\ \A k \in 1 .. i - 1 : before[k] = q[k]
  BY <1>1
<1>3. /\ after \in Seq(S)
      /\ Len(after) = Len(q) - i
      /\ \A k \in 1 .. Len(q) - i : after[k] = q[i + k]
  BY <1>1
<1>4. RemoveAt(q, i) = before \o after
  BY DEF RemoveAt
<1> HIDE DEF before, after
<1>5. /\ before \o after \in Seq(S)
      /\ Len(before \o after) = Len(q) - 1
      /\ DOMAIN (before \o after) = 1 .. Len(q) - 1
  BY <1>1, <1>2, <1>3
<1>6. ASSUME NEW k \in 1 .. Len(q) - 1
      PROVE  (before \o after)[k] = IF k < i THEN q[k] ELSE q[k + 1]
  <2>1. CASE k < i
    BY <2>1, <1>1, <1>2, <1>3
  <2>2. CASE ~(k < i)
    <3>1. (before \o after)[k] = after[k - (i - 1)]
      BY <2>2, <1>1, <1>2, <1>3
    <3>2. k - (i - 1) \in 1 .. Len(q) - i /\ i + (k - (i - 1)) = k + 1
      BY <2>2, <1>1
    <3> QED
      BY <2>2, <3>1, <3>2, <1>3
  <2> QED
    BY <2>1, <2>2
<1> QED
  BY <1>4, <1>5, <1>6

\* Removing an element of a list without duplicates removes it and nothing else.
LEMMA RemoveAtDistinct ==
    ASSUME NEW S, NEW q \in Seq(S), NEW i \in DOMAIN q, Distinct(q)
    PROVE  /\ RemoveAt(q, i) \in Seq(S)
           /\ Distinct(RemoveAt(q, i))
           /\ ~Has(RemoveAt(q, i), q[i])
           /\ \A d : d # q[i] => (Has(RemoveAt(q, i), d) <=> Has(q, d))
<1> DEFINE r == RemoveAt(q, i)
<1>1. /\ r \in Seq(S)
      /\ Len(r) = Len(q) - 1
      /\ DOMAIN r = 1 .. Len(q) - 1
      /\ DOMAIN q = 1 .. Len(q)
      /\ Len(q) \in Nat
      /\ i \in 1 .. Len(q)
      /\ \A k \in 1 .. Len(q) - 1 : r[k] = IF k < i THEN q[k] ELSE q[k + 1]
  BY RemoveAtElements
<1> HIDE DEF r
<1>2. \A k, l \in 1 .. Len(q) : q[k] = q[l] => k = l
  BY <1>1 DEF Distinct
<1>3. Distinct(r)
  <2> SUFFICES ASSUME NEW k \in 1 .. Len(q) - 1, NEW l \in 1 .. Len(q) - 1, r[k] = r[l]
               PROVE  k = l
    BY <1>1 DEF Distinct
  <2> DEFINE K == IF k < i THEN k ELSE k + 1
             L == IF l < i THEN l ELSE l + 1
  <2>1. K \in 1 .. Len(q) /\ L \in 1 .. Len(q) /\ q[K] = q[L]
    BY <1>1
  <2>2. K = L
    BY <2>1, <1>2
  <2> QED
    BY <2>2, <1>1
<1>4. ~Has(r, q[i])
  <2> SUFFICES ASSUME NEW k \in 1 .. Len(q) - 1, r[k] = q[i]
               PROVE  FALSE
    BY <1>1 DEF Has
  <2>1. CASE k < i
    BY <2>1, <1>1, <1>2
  <2>2. CASE ~(k < i)
    BY <2>2, <1>1, <1>2
  <2> QED
    BY <2>1, <2>2
<1>5. ASSUME NEW d, d # q[i], Has(q, d)
      PROVE  Has(r, d)
  <2>1. PICK k \in 1 .. Len(q) : q[k] = d
    BY <1>5, <1>1 DEF Has
  <2>2. k # i
    BY <2>1, <1>5
  <2>3. CASE k < i
    <3>1. k \in 1 .. Len(q) - 1 /\ r[k] = d
      BY <2>1, <2>3, <1>1
    <3> QED
      BY <3>1, <1>1 DEF Has
  <2>4. CASE k > i
    <3>1. k - 1 \in 1 .. Len(q) - 1 /\ r[k - 1] = d
      BY <2>1, <2>4, <1>1
    <3> QED
      BY <3>1, <1>1 DEF Has
  <2> QED
    BY <2>2, <2>3, <2>4, <1>1
<1>6. ASSUME NEW d, Has(r, d)
      PROVE  Has(q, d)
  <2>1. PICK k \in 1 .. Len(q) - 1 : r[k] = d
    BY <1>6, <1>1 DEF Has
  <2>2. k \in 1 .. Len(q) /\ k + 1 \in 1 .. Len(q)
    BY <1>1
  <2> QED
    BY <2>1, <2>2, <1>1 DEF Has
<1> QED
  BY <1>1, <1>3, <1>4, <1>5, <1>6 DEF r

\* A timer that is not in the list is put in front of it.
LEMMA PushedInFront ==
    ASSUME NEW S, NEW q \in Seq(S), NEW c \in S, Distinct(q), ~Has(q, c)
    PROVE  /\ <<c>> \o q \in Seq(S)
           /\ Distinct(<<c>> \o q)
           /\ \A d : Has(<<c>> \o q, d) <=> d = c \/ Has(q, d)
<1> DEFINE r == <<c>> \o q
           n == Len(q)
<1>1. /\ n \in Nat /\ DOMAIN q = 1 .. n
      /\ r \in Seq(S) /\ DOMAIN r = 1 .. n + 1
      /\ r[1] = c /\ \A i \in 1 .. n : i + 1 \in 1 .. n + 1 /\ r[i + 1] = q[i]
  OBVIOUS
<1> HIDE DEF r, n
<1>2. \A k \in 1 .. n + 1 : k # 1 => k - 1 \in 1 .. n /\ r[k] = q[k - 1]
  BY <1>1
<1>3. \A k, l \in 1 .. n : q[k] = q[l] => k = l
  BY <1>1 DEF Distinct
<1>4. \A k \in 1 .. n : q[k] # c
  BY <1>1 DEF Has
<1>5. Distinct(r)
  <2> SUFFICES ASSUME NEW k \in 1 .. n + 1, NEW l \in 1 .. n + 1, r[k] = r[l]
               PROVE  k = l
    BY <1>1 DEF Distinct
  <2>1. CASE k = 1 \/ l = 1
    BY <2>1, <1>1, <1>2, <1>4
  <2>2. CASE k # 1 /\ l # 1
    <3>1. k - 1 = l - 1
      BY <2>2, <1>2, <1>3
    <3> QED
      BY <3>1, <1>1
  <2> QED
    BY <2>1, <2>2
<1>6. ASSUME NEW d
      PROVE  Has(r, d) <=> d = c \/ Has(q, d)
  <2>1. d = c => Has(r, d)
    BY <1>1 DEF Has
  <2>2. Has(q, d) => Has(r, d)
    BY <1>1 DEF Has
  <2>3. ASSUME Has(r, d), d # c
        PROVE  Has(q, d)
    <3>1. PICK k \in 1 .. n + 1 : r[k] = d
      BY <2>3, <1>1 DEF Has
    <3>2. k - 1 \in 1 .. n /\ q[k - 1] = d
      BY <3>1, <2>3, <1>1, <1>2
    <3> QED
      BY <3>2, <1>1 DEF Has
  <2> QED
    BY <2>1, <2>2, <2>3
<1> QED
  BY <1>1, <1>5, <1>6 DEF r

-----------------------------------------------------------------------------
(* Least elements and division.                                             *)

\* A set of natural numbers has a least element.
LEMMA LeastNatural ==
    ASSUME NEW S \in SUBSET Nat, S # {}
    PROVE  \E x \in S : \A y \in S : x <= y
<1>1. IsWellFoundedOn(OpToRel(<, Nat), Nat)
  BY NatLessThanWellFounded
<1>2. PICK x \in S : \A y \in S : ~(<<y, x>> \in OpToRel(<, Nat))
  BY <1>1, WFMin, Zenon
<1>3. ASSUME NEW y \in S
      PROVE  x <= y
  <2>1. ~(<<y, x>> \in {ss \in Nat \X Nat : ss[1] < ss[2]})
    BY <1>2 DEF OpToRel
  <2>2. x \in Nat /\ y \in Nat
    OBVIOUS
  <2>3. <<y, x>> \in Nat \X Nat /\ <<y, x>>[1] = y /\ <<y, x>>[2] = x
    BY <2>2
  <2>4. ~(y < x)
    BY <2>1, <2>3
  <2> QED
    BY <2>2, <2>4
<1> QED
  BY <1>3

\* What Min of FiniteSetsExt returns.
LEMMA MinNatural ==
    ASSUME NEW S \in SUBSET Nat, S # {}
    PROVE  Min(S) \in S /\ \A y \in S : Min(S) <= y
BY LeastNatural DEF Min

\* Division with remainder by any divisor.
LEMMA Division ==
    ASSUME NEW m \in Nat, NEW d \in Nat \ {0}
    PROVE  /\ m \div d \in Nat /\ m % d \in 0 .. d - 1
           /\ m = d * (m \div d) + (m % d)
OBVIOUS

\* A remainder is at most the number divided.
LEMMA RemainderIsLess ==
    ASSUME NEW m \in Nat, NEW d \in Nat \ {0}
    PROVE  m % d \in Nat /\ m % d <= m
<1> DEFINE q == m \div d
           r == m % d
<1>1. q \in Nat /\ r \in Nat /\ m = d * q + r
  BY Division
<1> HIDE DEF q, r
<1>2. d * q \in Nat
  BY <1>1
<1>3. r <= m
  BY <1>1, <1>2
<1> QED
  BY <1>1, <1>3 DEF r

\* The quotient rounded up is the least number of steps that go far enough.
LEMMA RoundedUp ==
    ASSUME NEW m \in Nat, NEW d \in Nat \ {0}, NEW k \in Nat, m <= k * d
    PROVE  (m + d - 1) \div d \in Nat /\ (m + d - 1) \div d <= k
<1> DEFINE n == m + d - 1
           q == n \div d
           r == n % d
<1>1. n \in Nat /\ n <= k * d + d - 1 /\ k * d \in Nat
  OBVIOUS
<1>2. q \in Nat /\ r \in Nat /\ n = d * q + r
  BY <1>1, Division
<1> HIDE DEF q, r, n
<1>3. ASSUME q > k
      PROVE  FALSE
  <2>1. PICK j \in Nat : q = k + 1 + j
    <3>1. q - k - 1 \in Nat /\ q = k + 1 + (q - k - 1)
      BY <1>2, <1>3
    <3> QED
      BY <3>1
  <2>2. d * q = k * d + d + d * j
    BY <2>1
  <2>3. d * j \in Nat
    BY <2>1
  <2> QED
    BY <2>2, <2>3, <1>1, <1>2
<1> QED
  BY <1>2, <1>3 DEF q, n

-----------------------------------------------------------------------------
(* States of the service and what the operations of timers do to them.      *)

Services == [nextTrigger : Nat, holdUpdate : BOOLEAN, updateNeeded : BOOLEAN]

Counters == [systemTime : Nat, progressed : Nat, nextNotification : Nat, notificationScheduled : BOOLEAN]

States == [list : Seq(Timers), trigger : [Timers -> Nat], period : [Repeating -> Nat],
           service : Services, ticks : Counters]

\* n is the least trigger time of an armed timer, or Never.
IsEarliest(n, s) ==
    /\ n = Never \/ \E t \in Timers : Has(s.list, t) /\ n = s.trigger[t]
    /\ n <= Never /\ \A t \in Timers : Has(s.list, t) => n <= s.trigger[t]

\* The interrupt is told to notify no later than at the tick of the next trigger.
Notified(s) ==
    s.service.nextTrigger # Never =>
        \A k \in Nat : s.service.nextTrigger <= s.ticks.systemTime + k * Resolution
                            => s.ticks.nextNotification <= k

\* The list holds the timers that have a trigger time, once each, and nextTrigger is
\* the earliest of these times unless an update of it is due.
Sound(s) ==
    /\ s \in States
    /\ Distinct(s.list)
    /\ \A t \in Timers : Has(s.list, t) <=> s.trigger[t] # 0
    /\ \A t \in Repeating : Has(s.list, t) => s.period[t] # 0
    /\ s.service.updateNeeded = FALSE => IsEarliest(s.service.nextTrigger, s)

\* What no operation on timers changes: the time, and whether updates are held. Without
\* that none is left to be done, and the interrupt stays well informed.
Undisturbed(s, r) ==
    /\ r.ticks.systemTime = s.ticks.systemTime /\ r.ticks.progressed = s.ticks.progressed
    /\ r.ticks.notificationScheduled = s.ticks.notificationScheduled
    /\ r.service.holdUpdate = s.service.holdUpdate
    /\ (s.service.holdUpdate = FALSE /\ s.service.updateNeeded = FALSE) => r.service.updateNeeded = FALSE
    /\ Notified(s) => Notified(r)

SameTimers(s, r) == r.list = s.list /\ r.trigger = s.trigger /\ r.period = s.period

LEMMA Constants ==
    /\ Resolution \in Nat \ {0} /\ MaxTicks \in Nat \ {0} /\ MaxTicks + 1 \in Nat \ {0}
    /\ MaxTicks \div 2 \in Nat /\ MaxTime \in Nat /\ Never \in Nat /\ MaxTime < Never
    /\ \A d \in Durations : d \in Nat \ {0}
BY TimerServiceAssumption DEF Never

\* The components of a state.
LEMMA Components ==
    ASSUME NEW s \in States
    PROVE  /\ s.list \in Seq(Timers) /\ s.trigger \in [Timers -> Nat] /\ s.period \in [Repeating -> Nat]
           /\ s.service \in Services /\ s.ticks \in Counters
           /\ s.service.nextTrigger \in Nat /\ s.service.holdUpdate \in BOOLEAN
           /\ s.service.updateNeeded \in BOOLEAN
           /\ s.ticks.systemTime \in Nat /\ s.ticks.progressed \in Nat
           /\ s.ticks.nextNotification \in Nat /\ s.ticks.notificationScheduled \in BOOLEAN
BY DEF States, Services, Counters

\* EarliestTrigger computes the earliest.
LEMMA EarliestIsMin ==
    ASSUME NEW s \in States
    PROVE  /\ EarliestTrigger(s.list, s.trigger) \in Nat
           /\ IsEarliest(EarliestTrigger(s.list, s.trigger), s)
           /\ \A n \in Nat : IsEarliest(n, s) => n = EarliestTrigger(s.list, s.trigger)
<1> DEFINE S == {s.trigger[s.list[i]] : i \in DOMAIN s.list} \cup {Never}
           e == Min(S)
<1>1. /\ \A i \in DOMAIN s.list : s.list[i] \in Timers /\ s.trigger[s.list[i]] \in Nat
      /\ s.trigger \in [Timers -> Nat]
  <2>1. s.list \in Seq(Timers) /\ s.trigger \in [Timers -> Nat]
    BY Components
  <2> QED
    BY <2>1
<1>2. S \in SUBSET Nat /\ Never \in S
  BY <1>1, Constants
<1>3. e \in S /\ \A y \in S : e <= y
  BY <1>2, MinNatural
<1>4. e = EarliestTrigger(s.list, s.trigger)
  BY DEF EarliestTrigger
<1>5. \A i \in DOMAIN s.list : s.trigger[s.list[i]] \in S
  OBVIOUS
<1>6. e \in Nat
  BY <1>2, <1>3
<1>7. e = Never \/ \E i \in DOMAIN s.list : e = s.trigger[s.list[i]]
  BY <1>3
<1> HIDE DEF S, e
<1>8. IsEarliest(e, s)
  <2>1. e = Never \/ \E t \in Timers : Has(s.list, t) /\ e = s.trigger[t]
    BY <1>7, <1>1 DEF Has
  <2>2. e <= Never /\ \A t \in Timers : Has(s.list, t) => e <= s.trigger[t]
    BY <1>3, <1>2, <1>5 DEF Has
  <2> QED
    BY <2>1, <2>2 DEF IsEarliest
<1>9. ASSUME NEW n \in Nat, IsEarliest(n, s)
      PROVE  n = e
  <2>1. n <= e
    BY <1>8, <1>9, <1>6 DEF IsEarliest
  <2>2. e <= n
    BY <1>8, <1>9, <1>6 DEF IsEarliest
  <2> QED
    BY <2>1, <2>2, <1>6
<1> QED
  BY <1>4, <1>6, <1>8, <1>9

\* CalculateNextTrigger changes nextNotification only, and makes it early enough
\* however the ticks are cut.
LEMMA Calculated ==
    ASSUME NEW s \in States
    PROVE  LET r == CalculateNextTrigger(s)
           IN  r \in States /\ SameTimers(s, r) /\ r.service = s.service /\ Undisturbed(s, r) /\ Notified(r)
<1> DEFINE duration == IF s.service.nextTrigger > s.ticks.systemTime
                       THEN s.service.nextTrigger - s.ticks.systemTime ELSE 0
           up == (duration + Resolution - 1) \div Resolution
           cut == up % (MaxTicks + 1)
           half == MaxTicks \div 2
           n == IF s.service.nextTrigger # Never /\ cut < half THEN cut ELSE half
           r == [s EXCEPT !.ticks.nextNotification = n]
<1>1. CalculateNextTrigger(s) = r
  BY DEF CalculateNextTrigger
<1>2. duration \in Nat
  BY Components
<1>3. up \in Nat
  <2>1. duration + Resolution - 1 \in Nat
    BY <1>2, Constants
  <2> QED
    BY <2>1, Division, Constants
<1>4. cut \in Nat /\ cut <= up /\ half \in Nat
  BY <1>3, RemainderIsLess, Constants
<1>5. ASSUME NEW k \in Nat, s.service.nextTrigger <= s.ticks.systemTime + k * Resolution
      PROVE  up <= k
  <2>1. k * Resolution \in Nat
    BY Constants
  <2>2. duration <= k * Resolution
    BY <1>5, <2>1, Components
  <2> HIDE DEF duration
  <2> QED
    BY <2>2, <1>2, RoundedUp, Constants
<1> HIDE DEF duration, up, cut, half
<1>6. n \in Nat /\ (s.service.nextTrigger # Never => n <= up)
  BY <1>3, <1>4
<1>7. s.service.nextTrigger # Never => \A k \in Nat :
          s.service.nextTrigger <= s.ticks.systemTime + k * Resolution => n <= k
  BY <1>3, <1>5, <1>6
<1> HIDE DEF n
<1>8. /\ r \in States /\ SameTimers(s, r) /\ r.service = s.service
      /\ r.ticks.nextNotification = n /\ r.ticks.systemTime = s.ticks.systemTime
      /\ r.ticks.progressed = s.ticks.progressed
      /\ r.ticks.notificationScheduled = s.ticks.notificationScheduled
  BY <1>6 DEF States, Services, Counters, SameTimers
<1> HIDE DEF r
<1>9. Notified(r)
  BY <1>7, <1>8 DEF Notified
<1>10. Undisturbed(s, r)
  BY <1>8, <1>9 DEF Undisturbed
<1> QED
  BY <1>1, <1>8, <1>9, <1>10

\* ComputeNextTrigger finds the earliest, or notes that this is to be done.
LEMMA Computed ==
    ASSUME NEW s \in States
    PROVE  LET r == ComputeNextTrigger(s)
           IN  /\ r \in States /\ SameTimers(s, r) /\ Undisturbed(s, r)
               /\ s.service.holdUpdate = FALSE => r.service.updateNeeded = FALSE
               /\ r.service.updateNeeded = FALSE => IsEarliest(r.service.nextTrigger, r)
<1> DEFINE next == EarliestTrigger(s.list, s.trigger)
           t == [s EXCEPT !.service.updateNeeded = FALSE, !.service.nextTrigger = next]
           h == [s EXCEPT !.service.updateNeeded = TRUE]
           r == ComputeNextTrigger(s)
<1>1. next \in Nat /\ IsEarliest(next, s)
  BY EarliestIsMin
<1> HIDE DEF next
<1>2. /\ t \in States /\ SameTimers(s, t) /\ t.ticks = s.ticks
      /\ t.service.holdUpdate = s.service.holdUpdate
      /\ t.service.updateNeeded = FALSE /\ t.service.nextTrigger = next
  BY <1>1 DEF States, Services, Counters, SameTimers
<1>3. /\ h \in States /\ SameTimers(s, h) /\ h.ticks = s.ticks
      /\ h.service.holdUpdate = s.service.holdUpdate
      /\ h.service.updateNeeded = TRUE /\ h.service.nextTrigger = s.service.nextTrigger
  BY DEF States, Services, Counters, SameTimers
<1> HIDE DEF t, h
<1>4. IsEarliest(next, t)
  BY <1>1, <1>2 DEF IsEarliest, SameTimers
<1>5. s.service.holdUpdate \in BOOLEAN
  BY Components
<1>6. CASE s.service.holdUpdate = TRUE
  <2>1. r = h
    BY <1>6 DEF ComputeNextTrigger, h
  <2>2. Notified(s) => Notified(h)
    BY <1>3 DEF Notified
  <2> QED
    BY <2>1, <2>2, <1>3, <1>6 DEF Undisturbed
<1>7. CASE s.service.holdUpdate = FALSE /\ next # s.service.nextTrigger
  <2>1. r = CalculateNextTrigger(t)
    BY <1>7 DEF ComputeNextTrigger, t, next
  <2> DEFINE c == CalculateNextTrigger(t)
  <2>2. c \in States /\ SameTimers(t, c) /\ c.service = t.service /\ Undisturbed(t, c) /\ Notified(c)
    BY <1>2, Calculated
  <2> HIDE DEF c
  <2>3. SameTimers(s, c) /\ IsEarliest(next, c)
    BY <1>2, <2>2, <1>4 DEF SameTimers, IsEarliest
  <2>4. Undisturbed(s, c)
    BY <2>2, <1>2 DEF Undisturbed
  <2> QED
    BY <2>1, <2>2, <2>3, <2>4, <1>2 DEF c
<1>8. CASE s.service.holdUpdate = FALSE /\ next = s.service.nextTrigger
  <2>1. r = t
    BY <1>8 DEF ComputeNextTrigger, t, next
  <2>2. Notified(s) => Notified(t)
    BY <1>2, <1>8 DEF Notified
  <2> QED
    BY <2>1, <2>2, <1>2, <1>4 DEF Undisturbed
<1> QED
  BY <1>5, <1>6, <1>7, <1>8

\* r is s with another trigger time of one timer, 0 when it is no longer armed.
Set(s, r, timer, time) ==
    /\ Sound(r) /\ Undisturbed(s, r)
    /\ r.trigger = [s.trigger EXCEPT ![timer] = time]

\* Contains of SequencesExt says what Has says.
LEMMA ContainsIsHas ==
    ASSUME NEW s \in States, NEW t
    PROVE  Contains(s.list, t) <=> Has(s.list, t)
<1>1. DOMAIN s.list = 1 .. Len(s.list)
  BY Components
<1> QED
  BY <1>1 DEF Contains, Has

\* Cancelling a timer takes it out of the list.
LEMMA Cancelled ==
    ASSUME NEW s, Sound(s), NEW timer \in Timers
    PROVE  Set(s, Cancel(s, timer), timer, 0)
<1>1. s \in States
  BY DEF Sound
<1>2. CASE ~Has(s.list, timer)
  <2> DEFINE r == [s EXCEPT !.trigger[timer] = 0]
  <2>1. Cancel(s, timer) = r
    BY <1>1, <1>2, ContainsIsHas DEF Cancel
  <2>2. s.trigger \in [Timers -> Nat] /\ s.trigger[timer] = 0
    BY <1>1, <1>2, Components DEF Sound
  <2>3. s.trigger = [s.trigger EXCEPT ![timer] = 0]
    BY <2>2
  <2>4. r = s
    BY <2>2, <1>1 DEF States
  <2>5. Undisturbed(s, s)
    BY DEF Undisturbed
  <2> QED
    BY <2>1, <2>3, <2>4, <2>5 DEF Set
<1>3. CASE Has(s.list, timer)
  <2> DEFINE i == CHOOSE j \in DOMAIN s.list : s.list[j] = timer
             list == RemoveAt(s.list, i)
             t == [s EXCEPT !.list = list]
             u == UnregisterTimer(s, timer, s.trigger[timer])
             r == [u EXCEPT !.trigger[timer] = 0]
  <2>1. Cancel(s, timer) = r
    BY <1>1, <1>3, ContainsIsHas DEF Cancel
  <2>2. u = IF s.trigger[timer] = s.service.nextTrigger THEN ComputeNextTrigger(t) ELSE t
    BY DEF UnregisterTimer
  <2>3. i \in DOMAIN s.list /\ s.list[i] = timer
    BY <1>3 DEF Has
  <2>4. s.list \in Seq(Timers) /\ Distinct(s.list) /\ s.trigger \in [Timers -> Nat]
    BY <1>1, Components DEF Sound
  <2>5. /\ list \in Seq(Timers) /\ Distinct(list) /\ ~Has(list, timer)
        /\ \A d : d # timer => (Has(list, d) <=> Has(s.list, d))
    <3>1. /\ list \in Seq(Timers) /\ Distinct(list) /\ ~Has(list, s.list[i])
          /\ \A d : d # s.list[i] => (Has(list, d) <=> Has(s.list, d))
      BY <2>3, <2>4, RemoveAtDistinct, Zenon
    <3> QED
      BY <3>1, <2>3, Zenon
  <2> HIDE DEF list, i
  <2>6. t \in States /\ t.list = list /\ t.trigger = s.trigger /\ t.period = s.period
        /\ t.service = s.service /\ t.ticks = s.ticks
    BY <1>1, <2>5 DEF States
  <2> HIDE DEF t
  <2>7. Undisturbed(s, t)
    BY <2>6 DEF Undisturbed, Notified
  <2>8. /\ u \in States /\ u.list = list /\ u.trigger = s.trigger /\ u.period = s.period
        /\ Undisturbed(s, u)
        /\ u.service.updateNeeded = FALSE => IsEarliest(u.service.nextTrigger, u)
    <3>1. CASE s.trigger[timer] = s.service.nextTrigger
      <4> DEFINE c == ComputeNextTrigger(t)
      <4>1. /\ c \in States /\ SameTimers(t, c) /\ Undisturbed(t, c)
            /\ c.service.updateNeeded = FALSE => IsEarliest(c.service.nextTrigger, c)
        BY <2>6, Computed
      <4>2. u = c
        BY <2>2, <3>1
      <4> HIDE DEF c, u
      <4>3. Undisturbed(s, c)
        BY <4>1, <2>6, <2>7 DEF Undisturbed
      <4> QED
        BY <4>1, <4>2, <4>3, <2>6 DEF SameTimers
    <3>2. CASE s.trigger[timer] # s.service.nextTrigger
      <4>1. u = t
        BY <2>2, <3>2
      <4>2. s.service.updateNeeded = FALSE => IsEarliest(s.service.nextTrigger, s)
        BY DEF Sound
      <4>3. s.service.updateNeeded = FALSE => IsEarliest(s.service.nextTrigger, t)
        BY <4>2, <2>5, <2>6, <3>2 DEF IsEarliest
      <4> QED
        BY <4>1, <4>3, <2>6, <2>7
    <3> QED
      BY <3>1, <3>2
  <2> HIDE DEF u
  <2>9. /\ r \in States /\ r.list = list /\ r.trigger = [s.trigger EXCEPT ![timer] = 0]
        /\ r.period = s.period /\ r.service = u.service /\ r.ticks = u.ticks
    BY <2>8, <2>4 DEF States
  <2> HIDE DEF r
  <2>10. Undisturbed(s, r)
    BY <2>8, <2>9 DEF Undisturbed, Notified
  <2>11. r.service.updateNeeded = FALSE => IsEarliest(r.service.nextTrigger, r)
    BY <2>4, <2>5, <2>8, <2>9 DEF IsEarliest
  <2>12. \A d \in Timers : Has(r.list, d) <=> r.trigger[d] # 0
    BY <2>4, <2>5, <2>9 DEF Sound
  <2>13. \A d \in Repeating : Has(r.list, d) => r.period[d] # 0
    BY <2>5, <2>9 DEF Sound
  <2>14. Sound(r)
    BY <2>5, <2>9, <2>11, <2>12, <2>13 DEF Sound
  <2> QED
    BY <2>1, <2>9, <2>10, <2>14 DEF Set
<1> QED
  BY <1>2, <1>3

\* Setting a trigger time arms a timer that is not armed.
LEMMA TriggerTimeSet ==
    ASSUME NEW s, Sound(s), NEW timer \in Timers, NEW time \in Nat \ {0},
           timer \in Repeating => s.period[timer] # 0
    PROVE  Set(s, SetNextTriggerTime(s, timer, time), timer, time)
<1> DEFINE old == s.trigger[timer]
           t == [s EXCEPT !.trigger[timer] = time]
<1>1. s \in States /\ s.list \in Seq(Timers) /\ Distinct(s.list) /\ s.trigger \in [Timers -> Nat]
  BY Components DEF Sound
<1>2. /\ t \in States /\ t.list = s.list /\ t.trigger = [s.trigger EXCEPT ![timer] = time]
      /\ t.period = s.period /\ t.service = s.service /\ t.ticks = s.ticks
  BY <1>1 DEF States
<1>3. t.trigger[timer] = time /\ \A d \in Timers : d # timer => t.trigger[d] = s.trigger[d]
  BY <1>1, <1>2
<1>4. Undisturbed(s, t)
  BY <1>2 DEF Undisturbed, Notified
<1>5. /\ \A d \in Timers : Has(s.list, d) <=> s.trigger[d] # 0
      /\ \A d \in Repeating : Has(s.list, d) => s.period[d] # 0
      /\ s.service.updateNeeded = FALSE => IsEarliest(s.service.nextTrigger, s)
  BY DEF Sound
<1>6. s.service.nextTrigger \in Nat /\ s.service.updateNeeded \in BOOLEAN
  BY <1>1, Components
<1>7. SetNextTriggerTime(s, timer, time) =
          IF Contains(s.list, timer) THEN UpdateTriggerTime(t, timer, old) ELSE RegisterTimer(t, timer)
  BY DEF SetNextTriggerTime
<1> HIDE DEF t
<1>8. CASE Has(s.list, timer)
  <2> DEFINE r == UpdateTriggerTime(t, timer, old)
  <2>1. SetNextTriggerTime(s, timer, time) = r
    BY <1>1, <1>7, <1>8, ContainsIsHas
  <2>2. r = IF t.service.nextTrigger = old \/ t.trigger[timer] < t.service.nextTrigger
            THEN ComputeNextTrigger(t) ELSE t
    BY DEF UpdateTriggerTime
  <2>3. /\ r \in States /\ SameTimers(t, r) /\ Undisturbed(s, r)
        /\ r.service.updateNeeded = FALSE => IsEarliest(r.service.nextTrigger, r)
    <3>1. CASE t.service.nextTrigger = old \/ t.trigger[timer] < t.service.nextTrigger
      <4> DEFINE c == ComputeNextTrigger(t)
      <4>1. /\ c \in States /\ SameTimers(t, c) /\ Undisturbed(t, c)
            /\ c.service.updateNeeded = FALSE => IsEarliest(c.service.nextTrigger, c)
        BY <1>2, Computed
      <4>2. r = c
        BY <2>2, <3>1
      <4> HIDE DEF c, r
      <4>3. Undisturbed(s, c)
        BY <4>1, <1>2, <1>4 DEF Undisturbed
      <4> QED
        BY <4>1, <4>2, <4>3
    <3>2. CASE ~(t.service.nextTrigger = old \/ t.trigger[timer] < t.service.nextTrigger)
      <4>1. r = t
        BY <2>2, <3>2
      <4>2. s.service.nextTrigger # old /\ s.service.nextTrigger <= time
        BY <3>2, <1>2, <1>3, <1>6
      <4>3. IsEarliest(s.service.nextTrigger, s) => IsEarliest(s.service.nextTrigger, t)
        BY <4>2, <1>2, <1>3 DEF IsEarliest
      <4>4. SameTimers(t, t)
        BY DEF SameTimers
      <4> HIDE DEF r
      <4> QED
        BY <4>1, <4>3, <4>4, <1>2, <1>4, <1>5
    <3> QED
      BY <3>1, <3>2
  <2> HIDE DEF r
  <2>4. r.list = s.list /\ r.trigger = [s.trigger EXCEPT ![timer] = time] /\ r.period = s.period
    BY <2>3, <1>2 DEF SameTimers
  <2>5. \A d \in Timers : Has(r.list, d) <=> r.trigger[d] # 0
    BY <2>4, <1>1, <1>5, <1>8
  <2>6. Sound(r)
    BY <2>3, <2>4, <2>5, <1>1, <1>5 DEF Sound
  <2> QED
    BY <2>1, <2>3, <2>4, <2>6 DEF Set
<1>9. CASE ~Has(s.list, timer)
  <2> DEFINE list == <<timer>> \o t.list
             u == [t EXCEPT !.list = list]
             v == [u EXCEPT !.service.nextTrigger = t.trigger[timer]]
             r == RegisterTimer(t, timer)
  <2>1. SetNextTriggerTime(s, timer, time) = r
    BY <1>1, <1>7, <1>9, ContainsIsHas
  <2>2. r = IF t.trigger[timer] < t.service.nextTrigger THEN CalculateNextTrigger(v) ELSE u
    BY DEF RegisterTimer
  <2>3. list \in Seq(Timers) /\ Distinct(list) /\ \A d : Has(list, d) <=> d = timer \/ Has(s.list, d)
    BY <1>1, <1>2, <1>9, PushedInFront
  <2> HIDE DEF list
  <2>4. /\ u \in States /\ u.list = list /\ u.trigger = t.trigger /\ u.period = s.period
        /\ u.service = s.service /\ u.ticks = s.ticks
    BY <1>2, <2>3 DEF States
  <2>5. /\ v \in States /\ v.list = list /\ v.trigger = t.trigger /\ v.period = s.period
        /\ v.service.nextTrigger = time /\ v.ticks = s.ticks
        /\ v.service.updateNeeded = s.service.updateNeeded
        /\ v.service.holdUpdate = s.service.holdUpdate
    BY <2>4, <1>3 DEF States, Services
  <2> HIDE DEF u, v
  <2>6. Undisturbed(s, u)
    BY <2>4 DEF Undisturbed, Notified
  <2>7. /\ r \in States /\ r.list = list /\ r.trigger = t.trigger /\ r.period = s.period
        /\ Undisturbed(s, r)
        /\ r.service.updateNeeded = FALSE => IsEarliest(r.service.nextTrigger, r)
    <3>1. CASE time < s.service.nextTrigger
      <4> DEFINE c == CalculateNextTrigger(v)
      <4>1. c \in States /\ SameTimers(v, c) /\ c.service = v.service /\ Undisturbed(v, c) /\ Notified(c)
        BY <2>5, Calculated
      <4>2. r = c
        BY <2>2, <3>1, <1>2, <1>3
      <4> HIDE DEF c, r
      <4>3. Undisturbed(s, c)
        BY <4>1, <2>5 DEF Undisturbed
      <4>4. c.list = list /\ c.trigger = t.trigger /\ c.period = s.period /\ c.service.nextTrigger = time
            /\ c.service.updateNeeded = s.service.updateNeeded
        BY <4>1, <2>5 DEF SameTimers
      <4>5. IsEarliest(s.service.nextTrigger, s) => IsEarliest(time, c)
        <5> SUFFICES ASSUME IsEarliest(s.service.nextTrigger, s)
                     PROVE  IsEarliest(time, c)
          OBVIOUS
        <5>1. Has(c.list, timer) /\ time = c.trigger[timer]
          BY <4>4, <2>3, <1>3
        <5>2. time <= Never
          BY <3>1, <1>6, Constants DEF IsEarliest
        <5>3. \A d \in Timers : Has(c.list, d) => time <= c.trigger[d]
          <6> SUFFICES ASSUME NEW d \in Timers, Has(c.list, d)
                       PROVE  time <= c.trigger[d]
            OBVIOUS
          <6>1. CASE d = timer
            BY <6>1, <5>1
          <6>2. CASE d # timer
            <7>1. Has(s.list, d) /\ c.trigger[d] = s.trigger[d] /\ s.trigger[d] \in Nat
              BY <6>2, <4>4, <2>3, <1>1, <1>3
            <7>2. s.service.nextTrigger <= s.trigger[d]
              BY <7>1 DEF IsEarliest
            <7> QED
              BY <7>1, <7>2, <3>1, <1>6
          <6> QED
            BY <6>1, <6>2
        <5> QED
          BY <5>1, <5>2, <5>3 DEF IsEarliest
      <4> QED
        BY <4>1, <4>2, <4>3, <4>4, <4>5, <1>5
    <3>2. CASE ~(time < s.service.nextTrigger)
      <4>1. r = u
        BY <2>2, <3>2, <1>2, <1>3
      <4>2. s.service.nextTrigger <= time
        BY <3>2, <1>6
      <4>3. IsEarliest(s.service.nextTrigger, s) => IsEarliest(s.service.nextTrigger, u)
        <5> SUFFICES ASSUME IsEarliest(s.service.nextTrigger, s)
                     PROVE  IsEarliest(s.service.nextTrigger, u)
          OBVIOUS
        <5>1. \A d \in Timers : Has(s.list, d) => Has(u.list, d) /\ u.trigger[d] = s.trigger[d]
          BY <2>3, <2>4, <1>3, <1>9
        <5>2. \A d \in Timers : Has(u.list, d) => s.service.nextTrigger <= u.trigger[d]
          BY <4>2, <2>3, <2>4, <1>3 DEF IsEarliest
        <5> QED
          BY <5>1, <5>2 DEF IsEarliest
      <4> HIDE DEF r
      <4> QED
        BY <4>1, <4>3, <2>4, <2>6, <1>5
    <3> QED
      BY <3>1, <3>2
  <2> HIDE DEF r
  <2>8. \A d \in Timers : Has(r.list, d) <=> r.trigger[d] # 0
    BY <2>3, <2>7, <1>3, <1>5
  <2>9. \A d \in Repeating : Has(r.list, d) => r.period[d] # 0
    BY <2>3, <2>7, <1>5
  <2>10. Sound(r)
    BY <2>3, <2>7, <2>8, <2>9 DEF Sound
  <2> QED
    BY <2>1, <2>7, <2>10, <1>2 DEF Set
<1> QED
  BY <1>8, <1>9

\* Now is a time.
LEMMA NowIsTime ==
    ASSUME NEW s \in States
    PROVE  Now(s.ticks) \in Nat /\ s.ticks.systemTime <= Now(s.ticks)
<1>1. s.ticks.systemTime \in Nat /\ s.ticks.progressed \in Nat
  BY Components
<1>2. s.ticks.progressed * Resolution \in Nat
  BY <1>1, Constants
<1> QED
  BY <1>1, <1>2 DEF Now

\* A timer is started to trigger a tick after its duration, so that the tick under way
\* does not count.
LEMMA Started ==
    ASSUME NEW s, Sound(s), NEW timer \in Timers, NEW duration \in Durations
    PROVE  Set(s, Start(s, timer, duration), timer, Now(s.ticks) + duration + Resolution)
<1> DEFINE period2 == [t \in DOMAIN s.period |-> IF t = timer THEN duration ELSE s.period[t]]
           u == [s EXCEPT !.period = period2]
           time == Now(s.ticks) + duration + Resolution
<1>1. s \in States /\ s.period \in [Repeating -> Nat]
  BY Components DEF Sound
<1>2. duration \in Nat \ {0}
  BY Constants
<1>3. /\ period2 \in [Repeating -> Nat]
      /\ \A t \in Repeating : period2[t] = IF t = timer THEN duration ELSE s.period[t]
  BY <1>1, <1>2
<1>4. Start(s, timer, duration) = SetNextTriggerTime(u, timer, time)
  BY DEF Start
<1> HIDE DEF period2
<1>5. /\ u \in States /\ u.period = period2 /\ u.list = s.list /\ u.trigger = s.trigger
      /\ u.service = s.service /\ u.ticks = s.ticks
  BY <1>1, <1>3 DEF States
<1> HIDE DEF u
<1>6. Sound(u)
  <2>1. \A t \in Repeating : Has(s.list, t) => u.period[t] # 0
    BY <1>2, <1>3, <1>5 DEF Sound
  <2>2. IsEarliest(s.service.nextTrigger, s) => IsEarliest(u.service.nextTrigger, u)
    BY <1>5 DEF IsEarliest
  <2> QED
    BY <2>1, <2>2, <1>5 DEF Sound
<1>7. time \in Nat \ {0}
  BY <1>1, <1>2, NowIsTime, Constants
<1>8. timer \in Repeating => u.period[timer] # 0
  BY <1>2, <1>3, <1>5
<1> HIDE DEF time
<1>9. Set(u, SetNextTriggerTime(u, timer, time), timer, time)
  BY <1>6, <1>7, <1>8, TriggerTimeSet
<1>10. \A r : Undisturbed(u, r) => Undisturbed(s, r)
  BY <1>5 DEF Undisturbed, Notified
<1>11. Set(s, SetNextTriggerTime(u, timer, time), timer, time)
  BY <1>5, <1>9, <1>10 DEF Set
<1> QED
  BY <1>4, <1>11 DEF time

\* A timer whose action is executed is disarmed, or goes on at a later time.
LEMMA Triggered ==
    ASSUME NEW s, Sound(s), NEW timer \in Timers, s.trigger[timer] # 0
    PROVE  \E time \in Nat : /\ time = 0 \/ s.trigger[timer] < time
                             /\ Set(s, ComputeNextTriggerTime(s, timer), timer, time)
<1>1. CASE timer \in SingleShot
  <2>1. ComputeNextTriggerTime(s, timer) = Cancel(s, timer)
    BY <1>1 DEF ComputeNextTriggerTime
  <2>2. Set(s, ComputeNextTriggerTime(s, timer), timer, 0)
    BY <2>1, Cancelled
  <2> QED
    BY <2>2
<1>2. CASE timer \notin SingleShot
  <2> DEFINE old == s.trigger[timer]
             now == Max({Now(s.ticks), old})
             length == s.period[timer]
             diff == (now - old) % length
             time == now - diff + length
  <2>1. ComputeNextTriggerTime(s, timer) = SetNextTriggerTime(s, timer, time)
    BY <1>2 DEF ComputeNextTriggerTime
  <2>2. s \in States /\ s.trigger \in [Timers -> Nat] /\ s.period \in [Repeating -> Nat]
    BY Components DEF Sound
  <2>3. timer \in Repeating
    BY <1>2 DEF Timers
  <2>4. Has(s.list, timer)
    BY DEF Sound
  <2>5. old \in Nat /\ length \in Nat \ {0}
    BY <2>2, <2>3, <2>4 DEF Sound
  <2>6. Now(s.ticks) \in Nat
    BY <2>2, NowIsTime
  <2>7. now \in Nat /\ old <= now
    <3> DEFINE n == Now(s.ticks)
    <3> HIDE DEF n, old
    <3>1. n \in Nat /\ old \in Nat
      BY <2>5, <2>6 DEF n
    <3>2. \E x \in {n, old} : \A y \in {n, old} : x >= y
      BY <3>1
    <3>3. Max({n, old}) \in {n, old} /\ \A y \in {n, old} : Max({n, old}) >= y
      BY <3>2 DEF Max
    <3> QED
      BY <3>1, <3>3 DEF n
  <2> HIDE DEF now, old, length
  <2>8. now - old \in Nat
    BY <2>5, <2>7
  <2>9. diff \in Nat /\ diff <= now - old
    BY <2>5, <2>8, RemainderIsLess
  <2> HIDE DEF diff
  <2>10. time \in Nat \ {0} /\ old < time
    BY <2>5, <2>7, <2>9
  <2> HIDE DEF time
  <2>11. Set(s, SetNextTriggerTime(s, timer, time), timer, time)
    BY <2>5, <2>10, TriggerTimeSet DEF length
  <2> QED
    BY <2>1, <2>10, <2>11 DEF old
<1> QED
  BY <1>1, <1>2

\* No armed timer triggers before earliest allows.
NotEarly(s, earliest) == \A t \in Timers : s.trigger[t] # 0 => earliest[t] <= s.trigger[t]

\* No armed timer triggers before time n.
NotBefore(s, n) == \A t \in Timers : s.trigger[t] # 0 => n <= s.trigger[t]

\* What a request does: it leaves a sound state, in which no timer is due earlier than
\* the current time but those that were.
Done(s, r, request) ==
    /\ Sound(r) /\ Undisturbed(s, r)
    /\ Allowed(s, request) \in [Timers -> Nat] /\ NotEarly(r, Allowed(s, request))
    /\ \A n \in Nat : n <= s.ticks.systemTime /\ NotBefore(s, n) => NotBefore(r, n)

LEMMA RequestDone ==
    ASSUME NEW s, Sound(s), NEW request \in Requests,
           earliestAllowed \in [Timers -> Nat], NotEarly(s, earliestAllowed)
    PROVE  Done(s, Requested(s, request), request)
<1> DEFINE timer == request.timer
           duration == request.duration
           r == Requested(s, request)
           time == IF duration = 0 THEN 0 ELSE Now(s.ticks) + duration + Resolution
           allowed == IF duration = 0 THEN 0 ELSE Now(s.ticks) + duration + Resolution - 1
<1>1. timer \in Timers /\ duration \in Durations \cup {0}
  BY DEF Requests
<1>2. s \in States /\ s.trigger \in [Timers -> Nat]
  BY Components DEF Sound
<1>3. /\ Now(s.ticks) \in Nat /\ s.ticks.systemTime <= Now(s.ticks) /\ s.ticks.systemTime \in Nat
      /\ duration \in Nat
  BY <1>1, <1>2, NowIsTime, Components, Constants
<1>4. Set(s, r, timer, time)
  <2>1. CASE duration = 0
    <3>1. r = Cancel(s, timer) /\ time = 0
      BY <2>1 DEF Requested
    <3> QED
      BY <3>1, <1>1, Cancelled
  <2>2. CASE duration # 0
    <3>1. r = Start(s, timer, duration) /\ time = Now(s.ticks) + duration + Resolution
      BY <2>2 DEF Requested
    <3>2. duration \in Durations
      BY <2>2, <1>1
    <3> QED
      BY <3>1, <3>2, <1>1, Started
  <2> QED
    BY <2>1, <2>2
<1>5. Allowed(s, request) = [earliestAllowed EXCEPT ![timer] = allowed]
  BY DEF Allowed
<1>6. time \in Nat /\ allowed \in Nat /\ (time # 0 => allowed <= time /\ s.ticks.systemTime <= time)
  BY <1>3, Constants
<1> HIDE DEF timer, duration, r, time, allowed
<1>7. /\ r.trigger = [s.trigger EXCEPT ![timer] = time] /\ Sound(r) /\ Undisturbed(s, r)
  BY <1>4 DEF Set
<1>8. /\ Allowed(s, request) \in [Timers -> Nat]
      /\ \A t \in Timers : Allowed(s, request)[t] = IF t = timer THEN allowed ELSE earliestAllowed[t]
  BY <1>1, <1>5, <1>6
<1>9. \A t \in Timers : r.trigger[t] = IF t = timer THEN time ELSE s.trigger[t]
  BY <1>1, <1>2, <1>7
<1>10. NotEarly(r, Allowed(s, request))
  BY <1>6, <1>8, <1>9 DEF NotEarly
<1>11. ASSUME NEW n \in Nat, n <= s.ticks.systemTime, NotBefore(s, n)
       PROVE  NotBefore(r, n)
  BY <1>3, <1>6, <1>9, <1>11 DEF NotBefore
<1> QED
  BY <1>7, <1>8, <1>10, <1>11 DEF Done, r

-----------------------------------------------------------------------------
(* The inductive invariant.                                                 *)

\* Updates are held while actions are executed, and only then may one be left to be
\* done; the flag of the interrupt says whether ProcessTicks is on its way.
Phases ==
    /\ event \in {"none", "queued", "progressing", "progressed", "reschedule", "done"}
    /\ (service.holdUpdate = TRUE) <=> event \in {"progressing", "progressed"}
    /\ (ticks.notificationScheduled = FALSE) <=> event = "none"

\* Unless updates are held nextTrigger is up to date, and the interrupt knows of it.
UpToDate == service.holdUpdate = FALSE => service.updateNeeded = FALSE /\ Notified(State)

\* While actions are executed no armed timer was due before the last one executed.
InOrder ==
    /\ last \in Nat
    /\ event \in {"none", "queued"} => last = 0
    /\ event = "progressing" => NotBefore(State, last)

InTime == earliestAllowed \in [Timers -> Nat] /\ NotEarly(State, earliestAllowed)

TimerInv == Sound(State) /\ Phases /\ UpToDate /\ InOrder /\ InTime

LEMMA StateIs ==
    /\ State.list = scheduledTimers /\ State.trigger = trigger /\ State.period = period
    /\ State.service = service /\ State.ticks = ticks
BY DEF State

LEMMA StateBecomes ==
    ASSUME NEW r \in States, Becomes(r)
    PROVE  State' = r
<1>1. r = [list |-> r.list, trigger |-> r.trigger, period |-> r.period, service |-> r.service, ticks |-> r.ticks]
  BY DEF States
<1> QED
  BY <1>1 DEF Becomes, State

\* The types of the variables.
LEMMA TypesOfVariables ==
    ASSUME Sound(State)
    PROVE  /\ State \in States
           /\ scheduledTimers \in Seq(Timers) /\ trigger \in [Timers -> Nat] /\ period \in [Repeating -> Nat]
           /\ service \in Services /\ ticks \in Counters
<1>1. State \in States
  BY DEF Sound
<1> QED
  BY <1>1, Components, StateIs

LEMMA InitInv ==
    Init => TimerInv
<1> SUFFICES ASSUME Init
             PROVE  TimerInv
  OBVIOUS
<1>1. /\ State.list = <<>> /\ State.trigger = [t \in Timers |-> 0] /\ State.period = [t \in Repeating |-> 0]
      /\ State.service = [nextTrigger |-> Never, holdUpdate |-> FALSE, updateNeeded |-> FALSE]
      /\ State.ticks = [systemTime |-> 0, progressed |-> 0, nextNotification |-> MaxTicks \div 2,
                        notificationScheduled |-> FALSE]
  BY StateIs DEF Init
<1>2. State \in States
  <2>1. <<>> \in Seq(Timers)
    OBVIOUS
  <2>2. [nextTrigger |-> Never, holdUpdate |-> FALSE, updateNeeded |-> FALSE] \in Services
    BY Constants DEF Services
  <2>3. [systemTime |-> 0, progressed |-> 0, nextNotification |-> MaxTicks \div 2,
         notificationScheduled |-> FALSE] \in Counters
    BY Constants DEF Counters
  <2> QED
    BY <2>1, <2>2, <2>3 DEF Init, State, States
<1>3. Distinct(State.list) /\ \A t : ~Has(State.list, t)
  BY <1>1 DEF Distinct, Has
<1>4. \A t \in Timers : State.trigger[t] = 0
  BY <1>1
<1>5. State.service.nextTrigger = Never /\ State.service.updateNeeded = FALSE
  BY <1>1
<1>6. IsEarliest(Never, State)
  BY <1>3, Constants DEF IsEarliest
<1>7. Sound(State)
  BY <1>2, <1>3, <1>4, <1>5, <1>6 DEF Sound
<1>8. Notified(State)
  BY <1>5 DEF Notified
<1>9. NotBefore(State, last) /\ NotEarly(State, earliestAllowed)
  BY <1>4 DEF NotBefore, NotEarly
<1> QED
  BY <1>7, <1>8, <1>9 DEF Init, TimerInv, Phases, UpToDate, InOrder, InTime

LEMMA OtherEventInv ==
    ASSUME TimerInv, OtherEvent
    PROVE  TimerInv'
<1>1. PICK request \in Requests : /\ event \in {"none", "queued"}
                                  /\ Becomes(Requested(State, request))
                                  /\ earliestAllowed' = Allowed(State, request)
                                  /\ UNCHANGED <<event, last>>
  BY DEF OtherEvent
<1> DEFINE r == Requested(State, request)
<1>2. Done(State, r, request)
  BY RequestDone DEF TimerInv, InTime
<1> HIDE DEF r
<1>3. Sound(r) /\ r \in States /\ Undisturbed(State, r)
  BY <1>2 DEF Done, Sound
<1>4. State' = r
  BY <1>1, <1>3, StateBecomes DEF r
<1>5. service' = r.service /\ ticks' = r.ticks
  BY <1>1 DEF Becomes, r
<1>6. Phases'
  BY <1>1, <1>3, <1>5, StateIs DEF TimerInv, Phases, Undisturbed
<1>7. UpToDate'
  BY <1>3, <1>4, <1>5, StateIs DEF TimerInv, UpToDate, Undisturbed
<1>8. InOrder'
  BY <1>1 DEF TimerInv, InOrder
<1>9. InTime'
  BY <1>1, <1>2, <1>4 DEF Done, InTime
<1>10. Sound(State)'
  BY <1>3, <1>4
<1> QED
  BY <1>6, <1>7, <1>8, <1>9, <1>10 DEF TimerInv

\* What a step that changes no timer keeps of a sound state.
LEMMA SoundKept ==
    ASSUME Sound(State), UNCHANGED <<scheduledTimers, trigger, period>>,
           service' \in Services, ticks' \in Counters,
           service'.nextTrigger = service.nextTrigger, service'.updateNeeded = service.updateNeeded
    PROVE  /\ Sound(State)'
           /\ \A n : NotBefore(State, n) => NotBefore(State', n)
           /\ \A e : NotEarly(State, e) => NotEarly(State', e)
<1>1. /\ State'.list = State.list /\ State'.trigger = State.trigger /\ State'.period = State.period
      /\ State'.service = service' /\ State'.ticks = ticks'
  BY DEF State
<1>2. State' \in States
  BY TypesOfVariables DEF State, States
<1>3. IsEarliest(State.service.nextTrigger, State) => IsEarliest(State'.service.nextTrigger, State')
  BY <1>1, StateIs DEF IsEarliest
<1>4. State'.service.updateNeeded = State.service.updateNeeded
  BY <1>1, StateIs
<1>5. Sound(State')
  BY <1>1, <1>2, <1>3, <1>4 DEF Sound
<1>6. /\ \A n : NotBefore(State, n) => NotBefore(State', n)
      /\ \A e : NotEarly(State, e) => NotEarly(State', e)
  BY <1>1 DEF NotBefore, NotEarly
<1> QED
  BY <1>5, <1>6

LEMMA SystemTickInterruptInv ==
    ASSUME TimerInv, SystemTickInterrupt
    PROVE  TimerInv'
<1> DEFINE k == [ticks EXCEPT !.progressed = @ + 1]
           notify == k.progressed >= k.nextNotification /\ ~k.notificationScheduled
<1>1. /\ ticks' = IF notify THEN [k EXCEPT !.notificationScheduled = TRUE] ELSE k
      /\ event' = IF notify THEN "queued" ELSE event
      /\ notify => event # "queued"
      /\ UNCHANGED <<scheduledTimers, trigger, period, service, earliestAllowed, last>>
  BY DEF SystemTickInterrupt
<1>2. ticks \in Counters /\ service \in Services /\ Sound(State)
  BY TypesOfVariables DEF TimerInv
<1>3. /\ k \in Counters /\ k.systemTime = ticks.systemTime /\ k.nextNotification = ticks.nextNotification
      /\ k.notificationScheduled = ticks.notificationScheduled
  BY <1>2 DEF Counters
<1> HIDE DEF k
<1>4. /\ ticks' \in Counters /\ ticks'.systemTime = ticks.systemTime
      /\ ticks'.nextNotification = ticks.nextNotification
      /\ notify => ticks'.notificationScheduled = TRUE
      /\ ~notify => ticks'.notificationScheduled = ticks.notificationScheduled
  BY <1>1, <1>3 DEF Counters
<1>5. notify => event = "none"
  BY <1>2, <1>3 DEF TimerInv, Phases, Counters
<1> HIDE DEF notify
<1>6. /\ Sound(State)' /\ \A n : NotBefore(State, n) => NotBefore(State', n)
      /\ \A e : NotEarly(State, e) => NotEarly(State', e)
  BY <1>1, <1>2, <1>4, SoundKept
<1>7. Phases'
  BY <1>1, <1>4, <1>5 DEF TimerInv, Phases
<1>8. State'.service = service /\ State'.ticks = ticks'
  BY <1>1 DEF State
<1>9. Notified(State) => Notified(State')
  BY <1>4, <1>8, StateIs DEF Notified
<1>10. UpToDate'
  BY <1>1, <1>9 DEF TimerInv, UpToDate
<1>11. InOrder' /\ InTime'
  BY <1>1, <1>5, <1>6 DEF TimerInv, InOrder, InTime
<1> QED
  BY <1>6, <1>7, <1>10, <1>11 DEF TimerInv

LEMMA TimeProgressedInv ==
    ASSUME TimerInv, TimeProgressed
    PROVE  TimerInv'
<1>1. ticks \in Counters /\ service \in Services /\ Sound(State) /\ State \in States
  BY TypesOfVariables DEF TimerInv
<1>2. Now(ticks) \in Nat
  BY <1>1, NowIsTime, StateIs
<1>3. /\ ticks' \in Counters /\ ticks'.notificationScheduled = ticks.notificationScheduled
      /\ service' \in Services /\ service'.nextTrigger = service.nextTrigger
      /\ service'.updateNeeded = service.updateNeeded /\ service'.holdUpdate = TRUE
  BY <1>1, <1>2 DEF TimeProgressed, Counters, Services
<1>4. /\ event = "queued" /\ event' = "progressing"
      /\ UNCHANGED <<scheduledTimers, trigger, period, earliestAllowed, last>>
  BY DEF TimeProgressed
<1>5. /\ Sound(State)' /\ \A n : NotBefore(State, n) => NotBefore(State', n)
      /\ \A e : NotEarly(State, e) => NotEarly(State', e)
  BY <1>1, <1>3, <1>4, SoundKept
<1>6. Phases' /\ UpToDate'
  BY <1>3, <1>4 DEF TimerInv, Phases, UpToDate
<1>7. NotBefore(State, last)
  <2>1. last = 0
    BY <1>4 DEF TimerInv, InOrder
  <2>2. trigger \in [Timers -> Nat]
    BY TypesOfVariables DEF TimerInv
  <2> QED
    BY <2>1, <2>2, StateIs DEF NotBefore
<1>8. InOrder' /\ InTime'
  BY <1>4, <1>5, <1>7 DEF TimerInv, InOrder, InTime
<1> QED
  BY <1>5, <1>6, <1>8 DEF TimerInv

LEMMA RescheduleInv ==
    ASSUME TimerInv, Reschedule
    PROVE  TimerInv'
<1>1. ticks \in Counters /\ service \in Services /\ Sound(State)
  BY TypesOfVariables DEF TimerInv
<1>2. /\ ticks' \in Counters /\ ticks'.systemTime = ticks.systemTime
      /\ ticks'.nextNotification = ticks.nextNotification
      /\ (ticks'.notificationScheduled = TRUE) <=> event = "reschedule"
      /\ ticks'.notificationScheduled \in BOOLEAN
  BY <1>1 DEF Reschedule, Counters
<1>3. /\ event \in {"reschedule", "done"} /\ event' = IF event = "reschedule" THEN "queued" ELSE "none"
      /\ last' = 0
      /\ UNCHANGED <<scheduledTimers, trigger, period, service, earliestAllowed>>
  BY DEF Reschedule
<1>4. Sound(State)' /\ \A e : NotEarly(State, e) => NotEarly(State', e)
  BY <1>1, <1>2, <1>3, SoundKept
<1>5. Phases'
  BY <1>2, <1>3 DEF TimerInv, Phases
<1>6. State'.service = service /\ State'.ticks = ticks'
  BY <1>3 DEF State
<1>7. Notified(State) => Notified(State')
  BY <1>2, <1>6, StateIs DEF Notified
<1>8. UpToDate' /\ InOrder' /\ InTime'
  BY <1>3, <1>4, <1>7 DEF TimerInv, UpToDate, InOrder, InTime
<1> QED
  BY <1>4, <1>5, <1>8 DEF TimerInv

LEMMA EndOfProgressInv ==
    ASSUME TimerInv, EndOfProgress
    PROVE  TimerInv'
<1> DEFINE released == [State EXCEPT !.service.holdUpdate = FALSE]
           c == IF service.updateNeeded THEN ComputeNextTrigger(released) ELSE released
           r == CalculateNextTrigger(c)
<1>1. /\ event \in {"progressed", "progressing"} /\ Becomes(r)
      /\ event' = IF r.ticks.progressed >= r.ticks.nextNotification THEN "reschedule" ELSE "done"
      /\ UNCHANGED <<earliestAllowed, last>>
  BY DEF EndOfProgress
<1>2. Sound(State) /\ State \in States /\ service \in Services /\ ticks \in Counters
  BY TypesOfVariables DEF TimerInv
<1>3. /\ released \in States /\ SameTimers(State, released) /\ released.ticks = ticks
      /\ released.service.holdUpdate = FALSE
      /\ released.service.nextTrigger = service.nextTrigger
      /\ released.service.updateNeeded = service.updateNeeded
  BY <1>2, StateIs DEF States, Services, SameTimers
<1> HIDE DEF released
<1>4. /\ c \in States /\ SameTimers(State, c) /\ c.service.holdUpdate = FALSE
      /\ c.service.updateNeeded = FALSE /\ IsEarliest(c.service.nextTrigger, c)
      /\ c.ticks.notificationScheduled = ticks.notificationScheduled
  <2>1. CASE service.updateNeeded = TRUE
    <3> DEFINE d == ComputeNextTrigger(released)
    <3>1. /\ d \in States /\ SameTimers(released, d) /\ Undisturbed(released, d)
          /\ d.service.updateNeeded = FALSE /\ IsEarliest(d.service.nextTrigger, d)
      BY <1>3, Computed
    <3>2. c = d
      BY <2>1
    <3> HIDE DEF c, d
    <3> QED
      BY <3>1, <3>2, <1>3 DEF Undisturbed, SameTimers
  <2>2. CASE service.updateNeeded = FALSE
    <3>1. c = released
      BY <2>2
    <3>2. IsEarliest(service.nextTrigger, State)
      BY <2>2, <1>2, StateIs DEF Sound
    <3>3. IsEarliest(service.nextTrigger, released)
      BY <3>2, <1>3 DEF IsEarliest, SameTimers
    <3> HIDE DEF c
    <3> QED
      BY <3>1, <3>3, <2>2, <1>3
  <2> QED
    BY <2>1, <2>2, <1>2 DEF Services
<1> HIDE DEF c
<1>5. r \in States /\ SameTimers(c, r) /\ r.service = c.service /\ Undisturbed(c, r) /\ Notified(r)
  BY <1>4, Calculated
<1> HIDE DEF r
<1>6. SameTimers(State, r) /\ r.ticks.notificationScheduled = ticks.notificationScheduled
  BY <1>4, <1>5 DEF SameTimers, Undisturbed
<1>7. State' = r /\ service' = r.service /\ ticks' = r.ticks
  BY <1>1, <1>5, StateBecomes DEF Becomes
<1>8. Sound(r)
  <2>1. IsEarliest(r.service.nextTrigger, r)
    BY <1>4, <1>5 DEF IsEarliest, SameTimers
  <2> QED
    BY <2>1, <1>2, <1>5, <1>6 DEF Sound, SameTimers
<1>9. Phases'
  BY <1>1, <1>4, <1>5, <1>6, <1>7 DEF TimerInv, Phases
<1>10. UpToDate'
  BY <1>4, <1>5, <1>7 DEF UpToDate
<1>11. InOrder'
  BY <1>1 DEF TimerInv, InOrder
<1>12. InTime'
  BY <1>1, <1>6, <1>7 DEF TimerInv, InTime, NotEarly, SameTimers
<1>13. Sound(State)'
  BY <1>7, <1>8
<1> QED
  BY <1>9, <1>10, <1>11, <1>12, <1>13 DEF TimerInv

\* The timer a round of Progressed picks: the first of those that are due first.
Picked ==
    CHOOSE i \in Due : \A j \in Due :
        \/ trigger[scheduledTimers[i]] < trigger[scheduledTimers[j]]
        \/ trigger[scheduledTimers[i]] = trigger[scheduledTimers[j]] /\ i <= j

\* There is such a timer; no other armed timer is due before it.
LEMMA PickedIsFirst ==
    ASSUME TimerInv, Due # {}
    PROVE  /\ Picked \in DOMAIN scheduledTimers /\ scheduledTimers[Picked] \in Timers
           /\ trigger[scheduledTimers[Picked]] # 0
           /\ trigger[scheduledTimers[Picked]] <= ticks.systemTime
           /\ NotBefore(State, trigger[scheduledTimers[Picked]])
<1> DEFINE time(i) == trigger[scheduledTimers[i]]
           first(i) == \A j \in Due : time(i) < time(j) \/ (time(i) = time(j) /\ i <= j)
           S == {time(i) : i \in Due}
           m == Min(S)
           T == {i \in Due : time(i) = m}
           e == Min(T)
<1>1. /\ Sound(State) /\ scheduledTimers \in Seq(Timers) /\ trigger \in [Timers -> Nat]
      /\ ticks.systemTime \in Nat
  BY TypesOfVariables DEF TimerInv, Counters
<1>2. \A i \in DOMAIN scheduledTimers : i \in Nat /\ scheduledTimers[i] \in Timers /\ time(i) \in Nat
  BY <1>1
<1>3. \A i : i \in Due <=> i \in DOMAIN scheduledTimers /\ time(i) <= ticks.systemTime
  BY DEF Due
<1>4. S \in SUBSET Nat /\ S # {}
  BY <1>2, <1>3
<1>5. m \in S /\ \A y \in S : m <= y
  BY <1>4, MinNatural
<1>6. \A i \in Due : time(i) \in S
  OBVIOUS
<1>7. T \in SUBSET Nat /\ T # {}
  BY <1>2, <1>3, <1>5
<1>8. e \in T /\ \A y \in T : e <= y
  BY <1>7, MinNatural
<1>9. e \in Due /\ time(e) = m /\ \A j \in Due : m <= time(j) /\ (time(j) = m => e <= j)
  BY <1>5, <1>6, <1>8
<1> HIDE DEF m, S, T, e
<1>10. first(e)
  BY <1>2, <1>3, <1>9
<1>11. Picked \in Due /\ first(Picked)
  BY <1>9, <1>10 DEF Picked
<1>12. Picked \in DOMAIN scheduledTimers /\ scheduledTimers[Picked] \in Timers /\ time(Picked) <= ticks.systemTime
  BY <1>2, <1>3, <1>11
<1>13. time(Picked) # 0
  <2>1. Has(scheduledTimers, scheduledTimers[Picked])
    BY <1>12 DEF Has
  <2> QED
    BY <2>1, <1>1, <1>12, StateIs DEF Sound
<1>14. NotBefore(State, time(Picked))
  <2> SUFFICES ASSUME NEW t \in Timers, trigger[t] # 0
               PROVE  time(Picked) <= trigger[t]
    BY StateIs DEF NotBefore
  <2>1. Has(scheduledTimers, t)
    BY <1>1, StateIs DEF Sound
  <2>2. PICK j \in DOMAIN scheduledTimers : scheduledTimers[j] = t
    BY <2>1 DEF Has
  <2>3. CASE j \in Due
    BY <2>2, <2>3, <1>2, <1>11, <1>12
  <2>4. CASE j \notin Due
    BY <2>2, <2>4, <1>1, <1>2, <1>3, <1>12
  <2> QED
    BY <2>3, <2>4
<1> QED
  BY <1>12, <1>13, <1>14

\* What the round does before the action: the timer is disarmed or goes on later.
LEMMA PickedTriggers ==
    ASSUME TimerInv, Due # {}
    PROVE  LET timer == scheduledTimers[Picked]
               computed == ComputeNextTriggerTime(State, timer)
           IN  /\ Sound(computed) /\ Undisturbed(State, computed)
               /\ NotEarly(computed, earliestAllowed) /\ NotBefore(computed, trigger[timer])
               /\ \A t \in Timers : t # timer => computed.trigger[t] = trigger[t]
<1> DEFINE timer == scheduledTimers[Picked]
           computed == ComputeNextTriggerTime(State, timer)
<1>1. /\ timer \in Timers /\ trigger[timer] # 0 /\ NotBefore(State, trigger[timer])
  BY PickedIsFirst
<1>2. Sound(State) /\ State.trigger = trigger /\ trigger \in [Timers -> Nat]
      /\ earliestAllowed \in [Timers -> Nat] /\ NotEarly(State, earliestAllowed)
  BY StateIs, TypesOfVariables DEF TimerInv, InTime
<1> HIDE DEF timer
<1>3. PICK time \in Nat : /\ time = 0 \/ State.trigger[timer] < time
                          /\ Set(State, computed, timer, time)
  BY <1>1, <1>2, Triggered
<1> HIDE DEF computed
<1>4. Sound(computed) /\ Undisturbed(State, computed) /\ computed.trigger = [trigger EXCEPT ![timer] = time]
  BY <1>2, <1>3 DEF Set
<1>5. \A t \in Timers : computed.trigger[t] = IF t = timer THEN time ELSE trigger[t]
  BY <1>1, <1>2, <1>4
<1>6. NotEarly(computed, earliestAllowed)
  <2> SUFFICES ASSUME NEW t \in Timers, computed.trigger[t] # 0
               PROVE  earliestAllowed[t] <= computed.trigger[t]
    BY DEF NotEarly
  <2>1. trigger[t] # 0 /\ trigger[t] <= computed.trigger[t]
    BY <1>1, <1>2, <1>3, <1>5
  <2>2. earliestAllowed[t] <= trigger[t]
    BY <2>1, <1>2 DEF NotEarly
  <2>3. earliestAllowed[t] \in Nat /\ trigger[t] \in Nat /\ computed.trigger[t] \in Nat
    BY <1>2, <1>5
  <2> QED
    BY <2>1, <2>2, <2>3
<1>7. NotBefore(computed, trigger[timer])
  BY <1>1, <1>2, <1>3, <1>5 DEF NotBefore
<1> QED
  BY <1>4, <1>5, <1>6, <1>7 DEF computed, timer

LEMMA ProgressedInv ==
    ASSUME TimerInv, Progressed
    PROVE  TimerInv'
<1> DEFINE timer == scheduledTimers[Picked]
           computed == ComputeNextTriggerTime(State, timer)
<1>1. /\ event = "progressing" /\ Due # {}
      /\ \/ Becomes(computed) /\ UNCHANGED earliestAllowed
         \/ \E request \in Requests :
                Becomes(Requested(computed, request)) /\ earliestAllowed' = Allowed(computed, request)
      /\ event' \in {"progressing", "progressed"}
      /\ last' = trigger[timer]
  BY DEF Progressed, Picked
<1>2. /\ Sound(computed) /\ Undisturbed(State, computed)
      /\ NotEarly(computed, earliestAllowed) /\ NotBefore(computed, trigger[timer])
  BY <1>1, PickedTriggers
<1>3. trigger[timer] \in Nat /\ trigger[timer] <= ticks.systemTime
  <2>1. trigger \in [Timers -> Nat]
    BY TypesOfVariables DEF TimerInv
  <2> QED
    BY <2>1, <1>1, PickedIsFirst
<1>4. earliestAllowed \in [Timers -> Nat]
  BY DEF TimerInv, InTime
<1> HIDE DEF timer, computed
<1>5. PICK r : /\ Becomes(r) /\ Sound(r) /\ Undisturbed(State, r)
               /\ NotBefore(r, trigger[timer])
               /\ earliestAllowed' \in [Timers -> Nat] /\ NotEarly(r, earliestAllowed')
  <2>1. CASE Becomes(computed) /\ UNCHANGED earliestAllowed
    BY <2>1, <1>2, <1>4
  <2>2. ASSUME NEW request \in Requests,
               Becomes(Requested(computed, request)), earliestAllowed' = Allowed(computed, request)
        PROVE  \E r : /\ Becomes(r) /\ Sound(r) /\ Undisturbed(State, r)
                      /\ NotBefore(r, trigger[timer])
                      /\ earliestAllowed' \in [Timers -> Nat] /\ NotEarly(r, earliestAllowed')
    <3> DEFINE r == Requested(computed, request)
    <3>1. Done(computed, r, request)
      BY <1>2, <1>4, RequestDone
    <3>2. Becomes(r)
      BY <2>2
    <3> HIDE DEF r
    <3>3. computed.ticks.systemTime = ticks.systemTime
      BY <1>2, StateIs DEF Undisturbed
    <3>4. Sound(r) /\ NotBefore(r, trigger[timer])
      BY <3>1, <3>3, <1>2, <1>3 DEF Done
    <3>5. Undisturbed(State, r)
      BY <3>1, <1>2 DEF Done, Undisturbed
    <3>6. earliestAllowed' \in [Timers -> Nat] /\ NotEarly(r, earliestAllowed')
      BY <2>2, <3>1 DEF Done
    <3> QED
      BY <3>2, <3>4, <3>5, <3>6
  <2> QED
    BY <1>1, <2>1, <2>2
<1>6. r \in States
  BY <1>5 DEF Sound
<1>7. State' = r /\ service' = r.service /\ ticks' = r.ticks
  BY <1>5, <1>6, StateBecomes DEF Becomes
<1>8. Phases'
  BY <1>1, <1>5, <1>7, StateIs DEF TimerInv, Phases, Undisturbed
<1>9. UpToDate'
  BY <1>8, <1>1 DEF Phases, UpToDate
<1>10. InOrder'
  BY <1>1, <1>3, <1>5, <1>7 DEF InOrder
<1>11. InTime'
  BY <1>5, <1>7 DEF InTime
<1>12. Sound(State)'
  BY <1>5, <1>7
<1> QED
  BY <1>8, <1>9, <1>10, <1>11, <1>12 DEF TimerInv

LEMMA InvInductive ==
    TimerInv /\ [Next]_vars => TimerInv'
<1> SUFFICES ASSUME TimerInv, [Next]_vars
             PROVE  TimerInv'
  OBVIOUS
<1>1. CASE OtherEvent
  BY <1>1, OtherEventInv
<1>2. CASE SystemTickInterrupt
  BY <1>2, SystemTickInterruptInv
<1>3. CASE TimeProgressed
  BY <1>3, TimeProgressedInv
<1>4. CASE Progressed
  BY <1>4, ProgressedInv
<1>5. CASE EndOfProgress
  BY <1>5, EndOfProgressInv
<1>6. CASE Reschedule
  BY <1>6, RescheduleInv
<1>7. CASE UNCHANGED vars
  <2>1. State' = State
    BY <1>7 DEF vars, State
  <2> QED
    BY <1>7, <2>1 DEF vars, TimerInv, Phases, UpToDate, InOrder, InTime
<1> QED
  BY <1>1, <1>2, <1>3, <1>4, <1>5, <1>6, <1>7 DEF Next

LEMMA TimerInvAlways ==
    Spec => []TimerInv
BY InitInv, InvInductive, PTL DEF Spec

-----------------------------------------------------------------------------
(* The theorems.                                                            *)

\* The invariant gives the earliest trigger as the code computes it.
LEMMA InvNextTrigger ==
    TimerInv => NextTriggerIsEarliest
<1> SUFFICES ASSUME TimerInv, event \in {"none", "queued"}
             PROVE  service.nextTrigger = EarliestTrigger(scheduledTimers, trigger) /\ service.holdUpdate = FALSE
  BY DEF NextTriggerIsEarliest
<1>1. Sound(State) /\ State \in States /\ service \in Services
  BY TypesOfVariables DEF TimerInv
<1>2. service.holdUpdate = FALSE
  BY <1>1 DEF TimerInv, Phases, Services
<1>3. service.updateNeeded = FALSE /\ service.nextTrigger \in Nat
  BY <1>1, <1>2 DEF TimerInv, UpToDate, Services
<1>4. IsEarliest(service.nextTrigger, State)
  BY <1>1, <1>3, StateIs DEF Sound
<1> QED
  BY <1>1, <1>2, <1>3, <1>4, EarliestIsMin, StateIs

\* Whatever timers and their actions start, cancel and restart, also while ComputeNextTrigger
\* is held by Progressed, nextTrigger is the time of the earliest timer whenever
\* other code runs.
THEOREM NextTriggerStaysEarliest ==
    Spec => []NextTriggerIsEarliest
BY TimerInvAlways, InvNextTrigger, PTL

LEMMA NoTickPasses ==
    ASSUME TimerInv, SystemTickInterrupt, event = "none",
           EarliestTrigger(scheduledTimers, trigger) <= Now(ticks')
    PROVE  event' = "queued"
<1> DEFINE k == [ticks EXCEPT !.progressed = @ + 1]
           notify == k.progressed >= k.nextNotification /\ ~k.notificationScheduled
           n == ticks.progressed + 1
<1>1. /\ ticks' = IF notify THEN [k EXCEPT !.notificationScheduled = TRUE] ELSE k
      /\ event' = IF notify THEN "queued" ELSE event
      /\ Now(ticks) + Resolution <= MaxTime
  BY DEF SystemTickInterrupt
<1>2. ticks \in Counters /\ service \in Services /\ State \in States
  BY TypesOfVariables DEF TimerInv
<1>3. /\ ticks.progressed \in Nat /\ ticks.systemTime \in Nat /\ ticks.nextNotification \in Nat
      /\ ticks.notificationScheduled = FALSE /\ service.nextTrigger \in Nat
  BY <1>2 DEF TimerInv, Phases, Counters, Services
<1>4. /\ k.progressed = n /\ k.nextNotification = ticks.nextNotification
      /\ k.notificationScheduled = FALSE /\ k.systemTime = ticks.systemTime
      /\ ticks'.systemTime = ticks.systemTime /\ ticks'.progressed = n
  BY <1>1, <1>2, <1>3 DEF Counters
<1> HIDE DEF k
<1>5. n * Resolution = ticks.progressed * Resolution + Resolution
  BY <1>3, Constants
<1>6. ticks.progressed * Resolution \in Nat
  BY <1>3, Constants
<1>7. Now(ticks') = ticks.systemTime + n * Resolution /\ Now(ticks') < Never
  BY <1>1, <1>3, <1>4, <1>5, <1>6, Constants DEF Now
<1>8. service.nextTrigger = EarliestTrigger(scheduledTimers, trigger)
  BY InvNextTrigger DEF NextTriggerIsEarliest
<1>9. service.nextTrigger # Never /\ service.nextTrigger <= ticks.systemTime + n * Resolution
  <2>1. ticks.systemTime + n * Resolution \in Nat
    BY <1>3, <1>5, <1>6, Constants
  <2> QED
    BY <2>1, <1>3, <1>7, <1>8, Constants
<1>10. Notified(State)
  BY <1>2 DEF TimerInv, UpToDate, Phases, Services
<1>11. n \in Nat /\ ticks.nextNotification <= n
  BY <1>3, <1>9, <1>10, StateIs DEF Notified
<1>12. notify
  BY <1>4, <1>11, <1>3
<1> QED
  BY <1>1, <1>12

\* SystemTickInterrupt schedules ProcessTicks at the tick at which a timer is due, for any
\* width of the counters and any durations, wherever in ProcessTicks the interrupts before
\* it fell.
THEOREM TicksPassNoTimer ==
    Spec => NoTickPassesATimer
<1>1. TimerInv /\ [Next]_vars =>
          [SystemTickInterrupt /\ event = "none" /\ EarliestTrigger(scheduledTimers, trigger) <= Now(ticks')
              => event' = "queued"]_vars
  BY NoTickPasses
<1> QED
  BY <1>1, TimerInvAlways, PTL DEF Spec, NoTickPassesATimer

LEMMA RoundInOrder ==
    ASSUME TimerInv, Progressed
    PROVE  /\ event = "progressing" => last <= last'
           /\ \A t \in Timers : last' = trigger[t] /\ trigger'[t] # trigger[t]
                                    => earliestAllowed[t] <= ticks.systemTime
<1> DEFINE timer == scheduledTimers[Picked]
<1>1. event = "progressing" /\ Due # {} /\ last' = trigger[timer]
  BY DEF Progressed, Picked
<1>2. timer \in Timers /\ trigger[timer] # 0 /\ trigger[timer] <= ticks.systemTime
  BY <1>1, PickedIsFirst
<1>3. NotBefore(State, last) /\ State.trigger = trigger
  BY <1>1, StateIs DEF TimerInv, InOrder
<1> HIDE DEF timer
<1>4. last <= last'
  BY <1>1, <1>2, <1>3 DEF NotBefore
<1>5. ASSUME NEW t \in Timers, last' = trigger[t]
      PROVE  earliestAllowed[t] <= ticks.systemTime
  <2>1. trigger[t] # 0 /\ trigger[t] <= ticks.systemTime
    BY <1>1, <1>2, <1>5
  <2>2. earliestAllowed[t] <= trigger[t]
    BY <2>1, <1>3 DEF TimerInv, InTime, NotEarly
  <2>3. earliestAllowed[t] \in Nat /\ trigger[t] \in Nat /\ ticks.systemTime \in Nat
    BY TypesOfVariables DEF TimerInv, InTime, Counters
  <2> QED
    BY <2>1, <2>2, <2>3
<1> QED
  BY <1>4, <1>5

\* Progressed executes the actions of one event in the order of their trigger times, and
\* none before the duration its timer was started for has passed, also when actions start,
\* restart and cancel timers while the list is worked off.
THEOREM TimersTriggerInOrder ==
    Spec => TriggersInOrder
<1>1. TimerInv /\ [Next]_vars =>
          [Progressed =>
              /\ event = "progressing" => last <= last'
              /\ \A t \in Timers : last' = trigger[t] /\ trigger'[t] # trigger[t]
                                       => earliestAllowed[t] <= ticks.systemTime]_vars
  BY RoundInOrder
<1> QED
  BY <1>1, TimerInvAlways, PTL DEF Spec, TriggersInOrder
=============================================================================
