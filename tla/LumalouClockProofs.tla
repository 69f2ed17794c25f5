-------------------------- MODULE LumalouClockProofs --------------------------
(***************************************************************************)
(* What LumalouClock promises, for any length of hour, day and week, any   *)
(* limits and any passage of time: types, every power loss within the      *)
(* window is seen, and DST and drift are never taken for one.              *)
(***************************************************************************)
EXTENDS LumalouClock, TLAPS

(***************************************************************************)
(* Arithmetic: remainders, week times and the distance of two clocks.      *)
(***************************************************************************)
LEMMA Remainder ==
    ASSUME NEW a \in Int, NEW n \in Nat \ {0}
    PROVE  a % n \in 0..n - 1
OBVIOUS

LEMMA Quotient ==
    ASSUME NEW a \in Int, NEW n \in Nat \ {0}
    PROVE  \E q \in Int : a % n = a - q * n
<1>1. a = ((a \div n) * n) + (a % n) /\ a \div n \in Int
  OBVIOUS
<1>2. a % n = a - (a \div n) * n
  BY <1>1, Remainder
<1> QED
  BY <1>1, <1>2

LEMMA Multiple ==
    ASSUME NEW k \in Int, NEW n \in Nat, k >= 1
    PROVE  k * n >= n
OBVIOUS

\* A number has one remainder.
LEMMA RemainderIs ==
    ASSUME NEW a \in Int, NEW n \in Nat \ {0}, NEW q \in Int, NEW r \in 0..n - 1,
           a = q * n + r
    PROVE  a % n = r
<1>1. PICK p \in Int : a % n = a - p * n
  BY Quotient
<1> DEFINE s == a % n
<1>2. s \in 0..n - 1 /\ a = p * n + s
  BY <1>1, Remainder
<1> HIDE DEF s
<1>3. (p - q) * n = r - s
  BY <1>2
<1>4. (q - p) * n = s - r
  BY <1>2
<1>5. ~(p - q >= 1)
  BY <1>2, <1>3, Multiple
<1>6. ~(q - p >= 1)
  BY <1>2, <1>4, Multiple
<1>7. p = q
  BY <1>5, <1>6
<1>8. r = s
  BY <1>2, <1>7
<1> QED
  BY <1>8 DEF s

\* Limits are numbers; a week is a positive number of hours and longer than a
\* day.
LEMMA WeekFacts ==
    /\ Week \in Nat \ {0} /\ Day \in Nat \ {0} /\ Day <= Week
    /\ Hour \in Nat \ {0}
    /\ \E h \in Nat \ {0} : Week = h * Hour
<1>1. DayHours * Hour \in Nat \ {0}
  BY ClockAssumption
<1>2. WeekDays \in Nat \ {0} /\ DayHours \in Nat \ {0} /\ Hour \in Nat \ {0}
  BY ClockAssumption
<1>3. WeekDays * Day >= Day
  BY <1>1, <1>2, Multiple DEF Day
<1>4. WeekDays * DayHours \in Nat \ {0}
  BY <1>2
<1>5. WeekDays * (DayHours * Hour) = (WeekDays * DayHours) * Hour
  BY <1>2
<1> QED
  BY <1>1, <1>2, <1>3, <1>4, <1>5 DEF Day, Week

\* A clock ahead by f and whole hours is within f of whole hours on the circle.
LEMMA NearWholeHours ==
    ASSUME NEW o \in Nat, NEW f \in Nat, NEW j \in Int,
           o = f + j * Hour \/ o = j * Hour - f
    PROVE  Smaller(o % Hour, Hour - (o % Hour)) <= f
<1>1. Hour \in Nat \ {0}
  BY WeekFacts
<1>2. o % Hour \in 0..Hour - 1
  BY <1>1, Remainder
<1>3. CASE f >= Hour
  BY <1>1, <1>2, <1>3 DEF Smaller
<1>4. CASE f < Hour /\ o = f + j * Hour
  <2>1. o % Hour = f
    BY <1>1, <1>4, RemainderIs
  <2> QED
    BY <1>1, <2>1 DEF Smaller
<1>5. CASE f = 0
  <2>1. o = j * Hour + 0
    BY <1>1, <1>5
  <2>2. o % Hour = 0
    BY <1>1, <2>1, RemainderIs
  <2> QED
    BY <1>1, <1>5, <2>2 DEF Smaller
<1>6. CASE f # 0 /\ f < Hour /\ o = j * Hour - f
  <2>1. o = (j - 1) * Hour + (Hour - f)
    BY <1>1, <1>6
  <2>2. Hour - f \in 0..Hour - 1 /\ j - 1 \in Int /\ o \in Int
    BY <1>1, <1>6
  <2>3. o % Hour = Hour - f
    BY <1>1, <2>1, <2>2, RemainderIs
  <2> QED
    BY <1>1, <1>6, <2>3 DEF Smaller
<1> QED
  BY <1>1, <1>3, <1>4, <1>5, <1>6

\* clock_offset_seconds is a distance: its value, near whole hours and near
\* whole weeks.
LEMMA OffsetRange ==
    ASSUME NEW a \in Int, NEW b \in Int
    PROVE  ClockOffset(a, b) \in Nat
<1>1. Week \in Nat \ {0} /\ (a - b) % Week \in 0..Week - 1
  BY WeekFacts, Remainder
<1> QED
  BY <1>1 DEF ClockOffset, Smaller

LEMMA OffsetOfHours ==
    ASSUME NEW a \in Int, NEW b \in Int, NEW f \in Nat, NEW k \in Int,
           a - b = f + k * Hour, f <= HourTolerance
    PROVE  WholeHours(ClockOffset(a, b))
<1> DEFINE m == (a - b) % Week
<1>1. Week \in Nat \ {0} /\ Hour \in Nat \ {0}
  BY WeekFacts
<1>2. PICK h \in Nat \ {0} : Week = h * Hour
  BY WeekFacts
<1>3. PICK q \in Int : m = (a - b) - q * Week
  <2>1. a - b \in Int
    OBVIOUS
  <2> QED
    BY <1>1, <2>1, Quotient
<1>4. m \in 0..Week - 1
  BY <1>1, Remainder
<1> HIDE DEF m
<1>5. q * Week = (q * h) * Hour /\ q * h \in Int
  BY <1>1, <1>2
<1>6. m = f + (k - q * h) * Hour
  BY <1>1, <1>3, <1>5
<1>7. Week - m = (h - k + q * h) * Hour - f
  BY <1>1, <1>2, <1>6, <1>5
<1>8. k - q * h \in Int /\ h - k + q * h \in Int
      /\ m \in Nat /\ Week - m \in Nat
  BY <1>1, <1>4, <1>5
<1>9. Smaller(m % Hour, Hour - (m % Hour)) <= f
  BY <1>6, <1>8, NearWholeHours
<1>10. Smaller((Week - m) % Hour, Hour - ((Week - m) % Hour)) <= f
  BY <1>7, <1>8, NearWholeHours
<1>11. ClockOffset(a, b) = m \/ ClockOffset(a, b) = Week - m
  BY DEF ClockOffset, Smaller, m
<1>12. m % Hour \in 0..Hour - 1 /\ (Week - m) % Hour \in 0..Hour - 1
  BY <1>1, <1>4, Remainder
<1>13. HourTolerance \in Nat
  BY ClockAssumption
<1> QED
  BY <1>1, <1>9, <1>10, <1>11, <1>12, <1>13 DEF WholeHours, Smaller

LEMMA OffsetOfWeeks ==
    ASSUME NEW a \in Int, NEW b \in Int, NEW f \in Nat, NEW w \in Int,
           a - b = f + w * Week
    PROVE  ClockOffset(a, b) <= f
<1>1. Week \in Nat \ {0} /\ (a - b) % Week \in 0..Week - 1
  BY WeekFacts, Remainder
<1>2. CASE f >= Week
  BY <1>1, <1>2 DEF ClockOffset, Smaller
<1>3. CASE f < Week
  <2>1. (a - b) % Week = f
    BY <1>1, <1>3, RemainderIs
  <2> QED
    BY <1>1, <2>1 DEF ClockOffset, Smaller
<1> QED
  BY <1>1, <1>2, <1>3

-----------------------------------------------------------------------------
(* The inductive invariant.                                                *)

\* Since power came back the clock has run from its restart, and a session
\* that could set it has judged it first.
Restarting ==
    /\ sinceOn # None => powered /\ session # "live"
    /\ ~powered => session # "live"
    /\ sinceOn # None /\ sinceOn + drift <= WindowMax =>
          clock - PowerLossClock \in (-Early)..(sinceOn + drift)

\* A clock that never restarted is ahead of the local time by its drift and
\* whole hours, or whole weeks when the local time never changed.
Ahead(unit) ==
    \E f \in 0..drift, k \in Int : clock - local = f + k * unit
Aligned ==
    /\ powered /\ ~restarted => Ahead(Hour)
    /\ powered /\ ~restarted /\ ~shifted => Ahead(Week)

ClockInv == TypeOK /\ Restarting /\ Aligned

\* A power-loss clock is a week time.
LEMMA RestartTimes ==
    /\ PowerLossClock \in 0..Week - 1 /\ PowerLossClock - Early \in 0..Week - 1
    /\ PowerLossClock + WindowMax < Week
    /\ Early \in Nat /\ WindowMax \in Nat /\ PowerLossClock \in Nat
BY WeekFacts, ClockAssumption

\* Setting the clock puts it right on the local time.
LEMMA SetAligned ==
    ASSUME NEW x \in Int, NEW n \in Nat
    PROVE  x - x = 0 + 0 * n /\ 0 \in 0..n
OBVIOUS

\* The bounds of the instance are numbers, and time passes forwards.
LEMMA BoundsAreNumbers ==
    /\ MaxPauses \in Nat /\ MaxZones \in Nat /\ MaxDrift \in Nat
    /\ MaxOutages \in Nat /\ Pauses \subseteq Nat /\ None \notin Nat
    /\ Starts \subseteq 0..Week - 1
BY ClockAssumption

LEMMA ClockInit == Init => ClockInv
<1> SUFFICES ASSUME Init PROVE ClockInv
  OBVIOUS
<1> USE DEF Init
<1>1. TypeOK
  <2>1. local \in 0..Week - 1 /\ clock \in 0..Week - 1
    BY BoundsAreNumbers
  <2>2. unseen \in Ages /\ captured \in Ages /\ synced \in Ages
        /\ sinceOn \in Ages
    BY DEF Ages
  <2>3. pauses \in 0..MaxPauses /\ zones \in 0..MaxZones
        /\ drift \in 0..MaxDrift /\ outages \in 0..MaxOutages
    BY BoundsAreNumbers
  <2> QED
    BY <2>1, <2>2, <2>3 DEF TypeOK
<1>2. Restarting
  BY DEF Restarting
<1>3. local \in Int /\ drift = 0 /\ clock = local
  BY <1>1 DEF TypeOK
<1>4. clock - local = 0 + 0 * Hour /\ clock - local = 0 + 0 * Week
  BY <1>3, WeekFacts
<1>5. 0 \in 0..drift /\ 0 \in Int
  BY <1>3
<1>6. Aligned
  BY <1>4, <1>5 DEF Aligned, Ahead
<1> QED
  BY <1>1, <1>2, <1>6 DEF ClockInv

\* What an attempt to correct the clock leaves.
SyncResult ==
    /\ paused \in BOOLEAN /\ synced \in Ages /\ clock \in 0..Week - 1
    /\ restarted \in BOOLEAN /\ shifted \in BOOLEAN
    /\ session \in {"none", "live"}

LEMMA SyncTypes ==
    ASSUME TypeOK, NEW automatic \in BOOLEAN, Sync(automatic)
    PROVE  SyncResult'
<1> USE DEF TypeOK, SyncResult, Ages
<1>1. CASE Keep
  BY <1>1 DEF Keep, sync
<1>2. CASE Set /\ synced' = 0 /\ paused' = FALSE
  BY <1>2 DEF Set
<1>3. CASE /\ session' = "none" /\ paused' = (paused \/ automatic)
           /\ UNCHANGED <<clock, synced, restarted, shifted>>
  BY <1>3
<1> QED
  BY <1>1, <1>2, <1>3 DEF Sync

LEMMA TypesStep == ClockInv /\ [Next]_vars => TypeOK'
<1> SUFFICES ASSUME ClockInv, [Next]_vars PROVE TypeOK'
  OBVIOUS
<1> USE BoundsAreNumbers DEF ClockInv, TypeOK, Ages
<1>0. Week \in Nat \ {0} /\ Hour \in Nat \ {0}
  BY WeekFacts
<1>1. CASE Open
  BY <1>1 DEF Open, device, sync, history, bounds
<1>2. CASE Frame
  BY <1>2 DEF Frame, device, sync, history, bounds
<1>3. CASE Judge
  <2>1. ShowsReset \in BOOLEAN
    BY DEF ShowsReset
  <2>2. CASE Keep
    BY <1>3, <2>1, <2>2 DEF Judge, Keep, sync, bounds
  <2>3. ASSUME NEW automatic \in BOOLEAN, Sync(automatic) PROVE TypeOK'
    <3>1. SyncResult'
      BY <2>3, SyncTypes DEF SyncResult
    <3> QED
      BY <1>3, <2>1, <3>1 DEF Judge, SyncResult, bounds
  <2> QED
    BY <1>3, <2>2, <2>3 DEF Judge
<1>4. CASE PushedClock
  <2>1. SyncResult'
    BY <1>4, SyncTypes DEF PushedClock
  <2> QED
    BY <1>4, <2>1 DEF PushedClock, SyncResult, bounds
<1>5. CASE SyncButton
  BY <1>5 DEF SyncButton, Set, heard, bounds
<1>6. CASE SessionEnds
  BY <1>6 DEF SessionEnds, device, heard, sync, history, bounds
<1>7. CASE Restart
  BY <1>7 DEF Restart, Forgets, device, history, bounds
<1>8. CASE PauseEnds
  BY <1>8 DEF PauseEnds, device, heard, history, bounds
<1>9. ASSUME NEW d \in Pauses, NEW fast \in {0, 1}, Elapse(d, fast)
      PROVE  TypeOK'
  <2>1. d \in Nat /\ local + d \in Int /\ clock + d + fast \in Int
    OBVIOUS
  <2>2. (local + d) % Week \in 0..Week - 1
        /\ (clock + d + fast) % Week \in 0..Week - 1
    BY <1>0, <2>1, Remainder
  <2>3. local' \in 0..Week - 1 /\ clock' \in 0..Week - 1
    BY <1>9, <2>2 DEF Elapse
  <2>4. /\ unseen' \in Ages /\ captured' \in Ages /\ synced' \in Ages
        /\ sinceOn' \in Ages
        /\ captured' # None => unseen' # None /\ unseen' <= captured'
    BY <1>9, <2>1 DEF Elapse, Later
  <2>5. pauses' \in 0..MaxPauses /\ drift' \in 0..MaxDrift
    BY <1>9 DEF Elapse
  <2> QED
    BY <1>9, <2>3, <2>4, <2>5 DEF Elapse
<1>10. CASE ZoneChange
  <2>1. \A d \in {Hour, -Hour} : (local + d) % Week \in 0..Week - 1
    BY <1>0, Remainder
  <2> QED
    BY <1>10, <2>1 DEF ZoneChange, device, heard, sync
<1>11. CASE PowerOff
  <2>1. outages' \in 0..MaxOutages
    BY <1>11 DEF PowerOff
  <2>2. UNCHANGED <<local, clock, unseen, captured, synced, paused, verdict,
                    restarted, shifted, pauses, zones, drift>>
    BY <1>11 DEF PowerOff, heard, sync
  <2> QED
    BY <1>11, <2>1, <2>2 DEF PowerOff
<1>12. CASE PowerOn
  BY <1>12, RestartTimes DEF PowerOn, heard, sync, bounds
<1>13. CASE UNCHANGED vars
  BY <1>13 DEF vars, device, heard, sync, history, bounds
<1> QED
  BY <1>1, <1>2, <1>3, <1>4, <1>5, <1>6, <1>7, <1>8, <1>9, <1>10, <1>11,
     <1>12, <1>13 DEF Next

LEMMA RestartingStep == ClockInv /\ [Next]_vars => Restarting'
<1> SUFFICES ASSUME ClockInv, [Next]_vars PROVE Restarting'
  OBVIOUS
<1> USE BoundsAreNumbers DEF ClockInv, Restarting
<1>0. sinceOn \in Nat \cup {None} /\ drift \in Nat /\ clock \in 0..Week - 1
  BY DEF TypeOK, Ages
<1>1. CASE Open
  BY <1>1 DEF Open, device, history, bounds
<1>2. CASE Frame
  BY <1>2 DEF Frame, device, history, bounds
<1>3. CASE Judge
  BY <1>3 DEF Judge
<1>4. CASE PushedClock
  BY <1>4 DEF PushedClock
<1>5. CASE SyncButton
  BY <1>5 DEF SyncButton
<1>6. CASE SessionEnds
  BY <1>6 DEF SessionEnds, device, history, bounds
<1>7. CASE Restart
  BY <1>7 DEF Restart, device, history, bounds
<1>8. CASE PauseEnds
  BY <1>8 DEF PauseEnds, device, history, bounds
<1>9. ASSUME NEW d \in Pauses, NEW fast \in {0, 1}, Elapse(d, fast)
      PROVE  Restarting'
  <2>1. CASE sinceOn = None \/ ~powered
    BY <1>9, <2>1 DEF Elapse, Later
  <2>2. CASE sinceOn # None /\ powered
    <3>1. /\ sinceOn' = sinceOn + d /\ drift' = drift + fast
          /\ clock' = (clock + d + fast) % Week
          /\ powered' = powered /\ session' = session
      BY <1>9, <2>2 DEF Elapse, Later
    <3>2. d \in Nat
      OBVIOUS
    <3>3. CASE sinceOn + d + drift + fast <= WindowMax
      <4>1. clock - PowerLossClock \in (-Early)..(sinceOn + drift)
        BY <1>0, <2>2, <3>2, <3>3, RestartTimes
      <4>2. clock + d + fast \in 0..Week - 1
        BY <1>0, <2>2, <3>2, <3>3, <4>1, RestartTimes, WeekFacts
      <4>3. clock + d + fast = 0 * Week + (clock + d + fast)
        BY <4>2, WeekFacts
      <4>4. (clock + d + fast) % Week = clock + d + fast
        BY <4>2, <4>3, WeekFacts, RemainderIs
      <4> QED
        BY <1>0, <2>2, <3>1, <3>2, <4>1, <4>4, RestartTimes
    <3> QED
      BY <1>0, <2>2, <3>1, <3>2, <3>3
  <2> QED
    BY <2>1, <2>2
<1>10. CASE ZoneChange
  BY <1>10 DEF ZoneChange, device
<1>11. CASE PowerOff
  BY <1>11 DEF PowerOff
<1>12. CASE PowerOn
  BY <1>0, <1>12, RestartTimes DEF PowerOn, bounds
<1>13. CASE UNCHANGED vars
  BY <1>13 DEF vars, device, history, bounds
<1> QED
  BY <1>1, <1>2, <1>3, <1>4, <1>5, <1>6, <1>7, <1>8, <1>9, <1>10, <1>11,
     <1>12, <1>13 DEF Next

\* What passes, or changes, is the same for both clocks up to whole units.
Multiples(x, unit) == \E j \in Int : x = j * unit

LEMMA AheadLater ==
    ASSUME ClockInv, NEW unit \in Nat, Multiples(Week, unit),
           NEW d \in Int, NEW e \in Int, NEW fast \in {0, 1},
           Ahead(unit), drift' = drift + fast,
           local' = (local + d) % Week, Multiples(e - d, unit),
           \/ clock' = (clock + e + fast) % Week
           \/ clock' = clock /\ e = 0 /\ fast = 0
    PROVE  \E f \in 0..drift', k \in Int : clock' - local' = f + k * unit
<1>h. PICK h \in Int, j \in Int : Week = h * unit /\ e - d = j * unit
  BY DEF Multiples
<1>1. local \in Int /\ clock \in Int /\ drift \in Nat /\ Week \in Nat \ {0}
  BY WeekFacts, BoundsAreNumbers DEF ClockInv, TypeOK
<1>2. PICK f \in 0..drift, k \in Int : clock - local = f + k * unit
  BY DEF Ahead
<1>3. local + d \in Int /\ clock + e + fast \in Int
  BY <1>1
<1>4. PICK p \in Int : local' = (local + d) - p * Week
  BY <1>1, <1>3, Quotient
<1>5. PICK q \in Int : clock' = (clock + e + fast) - q * Week
  <2>1. CASE clock' = (clock + e + fast) % Week
    BY <1>1, <1>3, <2>1, Quotient
  <2>2. CASE clock' = clock /\ e = 0 /\ fast = 0
    <3> WITNESS 0 \in Int
    <3> QED
      BY <1>1, <2>2
  <2> QED
    BY <2>1, <2>2
<1>6. p * Week = (p * h) * unit /\ q * Week = (q * h) * unit
  BY <1>h
<1>7. clock' - local' = (f + fast) + (k + j + p * h - q * h) * unit
  BY <1>h, <1>1, <1>2, <1>4, <1>5, <1>6
<1>8. f + fast \in 0..drift' /\ k + j + p * h - q * h \in Int
  BY <1>1, <1>2
<1> QED
  BY <1>7, <1>8

LEMMA AlignedStep == ClockInv /\ [Next]_vars => Aligned'
<1> SUFFICES ASSUME ClockInv, [Next]_vars PROVE Aligned'
  OBVIOUS
<1>0. /\ local \in Int /\ clock \in Int /\ drift \in Nat
      /\ Hour \in Nat /\ Week \in Nat
      /\ powered /\ ~restarted => Ahead(Hour)
      /\ powered /\ ~restarted /\ ~shifted => Ahead(Week)
  BY WeekFacts, BoundsAreNumbers DEF ClockInv, TypeOK, Aligned
<1>h. Multiples(Week, Hour) /\ Multiples(Week, Week)
  <2>1. Week = 1 * Week /\ 1 \in Int
    BY <1>0
  <2> QED
    BY <2>1, WeekFacts DEF Multiples
<1>z. ASSUME NEW d \in Int, NEW unit \in Nat PROVE Multiples(d - d, unit)
  <2> SUFFICES \E j \in Int : d - d = j * unit
    BY DEF Multiples
  <2> WITNESS 0 \in Int
  <2> QED
    OBVIOUS
\* The clock and the local time stay as they are.
<1>s. ASSUME UNCHANGED <<local, clock, drift>>,
             powered' /\ ~restarted' => powered /\ ~restarted,
             shifted' = shifted
      PROVE  Aligned'
  BY <1>0, <1>s DEF Aligned, Ahead
\* Somebody sets the clock.
<1>t. ASSUME clock' = local, local' = local, drift' = drift
      PROVE  Aligned'
  <2>1. clock' - local' = 0 + 0 * Hour /\ clock' - local' = 0 + 0 * Week
    BY <1>0, <1>t
  <2>2. 0 \in 0..drift' /\ 0 \in Int
    BY <1>0, <1>t
  <2> QED
    BY <2>1, <2>2 DEF Aligned, Ahead
<1>y. ASSUME NEW automatic \in BOOLEAN, Sync(automatic),
             UNCHANGED <<local, powered, drift>>
      PROVE  Aligned'
  BY <1>s, <1>t, <1>y DEF Sync, Keep, Set
<1>1. CASE Open
  BY <1>1, <1>s DEF Open, device, history, bounds
<1>2. CASE Frame
  BY <1>2, <1>s DEF Frame, device, history, bounds
<1>3. CASE Judge
  BY <1>3, <1>s, <1>y DEF Judge, Keep, bounds
<1>4. CASE PushedClock
  BY <1>4, <1>y DEF PushedClock, bounds
<1>5. CASE SyncButton
  BY <1>5, <1>t DEF SyncButton, Set, bounds
<1>6. CASE SessionEnds
  BY <1>6, <1>s DEF SessionEnds, device, history, bounds
<1>7. CASE Restart
  BY <1>7, <1>s DEF Restart, device, history, bounds
<1>8. CASE PauseEnds
  BY <1>8, <1>s DEF PauseEnds, device, history, bounds
<1>9. ASSUME NEW d \in Pauses, NEW fast \in {0, 1}, Elapse(d, fast)
      PROVE  Aligned'
  <2>1. /\ d \in Int /\ local' = (local + d) % Week /\ drift' = drift + fast
        /\ powered => clock' = (clock + d + fast) % Week
        /\ powered' = powered /\ restarted' = restarted /\ shifted' = shifted
    BY <1>9, BoundsAreNumbers DEF Elapse
  <2>2. Multiples(d - d, Hour) /\ Multiples(d - d, Week)
    BY <1>0, <1>z, <2>1
  <2>3. powered' /\ ~restarted' => Ahead(Hour)'
    BY <1>0, <1>h, <2>1, <2>2, AheadLater DEF Ahead
  <2>4. powered' /\ ~restarted' /\ ~shifted' => Ahead(Week)'
    BY <1>0, <1>h, <2>1, <2>2, AheadLater DEF Ahead
  <2> QED
    BY <2>3, <2>4 DEF Aligned
<1>10. CASE ZoneChange
  <2>1. PICK d \in {Hour, -Hour} : local' = (local + d) % Week
    BY <1>10 DEF ZoneChange
  <2>2. /\ drift' = drift + 0 /\ clock' = clock /\ shifted' = TRUE
        /\ powered' = powered /\ restarted' = restarted
    BY <1>0, <1>10 DEF ZoneChange, device
  <2>3. Multiples(0 - d, Hour)
    <3> SUFFICES \E j \in Int : 0 - d = j * Hour
      BY DEF Multiples
    <3>1. CASE d = Hour
      <4> WITNESS -1 \in Int
      <4> QED
        BY <1>0, <3>1
    <3>2. CASE d = -Hour
      <4> WITNESS 1 \in Int
      <4> QED
        BY <1>0, <3>2
    <3> QED
      BY <3>1, <3>2
  <2>4. PICK e \in {0}, fast \in {0} : d \in Int
    BY <1>0
  <2>z. /\ drift' = drift + fast /\ Multiples(e - d, Hour)
        /\ e \in Int /\ fast \in {0, 1} /\ e = 0 /\ fast = 0
    BY <2>2, <2>3
  <2>5. powered' /\ ~restarted' => Ahead(Hour)'
    BY <1>0, <1>h, <2>1, <2>2, <2>z, <2>4, AheadLater DEF Ahead
  <2> QED
    BY <2>2, <2>5 DEF Aligned
<1>11. CASE PowerOff
  BY <1>11 DEF PowerOff, Aligned
<1>12. CASE PowerOn
  BY <1>12 DEF PowerOn, Aligned
<1>13. CASE UNCHANGED vars
  BY <1>13, <1>s DEF vars, device, history, bounds
<1> QED
  BY <1>1, <1>2, <1>3, <1>4, <1>5, <1>6, <1>7, <1>8, <1>9, <1>10, <1>11,
     <1>12, <1>13 DEF Next

LEMMA ClockInductive == Spec => []ClockInv
<1>1. ClockInv /\ [Next]_vars => ClockInv'
  BY TypesStep, RestartingStep, AlignedStep DEF ClockInv
<1> QED
  BY ClockInit, <1>1, PTL DEF Spec

-----------------------------------------------------------------------------
(* The theorems.                                                           *)

\* LumalouClock, TypeOK: times stay week times, and what was heard before a
\* session is never younger than the last frame (clock_offset_seconds,
\* _async_fresh_snapshot).
THEOREM ClockTypes == Spec => []TypeOK
BY ClockInductive, PTL DEF ClockInv

\* Only the end of a read judges a clock.
LEMMA OnlyReadsJudge ==
    ASSUME ClockInv, [Next]_vars, Judged
    PROVE  Judge
<1> USE DEF Judged
<1>1. UNCHANGED verdict => FALSE
  OBVIOUS
<1>2. verdict' = None => FALSE
  OBVIOUS
<1> QED
  BY <1>1, <1>2 DEF Next, Open, Frame, PushedClock, SyncButton, SessionEnds,
     Restart, PauseEnds, Elapse, ZoneChange, PowerOff, PowerOn, vars

\* LumalouClock, PowerLossSeen: every power loss within the window is seen, as
\* long as the device's clock drifts by less than the slack of the window
\* (_async_fresh_snapshot, _is_reset).
THEOREM PowerLossIsSeen ==
    ASSUME MaxDrift <= ResetOffset
    PROVE  Spec => PowerLossSeen
<1>1. ASSUME ClockInv, [Next]_vars, Judged, sinceOn # None, Unheard,
             sinceOn + drift <= WindowMax, Offset > ResetOffset,
             ~WholeHours(Offset) \/ HeardRecently
      PROVE  verdict'
  <2>1. verdict' = ShowsReset
    BY <1>1, OnlyReadsJudge DEF Judge
  <2>2. /\ clock - PowerLossClock \in (-Early)..(sinceOn + drift)
        /\ clock \in Int /\ sinceOn \in Nat /\ drift \in 0..MaxDrift
        /\ captured \in Nat \cup {None}
    BY <1>1, WeekFacts, BoundsAreNumbers
    DEF ClockInv, Restarting, TypeOK, Ages
  <2>3. ResetOffset \in Nat /\ PowerLossClock + WindowMax < Day
    BY ClockAssumption
  <2>4. sinceOn + drift <= Window /\ Window \in Int
    BY <1>1, <2>2, <2>3, RestartTimes, BoundsAreNumbers
    DEF Window, LastHeard, Unheard, Smaller
  <2>5. FactoryClock(clock, Window)
    BY <1>1, <2>2, <2>3, <2>4, RestartTimes, WeekFacts DEF FactoryClock
  <2> QED
    BY <1>1, <2>1, <2>5 DEF ShowsReset
<1> QED
  BY <1>1, ClockInductive, PTL DEF PowerLossSeen, Spec

\* LumalouClock, DstIsNoReset: DST and drift are never taken for a power loss
\* (_is_reset, is_whole_hour_offset).
THEOREM DstNeverResets == Spec => DstIsNoReset
<1>1. ASSUME ClockInv, [Next]_vars, Judged, verdict', drift <= HourTolerance
      PROVE  restarted \/ (shifted /\ HeardRecently)
  <2>1. Judge
    BY <1>1, OnlyReadsJudge
  <2>2. ShowsReset /\ powered
    BY <1>1, <2>1 DEF Judge
  <2>3. SUFFICES ASSUME ~restarted PROVE shifted /\ HeardRecently
    OBVIOUS
  <2>4. /\ clock \in Int /\ local \in Int /\ drift \in Nat
        /\ HourTolerance \in Nat /\ ResetOffset \in Nat
        /\ HourTolerance <= ResetOffset
    BY <1>1, WeekFacts, BoundsAreNumbers, ClockAssumption DEF ClockInv, TypeOK
  <2>5. HeardRecently
    <3>1. PICK f \in 0..drift, k \in Int : clock - local = f + k * Hour
      BY <1>1, <2>2, <2>3 DEF ClockInv, Aligned, Ahead
    <3>2. f \in Nat /\ f <= HourTolerance
      BY <1>1, <2>4
    <3>3. WholeHours(Offset)
      BY <2>4, <3>1, <3>2, OffsetOfHours DEF Offset
    <3> QED
      BY <2>2, <3>3 DEF ShowsReset
  <2>6. shifted
    <3>1. SUFFICES ASSUME ~shifted PROVE FALSE
      OBVIOUS
    <3>2. PICK f \in 0..drift, k \in Int : clock - local = f + k * Week
      BY <1>1, <2>2, <2>3, <3>1 DEF ClockInv, Aligned, Ahead
    <3>3. f \in Nat /\ f <= HourTolerance
      BY <1>1, <2>4
    <3>4. Offset <= f /\ Offset \in Nat
      BY <2>4, <3>2, <3>3, OffsetOfWeeks, OffsetRange DEF Offset
    <3> QED
      BY <2>2, <2>4, <3>3, <3>4 DEF ShowsReset
  <2> QED
    BY <2>5, <2>6
<1> QED
  BY <1>1, ClockInductive, PTL DEF DstIsNoReset, Spec
=============================================================================
