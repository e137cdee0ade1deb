-------------------------- MODULE TestClock_proofs --------------------------
(***************************************************************************)
(* Proofs about the test clock: the types, that no pending timer is        *)
(* overdue, and that Sleep neither returns early nor leaves its timer.     *)
(***************************************************************************)
EXTENDS TestClock, TLAPS

\* A sleep has a one-shot timer, which is unused before the sleep begins.
IdleInv ==
  \A s \in Sleepers :
    /\ interval[s] = 0
    /\ sleep[s] = "idle" => s \notin pending /\ ch[s] = <<>>

\* While it lasts, its timer is not due early and has not fired early.
AsleepInv ==
  \A s \in Sleepers : sleep[s] = "asleep" =>
    /\ s \in pending => due[s] <= when[s]
    /\ ch[s] # <<>> => due[s] <= now

Inv ==
  /\ TypeOK
  /\ NothingOverdue
  /\ IdleInv
  /\ AsleepInv
  /\ SleepNotEarlyNorLeft

-----------------------------------------------------------------------------
(* The arithmetic of a tick.                                               *)

\* Multiplication by a positive number does not make a natural number smaller.
LEMMA Multiple ==
  ASSUME NEW i \in Nat, i > 0, NEW n \in Nat
  PROVE  i * n \in Nat /\ i * n >= n
OBVIOUS

\* The tick advanceUnderLock moves a ticker to is a natural number after t.
LEMMA NextTick ==
  ASSUME NEW w \in Nat, NEW i \in Nat, i > 0, NEW t \in Nat, w <= t
  PROVE  /\ w + i * (((t - w) \div i) + 1) \in Nat
         /\ w + i * (((t - w) \div i) + 1) > t
<1> DEFINE q == (t - w) \div i
<1>1. q \in Nat
  OBVIOUS
<1>2. t - w < i * (q + 1)
  OBVIOUS
<1>3. i * (q + 1) \in Nat
  BY <1>1, Multiple
<1> QED
  BY <1>2, <1>3

-----------------------------------------------------------------------------
(* The invariant is inductive: one lemma for each group of actions.        *)

\* Initially no timer exists.
LEMMA InitInv == Init => Inv
BY ClockAssumption DEF Init, Inv, TypeOK, NothingOverdue, IdleInv, AsleepInv,
   SleepNotEarlyNorLeft, ClockAssumption, Timers

\* A duration that is cut off at zero.
LEMMA NonNegativeNat ==
  ASSUME NEW d \in Int
  PROVE  NonNegative(d) \in Nat /\ NonNegative(d) >= d
BY DEF NonNegative

\* What newTimer does, whoever calls it: the timer k is due d from now, has
\* fired if that is now, and is pending if not; the other timers stay.
LEMMA NewTimerEffect ==
  ASSUME TypeOK, NEW k \in Timers, NEW d \in Int, NEW oneShot \in BOOLEAN,
         NewTimer(k, d, oneShot)
  PROVE  /\ when' \in [Timers -> Nat] /\ interval' \in [Timers -> Nat]
         /\ ch' \in [Timers -> {<<>>} \cup {<<t>> : t \in 0..MaxNow}]
         /\ pending' \subseteq Timers
         /\ driver' \in {"idle", "check", "parking", "waiting", "failed"}
         /\ when'[k] = now + NonNegative(d)
         /\ interval'[k] = IF oneShot THEN 0 ELSE NonNegative(d)
         /\ ch'[k] # <<>> => when'[k] = now
         /\ \A j \in Timers \ {k} : /\ when'[j] = when[j] /\ interval'[j] = interval[j]
                                    /\ ch'[j] = ch[j] /\ (j \in pending' <=> j \in pending)
<1>1. /\ NonNegative(d) \in Nat
      /\ now \in 0..MaxNow /\ now \in Nat
      /\ when \in [Timers -> Nat] /\ interval \in [Timers -> Nat]
      /\ ch \in [Timers -> {<<>>} \cup {<<t>> : t \in 0..MaxNow}]
      /\ pending \subseteq Timers
  <2>1. /\ now \in 0..MaxNow /\ pending \subseteq Timers
        /\ when \in [Timers -> Nat] /\ interval \in [Timers -> Nat]
        /\ ch \in [Timers -> {<<>>} \cup {<<t>> : t \in 0..MaxNow}]
    BY DEF TypeOK
  <2>2. now \in Nat
    BY <2>1, ClockAssumption DEF ClockAssumption
  <2> QED
    BY <2>1, <2>2, NonNegativeNat
<1>2. /\ when' = [when EXCEPT ![k] = now + NonNegative(d)]
      /\ interval' = [interval EXCEPT ![k] = IF oneShot THEN 0 ELSE NonNegative(d)]
  BY DEF NewTimer
<1>3. /\ when' \in [Timers -> Nat] /\ interval' \in [Timers -> Nat]
      /\ when'[k] = now + NonNegative(d)
      /\ interval'[k] = IF oneShot THEN 0 ELSE NonNegative(d)
      /\ \A j \in Timers \ {k} : when'[j] = when[j] /\ interval'[j] = interval[j]
  BY <1>1, <1>2
<1>4. CASE when'[k] = now
  <2>1. ch' = [ch EXCEPT ![k] = <<now>>] /\ pending' = pending /\ driver' = driver
    BY <1>4 DEF NewTimer, Trigger
  <2>2. <<now>> \in {<<>>} \cup {<<t>> : t \in 0..MaxNow}
    BY <1>1
  <2>3. ch' \in [Timers -> {<<>>} \cup {<<t>> : t \in 0..MaxNow}]
    BY <1>1, <2>1, <2>2
  <2>4. driver' \in {"idle", "check", "parking", "waiting", "failed"}
    BY <2>1 DEF TypeOK
  <2> QED
    BY <1>1, <1>3, <1>4, <2>1, <2>3, <2>4
<1>5. CASE when'[k] # now
  <2>1. ch' = [ch EXCEPT ![k] = <<>>] /\ pending' = pending \cup {k} /\ Broadcast
    BY <1>5 DEF NewTimer
  <2>2. driver' \in {"idle", "check", "parking", "waiting", "failed"}
    BY <2>1 DEF Broadcast, TypeOK
  <2> QED
    BY <1>1, <1>3, <1>5, <2>1, <2>2
<1> QED
  BY <1>4, <1>5

\* NewTimer and NewTicker, of a handle.
LEMMA MakeInv ==
  ASSUME Inv, NEW k \in Handles, NEW d \in Durations,
         NEW what \in {"timer", "ticker"}, Make(k, d, what)
  PROVE  Inv'
<1>1. k \in Timers /\ d \in Int /\ (what = "timer") \in BOOLEAN /\ k \notin Sleepers
  BY ClockAssumption DEF ClockAssumption, Timers
<1>2. /\ NewTimer(k, d, what = "timer")
      /\ what = "ticker" => d > 0
      /\ kind' = [kind EXCEPT ![k] = what]
      /\ now' = now /\ sleep' = sleep /\ due' = due /\ expired' = expired
  BY DEF Make
<1>3. TypeOK
  BY DEF Inv
<1> DEFINE one == what = "timer"
<1>4. /\ when' \in [Timers -> Nat] /\ interval' \in [Timers -> Nat]
      /\ ch' \in [Timers -> {<<>>} \cup {<<t>> : t \in 0..MaxNow}]
      /\ pending' \subseteq Timers
      /\ driver' \in {"idle", "check", "parking", "waiting", "failed"}
      /\ when'[k] = now + NonNegative(d)
      /\ interval'[k] = IF one THEN 0 ELSE NonNegative(d)
      /\ \A j \in Timers \ {k} : /\ when'[j] = when[j] /\ interval'[j] = interval[j]
                                 /\ ch'[j] = ch[j] /\ (j \in pending' <=> j \in pending)
  BY <1>1, <1>2, <1>3, NewTimerEffect
<1>5. NonNegative(d) \in Nat /\ NonNegative(d) >= d
  BY <1>1, NonNegativeNat
<1>6. TypeOK'
  <2>1. kind' \in [Handles -> {"none", "lazy", "timer", "ticker"}]
    BY <1>2, <1>3 DEF TypeOK
  <2>2. \A j \in Handles : interval'[j] > 0 <=> kind'[j] = "ticker"
    <3>1. kind'[k] = what /\ \A j \in Handles \ {k} : kind'[j] = kind[j]
      BY <1>2, <1>3 DEF TypeOK
    <3>2. interval'[k] > 0 <=> kind'[k] = "ticker"
      BY <1>2, <1>4, <1>5, <1>1, <3>1
    <3> QED
      BY <1>3, <1>4, <3>1, <3>2 DEF TypeOK, Timers
  <2> QED
    BY <1>2, <1>3, <1>4, <2>1, <2>2 DEF TypeOK
<1>7. NothingOverdue'
  <2>1. now \in Nat /\ when'[k] >= now'
    BY <1>2, <1>3, <1>4, <1>5, ClockAssumption DEF TypeOK, ClockAssumption
  <2>2. \A j \in pending' \ {k} : when'[j] >= now'
    BY <1>2, <1>4 DEF Inv, NothingOverdue
  <2> QED
    BY <2>1, <2>2 DEF NothingOverdue
<1>8. \A s \in Sleepers : /\ interval'[s] = interval[s] /\ when'[s] = when[s]
                          /\ ch'[s] = ch[s] /\ (s \in pending' <=> s \in pending)
  BY <1>1, <1>4 DEF Timers
<1>9. IdleInv' /\ AsleepInv' /\ SleepNotEarlyNorLeft'
  BY <1>2, <1>8 DEF Inv, IdleInv, AsleepInv, SleepNotEarlyNorLeft
<1> QED
  BY <1>6, <1>7, <1>9 DEF Inv

\* A lazy timer has no timer yet.
LEMMA NewLazyTimerInv ==
  ASSUME Inv, NEW k \in Handles, NewLazyTimer(k)
  PROVE  Inv'
<1>1. /\ UNCHANGED <<now, pending, when, interval, ch, sleep, due, driver, expired>>
      /\ kind[k] = "none" /\ kind' = [kind EXCEPT ![k] = "lazy"]
  BY DEF NewLazyTimer, timerVars, driverVars
<1>2. /\ kind' \in [Handles -> {"none", "lazy", "timer", "ticker"}]
      /\ \A j \in Handles : kind'[j] = "ticker" <=> kind[j] = "ticker"
  BY <1>1 DEF Inv, TypeOK
<1>3. TypeOK'
  BY <1>1, <1>2 DEF Inv, TypeOK
<1>4. NothingOverdue' /\ IdleInv' /\ AsleepInv' /\ SleepNotEarlyNorLeft'
  BY <1>1 DEF Inv, NothingOverdue, IdleInv, AsleepInv, SleepNotEarlyNorLeft
<1> QED
  BY <1>3, <1>4 DEF Inv

\* A sleep begins with a new timer.
LEMMA SleepStartInv ==
  ASSUME Inv, NEW s \in Sleepers, NEW d \in Durations, SleepStart(s, d)
  PROVE  Inv'
<1>1. s \in Timers /\ d \in Int /\ s \notin Handles
  BY ClockAssumption DEF ClockAssumption, Timers
<1>2. /\ NewTimer(s, d, TRUE) /\ sleep[s] = "idle"
      /\ sleep' = [sleep EXCEPT ![s] = "asleep"]
      /\ due' = [due EXCEPT ![s] = now + d]
      /\ now' = now /\ kind' = kind /\ expired' = expired
  BY DEF SleepStart
<1>3. TypeOK /\ now \in Nat
  BY ClockAssumption DEF Inv, TypeOK, ClockAssumption
<1>4. /\ when' \in [Timers -> Nat] /\ interval' \in [Timers -> Nat]
      /\ ch' \in [Timers -> {<<>>} \cup {<<t>> : t \in 0..MaxNow}]
      /\ pending' \subseteq Timers
      /\ driver' \in {"idle", "check", "parking", "waiting", "failed"}
      /\ when'[s] = now + NonNegative(d)
      /\ interval'[s] = 0
      /\ ch'[s] # <<>> => when'[s] = now
      /\ \A j \in Timers \ {s} : /\ when'[j] = when[j] /\ interval'[j] = interval[j]
                                 /\ ch'[j] = ch[j] /\ (j \in pending' <=> j \in pending)
  BY <1>1, <1>2, <1>3, NewTimerEffect
<1>5. NonNegative(d) \in Nat /\ NonNegative(d) >= d
  BY <1>1, NonNegativeNat
<1>6. /\ sleep'[s] = "asleep" /\ due'[s] = now + d
      /\ sleep' \in [Sleepers -> {"idle", "asleep", "true", "false"}]
      /\ due' \in [Sleepers -> Int]
      /\ \A r \in Sleepers \ {s} : sleep'[r] = sleep[r] /\ due'[r] = due[r]
  BY <1>1, <1>2, <1>3 DEF TypeOK
<1>7. \A r \in Sleepers \ {s} : /\ interval'[r] = interval[r] /\ when'[r] = when[r]
                                /\ ch'[r] = ch[r] /\ (r \in pending' <=> r \in pending)
  BY <1>4 DEF Timers
<1>8. TypeOK'
  <2>1. \A j \in Handles : interval'[j] = interval[j]
    BY <1>1, <1>4 DEF Timers
  <2> QED
    BY <1>2, <1>3, <1>4, <1>6, <2>1 DEF TypeOK
<1>9. NothingOverdue'
  <2>1. when'[s] >= now'
    BY <1>2, <1>3, <1>4, <1>5
  <2>2. \A j \in pending' \ {s} : when'[j] >= now'
    BY <1>2, <1>4 DEF Inv, NothingOverdue
  <2> QED
    BY <2>1, <2>2 DEF NothingOverdue
<1>10. IdleInv' /\ SleepNotEarlyNorLeft'
  <2>1. interval'[s] = 0 /\ sleep'[s] = "asleep"
    BY <1>4, <1>6
  <2>2. IdleInv'
    BY <1>6, <1>7, <2>1 DEF Inv, IdleInv
  <2>3. SleepNotEarlyNorLeft'
    BY <1>2, <1>6, <1>7, <2>1 DEF Inv, SleepNotEarlyNorLeft
  <2> QED
    BY <2>2, <2>3
<1>11. AsleepInv'
  <2>1. due'[s] <= when'[s]
    BY <1>1, <1>3, <1>4, <1>5, <1>6
  <2>2. ch'[s] # <<>> => due'[s] <= now'
    BY <1>2, <1>4, <2>1
  <2> QED
    BY <1>2, <1>6, <1>7, <2>1, <2>2 DEF Inv, AsleepInv
<1> QED
  BY <1>8, <1>9, <1>10, <1>11 DEF Inv

\* Reset makes a timer pending, due no earlier than now.
LEMMA ResetInv ==
  ASSUME Inv, NEW k \in Handles, NEW d \in Durations, Reset(k, d)
  PROVE  Inv'
<1>1. k \in Timers /\ d \in Int /\ k \notin Sleepers
  BY ClockAssumption DEF ClockAssumption, Timers
<1>2. /\ when' = [when EXCEPT ![k] = now + NonNegative(d)]
      /\ interval' = [interval EXCEPT ![k] = IF @ > 0 THEN NonNegative(d) ELSE 0]
      /\ pending' = pending \cup {k}
      /\ kind[k] = "ticker" => d > 0
      /\ IF k \in pending THEN UNCHANGED driver ELSE Broadcast
      /\ now' = now /\ ch' = ch /\ kind' = kind
      /\ sleep' = sleep /\ due' = due /\ expired' = expired
  BY DEF Reset
<1>3. TypeOK /\ now \in Nat
  BY ClockAssumption DEF Inv, TypeOK, ClockAssumption
<1>4. /\ NonNegative(d) \in Nat /\ NonNegative(d) >= d
  BY <1>1, NonNegativeNat
<1>5. /\ when' \in [Timers -> Nat] /\ interval' \in [Timers -> Nat]
      /\ when'[k] = now + NonNegative(d)
      /\ interval'[k] = IF interval[k] > 0 THEN NonNegative(d) ELSE 0
      /\ \A j \in Timers \ {k} : when'[j] = when[j] /\ interval'[j] = interval[j]
  BY <1>1, <1>2, <1>3, <1>4 DEF TypeOK
<1>6. TypeOK'
  <2>1. driver' \in {"idle", "check", "parking", "waiting", "failed"}
    BY <1>2, <1>3 DEF TypeOK, Broadcast
  <2>2. interval'[k] > 0 <=> kind'[k] = "ticker"
    BY <1>1, <1>2, <1>3, <1>4, <1>5 DEF TypeOK
  <2>3. \A j \in Handles : interval'[j] > 0 <=> kind'[j] = "ticker"
    BY <1>2, <1>3, <1>5, <2>2 DEF TypeOK, Timers
  <2> QED
    BY <1>1, <1>2, <1>3, <1>5, <2>1, <2>3 DEF TypeOK
<1>7. NothingOverdue'
  <2>1. when'[k] >= now'
    BY <1>2, <1>3, <1>4, <1>5
  <2>2. \A j \in pending' \ {k} : when'[j] >= now'
    BY <1>2, <1>3, <1>5 DEF Inv, NothingOverdue, TypeOK
  <2> QED
    BY <2>1, <2>2 DEF NothingOverdue
<1>8. \A s \in Sleepers : /\ interval'[s] = interval[s] /\ when'[s] = when[s]
                          /\ (s \in pending' <=> s \in pending)
  BY <1>1, <1>2, <1>5 DEF Timers
<1>9. IdleInv' /\ AsleepInv' /\ SleepNotEarlyNorLeft'
  BY <1>2, <1>8 DEF Inv, IdleInv, AsleepInv, SleepNotEarlyNorLeft
<1> QED
  BY <1>6, <1>7, <1>9 DEF Inv

\* Stop only takes a timer away.
LEMMA StopInv ==
  ASSUME Inv, NEW k \in Handles, Stop(k)
  PROVE  Inv'
<1>1. /\ pending' = pending \ {k}
      /\ UNCHANGED <<now, when, interval, ch, kind, sleep, due, driver, expired>>
  BY DEF Stop, driverVars
<1>2. TypeOK' /\ NothingOverdue'
  BY <1>1 DEF Inv, TypeOK, NothingOverdue
<1>3. IdleInv' /\ AsleepInv' /\ SleepNotEarlyNorLeft'
  BY <1>1 DEF Inv, IdleInv, AsleepInv, SleepNotEarlyNorLeft
<1> QED
  BY <1>2, <1>3 DEF Inv

\* The owner of a handle empties its channel.
LEMMA RecvInv ==
  ASSUME Inv, NEW k \in Handles, Recv(k)
  PROVE  Inv'
<1>1. /\ ch' = [ch EXCEPT ![k] = <<>>]
      /\ UNCHANGED <<now, pending, when, interval, kind, sleep, due, driver, expired>>
  BY DEF Recv, driverVars
<1>2. \A s \in Sleepers : ch'[s] = ch[s]
  BY <1>1, ClockAssumption DEF Inv, TypeOK, Timers, ClockAssumption
<1>3. ch' \in [Timers -> {<<>>} \cup {<<t>> : t \in 0..MaxNow}]
  BY <1>1 DEF Inv, TypeOK
<1>4. TypeOK' /\ NothingOverdue'
  BY <1>1, <1>3 DEF Inv, TypeOK, NothingOverdue
<1>5. IdleInv' /\ AsleepInv' /\ SleepNotEarlyNorLeft'
  BY <1>1, <1>2 DEF Inv, IdleInv, AsleepInv, SleepNotEarlyNorLeft
<1> QED
  BY <1>4, <1>5 DEF Inv

\* Sleep returns: either its timer has fired, or it stops it.
LEMMA SleepReturnsInv ==
  ASSUME Inv, NEW s \in Sleepers, SleepDone(s) \/ SleepCanceled(s)
  PROVE  Inv'
<1>1. /\ sleep[s] = "asleep" /\ pending' = pending \ {s}
      /\ UNCHANGED <<now, when, interval, kind, due, driver, expired>>
  BY DEF SleepDone, SleepCanceled, driverVars
<1>2. \/ sleep' = [sleep EXCEPT ![s] = "true"] /\ ch[s] # <<>>
      \/ sleep' = [sleep EXCEPT ![s] = "false"]
  BY DEF SleepDone, SleepCanceled
<1>3. ch' = [ch EXCEPT ![s] = <<>>] \/ ch' = ch
  BY DEF SleepDone, SleepCanceled
<1>4. s \in Timers /\ TypeOK
  BY DEF Timers, Inv
<1>5. /\ ch' \in [Timers -> {<<>>} \cup {<<t>> : t \in 0..MaxNow}]
      /\ \A r \in Sleepers \ {s} : ch'[r] = ch[r]
  BY <1>3, <1>4 DEF TypeOK, Timers
<1>6. /\ sleep' \in [Sleepers -> {"idle", "asleep", "true", "false"}]
      /\ (sleep'[s] = "true" /\ ch[s] # <<>>) \/ sleep'[s] = "false"
      /\ \A r \in Sleepers \ {s} : sleep'[r] = sleep[r]
  BY <1>2, <1>4 DEF TypeOK
<1>7. TypeOK' /\ NothingOverdue'
  BY <1>1, <1>4, <1>5, <1>6 DEF Inv, TypeOK, NothingOverdue
<1>8. IdleInv' /\ AsleepInv'
  BY <1>1, <1>5, <1>6 DEF Inv, IdleInv, AsleepInv
<1>9. SleepNotEarlyNorLeft'
  BY <1>1, <1>6 DEF Inv, AsleepInv, SleepNotEarlyNorLeft
<1> QED
  BY <1>7, <1>8, <1>9 DEF Inv

\* Advance fires what is due; what stays pending is due later.
LEMMA AdvanceInv ==
  ASSUME Inv, NEW d \in Steps, Advance(d)
  PROVE  Inv'
<1> DEFINE t == now + d
           next(k) == when[k] + interval[k] * (((t - when[k]) \div interval[k]) + 1)
           ticks(k) == k \in DueBy(t) /\ interval[k] > 0
<1>1. /\ now \in Nat /\ d \in Nat /\ t \in 0..MaxNow /\ t \in Nat /\ now <= t
      /\ TypeOK
  BY ClockAssumption DEF Inv, TypeOK, ClockAssumption, Advance
<1>2. /\ now' = t
      /\ ch' = [k \in Timers |-> IF k \in DueBy(t) THEN Trigger(ch[k], when[k]) ELSE ch[k]]
      /\ pending' = {k \in pending : k \in DueBy(t) => interval[k] > 0}
      /\ when' = [k \in Timers |-> IF ticks(k) THEN next(k) ELSE when[k]]
      /\ UNCHANGED <<interval, kind, sleep, due, driver, expired>>
  BY DEF Advance, AdvanceTo, driverVars
<1>3. \A k \in Timers : when[k] \in Nat /\ interval[k] \in Nat
  BY <1>1 DEF TypeOK
<1>4. \A k : k \in DueBy(t) <=> (k \in pending /\ when[k] <= t)
  BY <1>1, <1>3 DEF DueBy, TypeOK
<1>5. \A k \in Timers : ticks(k) => next(k) \in Nat /\ next(k) > t
  <2>1. SUFFICES ASSUME NEW k \in Timers, ticks(k)
                 PROVE  next(k) \in Nat /\ next(k) > t
    OBVIOUS
  <2>2. when[k] \in Nat /\ interval[k] \in Nat /\ interval[k] > 0 /\ when[k] <= t
    BY <1>3, <1>4, <2>1
  <2> HIDE DEF t, ticks
  <2> QED
    BY <1>1, <2>2, NextTick
<1> HIDE DEF t, next, ticks
<1>6. when' \in [Timers -> Nat]
  BY <1>2, <1>3, <1>5
<1>7. ch' \in [Timers -> {<<>>} \cup {<<u>> : u \in 0..MaxNow}]
  <2>1. SUFFICES ASSUME NEW k \in Timers
                 PROVE  ch'[k] \in {<<>>} \cup {<<u>> : u \in 0..MaxNow}
    BY <1>2
  <2>2. ch[k] \in {<<>>} \cup {<<u>> : u \in 0..MaxNow}
    BY <1>1 DEF TypeOK
  <2>3. CASE k \in DueBy(t)
    <3>1. when[k] \in 0..MaxNow
      BY <1>1, <1>3, <1>4, <2>3, ClockAssumption DEF ClockAssumption
    <3>2. ch'[k] = ch[k] \/ ch'[k] = <<when[k]>>
      BY <1>2, <2>3 DEF Trigger
    <3> QED
      BY <2>2, <3>1, <3>2
  <2>4. CASE k \notin DueBy(t)
    BY <1>2, <2>2, <2>4
  <2> QED
    BY <2>3, <2>4
<1>8. TypeOK'
  BY <1>1, <1>2, <1>6, <1>7 DEF TypeOK
<1>9. NothingOverdue'
  <2>1. SUFFICES ASSUME NEW k \in pending'
                 PROVE  when'[k] >= now'
    BY DEF NothingOverdue
  <2>2. k \in pending /\ k \in Timers /\ (k \in DueBy(t) => interval[k] > 0)
    BY <1>1, <1>2, <2>1 DEF TypeOK
  <2>3. CASE ticks(k)
    BY <1>1, <1>2, <1>5, <2>2, <2>3
  <2>4. CASE ~ticks(k)
    BY <1>1, <1>2, <1>3, <1>4, <2>2, <2>4 DEF ticks
  <2> QED
    BY <2>3, <2>4
<1>10. \A s \in Sleepers :
         /\ interval[s] = 0 /\ when'[s] = when[s]
         /\ s \in pending' <=> (s \in pending /\ t < when[s])
         /\ ch'[s] = ch[s] \/ (s \in pending /\ when[s] <= t)
  <2>1. SUFFICES ASSUME NEW s \in Sleepers
                 PROVE  /\ interval[s] = 0 /\ when'[s] = when[s]
                        /\ s \in pending' <=> (s \in pending /\ t < when[s])
                        /\ ch'[s] = ch[s] \/ (s \in pending /\ when[s] <= t)
    OBVIOUS
  <2>2. s \in Timers /\ interval[s] = 0
    BY DEF Timers, Inv, IdleInv
  <2>3. s \in DueBy(t) <=> (s \in pending /\ when[s] <= t)
    BY <1>4
  <2> QED
    BY <1>1, <1>2, <1>3, <2>2, <2>3 DEF ticks
<1>11. IdleInv'
  BY <1>2, <1>10 DEF Inv, IdleInv
<1>12. AsleepInv'
  <2>1. SUFFICES ASSUME NEW s \in Sleepers, sleep[s] = "asleep"
                 PROVE  /\ s \in pending' => due[s] <= when'[s]
                        /\ ch'[s] # <<>> => due[s] <= now'
    BY <1>2 DEF AsleepInv
  <2>2. /\ s \in pending => due[s] <= when[s]
        /\ ch[s] # <<>> => due[s] <= now
        /\ due[s] \in Int /\ when[s] \in Nat
    BY <1>1, <1>3, <2>1 DEF Inv, AsleepInv, TypeOK, Timers
  <2>3. s \in pending' => due[s] <= when'[s]
    BY <1>10, <2>2
  <2>4. CASE ch'[s] = ch[s]
    BY <1>1, <1>2, <2>2, <2>3, <2>4
  <2>5. CASE s \in pending /\ when[s] <= t
    BY <1>1, <1>2, <2>2, <2>3, <2>5
  <2> QED
    BY <1>10, <2>4, <2>5
<1>13. SleepNotEarlyNorLeft'
  <2>1. SUFFICES ASSUME NEW s \in Sleepers
                 PROVE  /\ sleep[s] = "true" => due[s] <= now'
                        /\ sleep[s] \in {"true", "false"} => s \notin pending'
    BY <1>2 DEF SleepNotEarlyNorLeft
  <2>2. /\ sleep[s] = "true" => due[s] <= now
        /\ sleep[s] \in {"true", "false"} => s \notin pending
        /\ due[s] \in Int
    BY <1>1 DEF Inv, SleepNotEarlyNorLeft, TypeOK
  <2> QED
    BY <1>1, <1>2, <1>10, <2>2
<1> QED
  BY <1>8, <1>9, <1>11, <1>12, <1>13 DEF Inv

\* Step advances to the first timer that is pending.
LEMMA StepInv ==
  ASSUME Inv, Step
  PROVE  Inv'
<1>1. PICK k \in pending :
        /\ \A j \in pending : when[k] <= when[j]
        /\ when[k] <= MaxNow
        /\ now' = when[k]
        /\ ch' = [ch EXCEPT ![k] = Trigger(@, when[k])]
        /\ pending' = IF interval[k] > 0 THEN pending ELSE pending \ {k}
        /\ when' = [when EXCEPT ![k] = @ + interval[k]]
  BY DEF Step
<1>2. UNCHANGED <<interval, kind, sleep, due, driver, expired>>
  BY DEF Step, driverVars
<1>3. /\ TypeOK /\ now \in Nat /\ MaxNow \in Nat /\ k \in Timers
      /\ when[k] \in Nat /\ interval[k] \in Nat /\ when[k] >= now
  BY ClockAssumption DEF Inv, TypeOK, ClockAssumption, NothingOverdue
<1>4. /\ when' \in [Timers -> Nat] /\ when'[k] = when[k] + interval[k]
      /\ \A j \in Timers \ {k} : when'[j] = when[j]
  BY <1>1, <1>3 DEF TypeOK
<1>5. /\ ch'[k] = ch[k] \/ ch'[k] = <<when[k]>>
      /\ \A j \in Timers \ {k} : ch'[j] = ch[j]
  BY <1>1, <1>3 DEF TypeOK, Trigger
<1>6. ch' \in [Timers -> {<<>>} \cup {<<u>> : u \in 0..MaxNow}]
  <2>1. when[k] \in 0..MaxNow
    BY <1>1, <1>3
  <2>2. Trigger(ch[k], when[k]) \in {<<>>} \cup {<<u>> : u \in 0..MaxNow}
    BY <1>3, <2>1 DEF TypeOK, Trigger
  <2> QED
    BY <1>1, <1>3, <2>2 DEF TypeOK
<1>7. TypeOK'
  <2>1. now' \in 0..MaxNow /\ pending' \subseteq Timers
    BY <1>1, <1>3 DEF TypeOK
  <2> QED
    BY <1>2, <1>3, <1>4, <1>6, <2>1 DEF TypeOK
<1>8. NothingOverdue'
  <2>1. \A j \in pending' : j \in pending /\ j \in Timers
    BY <1>1, <1>3 DEF TypeOK
  <2>2. \A j \in pending : when[j] \in Nat /\ when[j] >= now'
    BY <1>1, <1>3 DEF TypeOK
  <2>3. when'[k] >= now'
    BY <1>1, <1>3, <1>4
  <2> QED
    BY <1>4, <2>1, <2>2, <2>3 DEF NothingOverdue
<1>9. \A s \in Sleepers :
        /\ s \in Timers /\ interval[s] = 0 /\ when'[s] = when[s]
        /\ s \in pending' => s \in pending
        /\ ch'[s] = ch[s] \/ (s \in pending /\ when[s] = now')
  <2>1. SUFFICES ASSUME NEW s \in Sleepers
                 PROVE  /\ s \in Timers /\ interval[s] = 0 /\ when'[s] = when[s]
                        /\ s \in pending' => s \in pending
                        /\ ch'[s] = ch[s] \/ (s \in pending /\ when[s] = now')
    OBVIOUS
  <2>2. s \in Timers /\ interval[s] = 0
    BY DEF Timers, Inv, IdleInv
  <2> QED
    BY <1>1, <1>3, <1>4, <1>5, <2>2
<1>10. IdleInv'
  BY <1>2, <1>9 DEF Inv, IdleInv
<1>11. AsleepInv'
  <2>1. SUFFICES ASSUME NEW s \in Sleepers, sleep[s] = "asleep"
                 PROVE  /\ s \in pending' => due[s] <= when'[s]
                        /\ ch'[s] # <<>> => due[s] <= now'
    BY <1>2 DEF AsleepInv
  <2>2. /\ s \in pending => due[s] <= when[s]
        /\ ch[s] # <<>> => due[s] <= now
        /\ due[s] \in Int
    BY <1>3, <2>1 DEF Inv, AsleepInv, TypeOK
  <2>3. s \in pending' => due[s] <= when'[s]
    BY <1>9, <2>2
  <2>4. CASE ch'[s] = ch[s]
    BY <1>1, <1>3, <2>2, <2>3, <2>4
  <2>5. CASE s \in pending /\ when[s] = now'
    BY <2>2, <2>3, <2>5
  <2> QED
    BY <1>9, <2>4, <2>5
<1>12. SleepNotEarlyNorLeft'
  <2>1. SUFFICES ASSUME NEW s \in Sleepers
                 PROVE  /\ sleep[s] = "true" => due[s] <= now'
                        /\ sleep[s] \in {"true", "false"} => s \notin pending'
    BY <1>2 DEF SleepNotEarlyNorLeft
  <2>2. /\ sleep[s] = "true" => due[s] <= now
        /\ sleep[s] \in {"true", "false"} => s \notin pending
        /\ due[s] \in Int
    BY <1>3 DEF Inv, SleepNotEarlyNorLeft, TypeOK
  <2> QED
    BY <1>1, <1>3, <1>9, <2>2
<1> QED
  BY <1>7, <1>8, <1>10, <1>11, <1>12 DEF Inv

\* The driver in Block changes no timer.
LEMMA BlockInv ==
  ASSUME Inv, Block \/ BlockCheck \/ BlockParks \/ BlockExpires
  PROVE  Inv'
<1>1. UNCHANGED <<now, pending, when, interval, ch, kind, sleep, due>>
  BY DEF Block, BlockCheck, BlockParks, BlockExpires, timerVars
<1>2. /\ driver \in {"idle", "check", "parking", "waiting", "failed"}
      /\ expired \in {"live", "expired", "broadcast"}
  BY DEF Inv, TypeOK
<1>3. /\ driver' \in {"idle", "check", "parking", "waiting", "failed"}
      /\ expired' \in {"live", "expired", "broadcast"}
  <2>1. CASE Block
    BY <2>1 DEF Block
  <2>2. CASE BlockCheck
    BY <1>2, <2>2 DEF BlockCheck
  <2>3. CASE BlockParks
    BY <1>2, <2>3 DEF BlockParks
  <2>4. CASE BlockExpires
    BY <1>2, <2>4 DEF BlockExpires, Broadcast
  <2> QED
    BY <2>1, <2>2, <2>3, <2>4
<1>4. TypeOK'
  BY <1>1, <1>3 DEF Inv, TypeOK
<1>5. NothingOverdue' /\ IdleInv' /\ AsleepInv' /\ SleepNotEarlyNorLeft'
  BY <1>1 DEF Inv, NothingOverdue, IdleInv, AsleepInv, SleepNotEarlyNorLeft
<1> QED
  BY <1>4, <1>5 DEF Inv

\* The invariant is inductive.
LEMMA InvHolds == Spec => []Inv
<1>1. Inv /\ UNCHANGED vars => Inv'
  BY DEF Inv, TypeOK, NothingOverdue, IdleInv, AsleepInv, SleepNotEarlyNorLeft,
     vars, timerVars, driverVars
<1>2. Inv /\ [Next]_vars => Inv'
  <2>1. SUFFICES ASSUME Inv, [Next]_vars PROVE Inv'
    OBVIOUS
  <2>2. CASE UserNext
    <3>1. CASE \E k \in Handles, d \in Durations : Reset(k, d)
      BY <2>1, <3>1, ResetInv
    <3>2. CASE \E k \in Handles, d \in Durations, what \in {"timer", "ticker"} :
                 Make(k, d, what)
      BY <2>1, <3>2, MakeInv
    <3>3. CASE \E k \in Handles : NewLazyTimer(k) \/ Stop(k) \/ Recv(k)
      BY <2>1, <3>3, NewLazyTimerInv, StopInv, RecvInv
    <3>4. CASE \E s \in Sleepers : SleepDone(s) \/ SleepCanceled(s)
      BY <2>1, <3>4, SleepReturnsInv
    <3>5. CASE \E s \in Sleepers, d \in Durations : SleepStart(s, d)
      BY <2>1, <3>5, SleepStartInv
    <3> QED
      BY <2>2, <3>1, <3>2, <3>3, <3>4, <3>5 DEF UserNext
  <2>3. CASE \E d \in Steps : Advance(d)
    BY <2>1, <2>3, AdvanceInv
  <2>4. CASE Step
    BY <2>1, <2>4, StepInv
  <2>5. CASE Block \/ BlockNext \/ BlockExpires
    BY <2>1, <2>5, BlockInv DEF BlockNext
  <2>6. CASE Failed
    BY <1>1, <2>1, <2>6 DEF Failed
  <2>7. CASE UNCHANGED vars
    BY <1>1, <2>1, <2>7
  <2> QED
    BY <2>1, <2>2, <2>3, <2>4, <2>5, <2>6, <2>7 DEF Next
<1> QED
  BY InitInv, <1>2, PTL DEF Spec

-----------------------------------------------------------------------------
(* The theorems.                                                           *)

\* Types hold: times are never negative, channels hold at most one tick, and
\* exactly the tickers have an interval, whatever is made, reset and stopped.
THEOREM TypeCorrect == Spec => []TypeOK
<1>1. Inv => TypeOK
  BY DEF Inv
<1> QED
  BY InvHolds, <1>1, PTL

\* advanceUnderLock never finds the clock ahead of a pending timer in step, and
\* so does not panic, for any durations and any steps of the clock.
THEOREM NeverOverdue == Spec => []NothingOverdue
<1>1. Inv => NothingOverdue
  BY DEF Inv
<1> QED
  BY InvHolds, <1>1, PTL

\* clock.Sleep on the test clock returns true only after its time, and leaves no
\* timer in the heap, for any number of sleeps beside any timers and tickers.
THEOREM SleepCorrect == Spec => []SleepNotEarlyNorLeft
<1>1. Inv => SleepNotEarlyNorLeft
  BY DEF Inv
<1> QED
  BY InvHolds, <1>1, PTL

=============================================================================
