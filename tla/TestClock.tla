----------------------------- MODULE TestClock -----------------------------
(***************************************************************************)
(* The deterministic clock (internal/test/testclock) and the part of       *)
(* internal/clock that runs on it.  A driver, the test, blocks until       *)
(* enough timers are pending and moves the clock; goroutines under test    *)
(* make, reset, stop and receive from timers and tickers, or call Sleep.   *)
(*                                                                         *)
(* Every operation holds the backend's mutex from start to end and is one  *)
(* step.  The exception is Block: its goroutine broadcasts the time-out    *)
(* without the mutex, so cond.Wait is two steps.  Timers that are due      *)
(* together are triggered in any order.                                    *)
(***************************************************************************)
EXTENDS Integers, Sequences, FiniteSets

CONSTANTS
  Handles,     \* the timers and tickers goroutines make
  Sleepers,    \* the calls of Sleep, each with a timer of its own
  Durations,   \* what NewTimer, NewTicker, Reset and Sleep are given
  Steps,       \* what Advance is given
  Wanted,      \* what Block is given
  MaxNow       \* bound on the clock

Timers == Handles \cup Sleepers

ASSUME ClockAssumption ==
  /\ Handles \cap Sleepers = {}
  /\ Durations \subseteq Int
  /\ Steps \subseteq Nat
  /\ Wanted \in Nat
  /\ MaxNow \in Nat

VARIABLES
  now,       \* b.now
  pending,   \* b.timers, the heap
  when,      \* timer.when
  interval,  \* timer.interval, 0 for one-shot timers
  ch,        \* timer.ch, a channel of capacity one
  kind,      \* what a handle is: none, a lazy timer before its first Reset,
             \* timer or ticker
  sleep,     \* what Sleep is doing: idle, asleep, or what it returned
  due,       \* when a sleeper asked to be woken
  driver,    \* the driver: idle, or where it is in Block
  expired    \* the context of that Block: live, expired, broadcast

timerVars == <<pending, when, interval, ch>>
driverVars == <<driver, expired>>
vars == <<now, timerVars, kind, sleep, due, driverVars>>

Init ==
  /\ now = 0
  /\ pending = {}
  /\ when = [k \in Timers |-> 0]
  /\ interval = [k \in Timers |-> 0]
  /\ ch = [k \in Timers |-> <<>>]
  /\ kind = [k \in Handles |-> "none"]
  /\ sleep = [s \in Sleepers |-> "idle"]
  /\ due = [s \in Sleepers |-> 0]
  /\ driver = "idle"
  /\ expired = "live"

\* The driver holds b.mu between its check and the unlock inside cond.Wait.
Unlocked == driver # "parking"

\* cond.Broadcast, as the driver is affected by it.
Broadcast == driver' = IF driver = "waiting" THEN "check" ELSE driver

NonNegative(d) == IF d < 0 THEN 0 ELSE d

\* A plausible bug: the channel is not bounded and ticks pile up in it.
Trigger_queue(c, t) == Append(c, t)

\* trigger: the first tick stays in the channel, later ones are dropped.
Trigger(c, t) == IF c = <<>> THEN <<t>> ELSE c

-----------------------------------------------------------------------------
(* newTimer, resetTimer, stopTimer                                         *)

\* A plausible bug: a blocked driver is not told about the new timer.
NewTimer_quiet(k, d, oneShot) ==
  /\ Unlocked
  /\ when' = [when EXCEPT ![k] = now + NonNegative(d)]
  /\ interval' = [interval EXCEPT ![k] = IF oneShot THEN 0 ELSE d]
  /\ IF d <= 0
       THEN ch' = [ch EXCEPT ![k] = Trigger(<<>>, when'[k])] /\ UNCHANGED pending
       ELSE pending' = pending \cup {k} /\ ch' = [ch EXCEPT ![k] = <<>>]
  /\ UNCHANGED driver

\* A timer that expires at once is triggered and never pending.
NewTimer(k, d, oneShot) ==
  /\ Unlocked
  /\ when' = [when EXCEPT ![k] = now + NonNegative(d)]
  /\ interval' = [interval EXCEPT ![k] = IF oneShot THEN 0 ELSE NonNegative(d)]
  /\ IF when'[k] = now
       THEN /\ ch' = [ch EXCEPT ![k] = Trigger(<<>>, when'[k])]
            /\ UNCHANGED <<pending, driver>>
       ELSE /\ ch' = [ch EXCEPT ![k] = <<>>]
            /\ pending' = pending \cup {k}
            /\ Broadcast

\* A plausible bug: a negative duration is not cut off at zero.
Reset_raw(k, d) ==
  /\ Unlocked
  /\ kind[k] \in {"timer", "ticker"} /\ (kind[k] = "ticker" => d > 0)
  /\ when' = [when EXCEPT ![k] = now + d]
  /\ interval' = [interval EXCEPT ![k] = IF @ > 0 THEN d ELSE 0]
  /\ pending' = pending \cup {k}
  /\ IF k \in pending THEN UNCHANGED driver ELSE Broadcast
  /\ UNCHANGED <<now, ch, kind, sleep, due, expired>>

\* resetTimer re-arms a timer, and never looks whether it expires at once.
\* Tickers refuse a duration that is not positive.
Reset(k, d) ==
  /\ Unlocked
  /\ kind[k] \in {"timer", "ticker"} /\ (kind[k] = "ticker" => d > 0)
  /\ when' = [when EXCEPT ![k] = now + NonNegative(d)]
  /\ interval' = [interval EXCEPT ![k] = IF @ > 0 THEN NonNegative(d) ELSE 0]
  /\ pending' = pending \cup {k}
  /\ IF k \in pending THEN UNCHANGED driver ELSE Broadcast
  /\ UNCHANGED <<now, ch, kind, sleep, due, expired>>

Stop(k) ==
  /\ Unlocked
  /\ kind[k] \in {"timer", "ticker"}
  /\ pending' = pending \ {k}
  /\ UNCHANGED <<now, when, interval, ch, kind, sleep, due, driverVars>>

-----------------------------------------------------------------------------
(* The goroutines under test.                                              *)

\* A lazy timer has no timer: nothing is pending, and nobody is told.
NewLazyTimer(k) ==
  /\ kind[k] = "none"
  /\ kind' = [kind EXCEPT ![k] = "lazy"]
  /\ UNCHANGED <<now, timerVars, sleep, due, driverVars>>

\* clock.NewTimer, also from the first Reset of a lazy timer, and clock.NewTicker,
\* which refuses a non-positive interval.
Make(k, d, what) ==
  /\ kind[k] = "none" \/ (kind[k] = "lazy" /\ what = "timer")
  /\ what = "ticker" => d > 0
  /\ kind' = [kind EXCEPT ![k] = what]
  /\ NewTimer(k, d, what = "timer")
  /\ UNCHANGED <<now, sleep, due, expired>>

Recv(k) ==
  /\ ch[k] # <<>>
  /\ ch' = [ch EXCEPT ![k] = <<>>]
  /\ UNCHANGED <<now, pending, when, interval, kind, sleep, due, driverVars>>

SleepStart(s, d) ==
  /\ sleep[s] = "idle"
  /\ sleep' = [sleep EXCEPT ![s] = "asleep"]
  /\ due' = [due EXCEPT ![s] = now + d]
  /\ NewTimer(s, d, TRUE)
  /\ UNCHANGED <<now, kind, expired>>

\* The select in Sleep takes the timer; the deferred Stop finds nothing.
SleepDone(s) ==
  /\ Unlocked
  /\ sleep[s] = "asleep"
  /\ ch[s] # <<>>
  /\ ch' = [ch EXCEPT ![s] = <<>>]
  /\ sleep' = [sleep EXCEPT ![s] = "true"]
  /\ pending' = pending \ {s}
  /\ UNCHANGED <<now, when, interval, kind, due, driverVars>>

\* A plausible bug: the timer of a canceled Sleep is not stopped.
SleepCanceled_leak(s) ==
  /\ Unlocked
  /\ sleep[s] = "asleep"
  /\ sleep' = [sleep EXCEPT ![s] = "false"]
  /\ UNCHANGED <<now, timerVars, kind, due, driverVars>>

\* The select takes ctx.Done, also when the timer has fired; then Stop.
SleepCanceled(s) ==
  /\ Unlocked
  /\ sleep[s] = "asleep"
  /\ sleep' = [sleep EXCEPT ![s] = "false"]
  /\ pending' = pending \ {s}
  /\ UNCHANGED <<now, when, interval, ch, kind, due, driverVars>>

-----------------------------------------------------------------------------
(* The driver: Advance, Step, Block.                                       *)

\* A plausible bug: a timer is due one instant early.
DueBy_early(t) == {k \in pending : when[k] <= t + 1}
DueBy(t) == {k \in pending : ~(t < when[k])}

\* advanceUnderLock over all that is due: one-shot timers leave the heap,
\* tickers move on to their first tick after the new time.
AdvanceTo(t) ==
  /\ now' = t
  /\ ch' = [k \in Timers |-> IF k \in DueBy(t) THEN Trigger(ch[k], when[k]) ELSE ch[k]]
  /\ pending' = {k \in pending : k \in DueBy(t) => interval[k] > 0}
  /\ when' = [k \in Timers |->
       IF k \in DueBy(t) /\ interval[k] > 0
         THEN when[k] + interval[k] * (((t - when[k]) \div interval[k]) + 1)
         ELSE when[k]]
  /\ UNCHANGED interval

Advance(d) ==
  /\ driver = "idle"
  /\ now + d <= MaxNow
  /\ AdvanceTo(now + d)
  /\ UNCHANGED <<kind, sleep, due, driverVars>>

\* step: to the first pending timer, and trigger only that one.
Step ==
  /\ driver = "idle"
  /\ \E k \in pending :
       /\ \A j \in pending : when[k] <= when[j]
       /\ when[k] <= MaxNow
       /\ now' = when[k]
       /\ ch' = [ch EXCEPT ![k] = Trigger(@, when[k])]
       /\ pending' = IF interval[k] > 0 THEN pending ELSE pending \ {k}
       /\ when' = [when EXCEPT ![k] = @ + interval[k]]
  /\ UNCHANGED <<interval, kind, sleep, due, driverVars>>

Block ==
  /\ driver = "idle"
  /\ driver' = "check"
  /\ expired' = "live"
  /\ UNCHANGED <<now, timerVars, kind, sleep, due>>

BlockCheck ==
  /\ driver = "check"
  /\ driver' = IF Cardinality(pending) >= Wanted THEN "idle"
               ELSE IF expired # "live" THEN "failed" ELSE "parking"
  /\ UNCHANGED <<now, timerVars, kind, sleep, due, expired>>

\* cond.Wait has the driver on its list of waiters and gives up the mutex.
BlockParks ==
  /\ driver = "parking"
  /\ driver' = "waiting"
  /\ UNCHANGED <<now, timerVars, kind, sleep, due, expired>>

\* Five seconds of real time; then the goroutine broadcasts, without b.mu.
BlockExpires ==
  /\ driver \in {"check", "parking", "waiting"}
  /\ \/ expired = "live" /\ expired' = "expired" /\ UNCHANGED driver
     \/ expired = "expired" /\ expired' = "broadcast" /\ Broadcast
  /\ UNCHANGED <<now, timerVars, kind, sleep, due>>

-----------------------------------------------------------------------------
UserNext ==
  \/ \E k \in Handles, d \in Durations :
       Reset(k, d) \/ \E what \in {"timer", "ticker"} : Make(k, d, what)
  \/ \E k \in Handles : NewLazyTimer(k) \/ Stop(k) \/ Recv(k)
  \/ \E s \in Sleepers : \/ SleepDone(s) \/ SleepCanceled(s)
                         \/ \E d \in Durations : SleepStart(s, d)

BlockNext == BlockCheck \/ BlockParks

\* The test has failed and stops.
Failed == driver = "failed" /\ UNCHANGED vars

Next ==
  \/ driver # "failed" /\ UserNext
  \/ \E d \in Steps : Advance(d)
  \/ Step
  \/ Block \/ BlockNext \/ BlockExpires
  \/ Failed

Spec == Init /\ [][Next]_vars

\* A driver that can run does, and the context of Block does expire.
FairSpec == Spec /\ WF_vars(BlockNext) /\ WF_vars(BlockExpires)

-----------------------------------------------------------------------------
(* Properties.                                                             *)

TypeOK ==
  /\ now \in 0..MaxNow
  /\ pending \subseteq Timers
  /\ when \in [Timers -> Nat]
  /\ interval \in [Timers -> Nat]
  /\ ch \in [Timers -> {<<>>} \cup {<<t>> : t \in 0..MaxNow}]
  /\ kind \in [Handles -> {"none", "lazy", "timer", "ticker"}]
  /\ \A k \in Handles : interval[k] > 0 <=> kind[k] = "ticker"
  /\ sleep \in [Sleepers -> {"idle", "asleep", "true", "false"}]
  /\ due \in [Sleepers -> Int]
  /\ driver \in {"idle", "check", "parking", "waiting", "failed"}
  /\ expired \in {"live", "expired", "broadcast"}

\* No pending timer is in the past, whatever is reset, stopped and advanced:
\* Step never moves the clock back, so advanceUnderLock does not panic in it.
NothingOverdue == \A k \in pending : when[k] >= now

\* Sleep returns true only when the time it was given has passed, and however it
\* returns it leaves no timer behind that Block would count and Step would fire.
SleepNotEarlyNorLeft ==
  \A s \in Sleepers :
    /\ sleep[s] = "true" => due[s] <= now
    /\ sleep[s] \in {"true", "false"} => s \notin pending

\* A driver in Block notices that enough timers are pending, however they got
\* there, unless some go away again first.
BlockNotices ==
  (driver = "waiting" /\ Cardinality(pending) >= Wanted)
    ~> (driver # "waiting" \/ Cardinality(pending) < Wanted)

\* Block ends: with enough timers pending or with a failed test.
BlockEnds == (driver = "check") ~> (driver \in {"idle", "failed"})

=============================================================================
