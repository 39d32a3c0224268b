------------------------------ MODULE PtpClock ------------------------------
(***************************************************************************)
(* The clock of the PTP daemon (src/sample_common/ptp/usr_timer.c).  The   *)
(* timer of the Ethernet controller counts the nanoseconds of a second and *)
(* starts again; its interrupt counts time_s.  A reading takes the seconds *)
(* first and the timer afterwards with interrupts off: when the timer      *)
(* starts again in between, or just before, the seconds are one behind,    *)
(* and last_visit_time tells the reading so.                               *)
(*                                                                         *)
(* A nanosecond count is one of Second units; the hardware's count goes on *)
(* between any two steps.                                                  *)
(***************************************************************************)
EXTENDS Integers

CONSTANTS
  Second,   \* S_TO_NS_COUNT
  Late,     \* the last units of a second: above 990000000
  Early,    \* the first units of a second: below 1000000
  Delay,    \* for how many units the interrupt can be kept waiting
  MaxTime   \* bound: seconds

ASSUME ClockAssumption ==
  /\ Second \in Nat /\ Late \in 0 .. Second - 1 /\ Early \in 1 .. Second - Late
  /\ Delay \in 0 .. Early - 1 /\ MaxTime \in Nat

VARIABLES
  timer,      \* the controller's count (external)
  pending,    \* for how long its interrupt has been waiting; -1: it is not
  time_s,
  visit,      \* last_visit_time_s and last_visit_time_ns
  call,       \* the reading under way: the seconds it has read
  set,        \* setPTPUsrTime between its two stores: the seconds to be
              \* stored, and (history) those that it should be by now
  fresh,      \* history: visit dates from after the last setting of the
              \* clock, and from when no interrupt was waiting
  offset,     \* history: seconds the clock is ahead of what it was set to
  answer      \* history: the time getPTPUsrTime returned, the time when it
              \* read the timer, and whether it could tell

clockVars == <<timer, pending, time_s, visit, call, set, fresh, offset, answer>>

NoRead == [step |-> "none", s |-> 0]
NotSet == [on |-> FALSE, s |-> 0, due |-> 0]

ClockInit ==
  /\ timer = 0 /\ pending = -1 /\ time_s = 0
  /\ visit = [s |-> 0, ns |-> 0] /\ fresh = TRUE
  /\ call = NoRead
  /\ set = NotSet /\ offset = 0
  /\ answer = [value |-> 0, true |-> 0, could |-> TRUE]

\* The seconds that have gone by, whether or not they have been counted.
Elapsed == time_s + (IF pending >= 0 THEN 1 ELSE 0)

-----------------------------------------------------------------------------
(* The hardware.                                                           *)

\* A second interrupt while one is waiting is lost.  The two stores of
\* setPTPUsrTime are less than a second apart.
TimerTick ==
  /\ pending < Delay
  /\ timer < Second - 1 \/ (Elapsed < MaxTime /\ set.due = set.s)
  /\ timer' = (timer + 1) % Second
  /\ pending' = IF timer' = 0 THEN 0 ELSE IF pending >= 0 THEN pending + 1 ELSE -1
  /\ set' = IF set.on /\ timer' = 0 THEN [set EXCEPT !.due = @ + 1] ELSE set
  /\ offset' = IF ~set.on /\ timer' = 0 /\ pending >= 0 THEN offset - 1 ELSE offset
  /\ UNCHANGED <<time_s, visit, call, fresh, answer>>

enet_arriver_callback ==
  /\ pending >= 0 /\ call.step = "none"
  /\ pending' = -1
  /\ time_s' = time_s + 1
  /\ UNCHANGED <<timer, visit, call, set, fresh, offset, answer>>

-----------------------------------------------------------------------------
(* Reading: get_current_time and getPTPUsrTime.                            *)

ReadSeconds ==
  /\ call.step = "none"
  /\ call' = [step |-> "timer", s |-> time_s]
  /\ UNCHANGED <<timer, pending, time_s, visit, set, fresh, offset, answer>>

LateVisit == visit.s = call.s /\ visit.ns >= Second - Late
\* The timer has started again since the last visit.
Restarted == LateVisit /\ timer < Early

\* Mutant: the nanoseconds of a second too many are dropped.
NoCarry(s, ns) == IF ns > Second THEN s * Second + ns - Second ELSE s * Second + ns

\* Seconds and nanoseconds as getPTPUsrTime returns them, in one number.
Returned(s, ns) ==
  IF ns > Second THEN (s + 1) * Second + (ns - Second) ELSE s * Second + ns

ReadTimer ==
  /\ call.step = "timer"
  /\ visit' = IF Restarted THEN visit ELSE [s |-> call.s, ns |-> timer]
  /\ fresh' = (fresh \/ (~set.on /\ pending < 0 /\ ~Restarted))
  /\ answer' = [value |-> Returned(call.s, IF Restarted THEN timer + Second ELSE timer),
                true  |-> Elapsed * Second + timer,
                could |-> fresh /\ (pending >= 0 => LateVisit)]
  /\ call' = NoRead
  /\ UNCHANGED <<timer, pending, time_s, set, offset>>

-----------------------------------------------------------------------------
(* setPTPUsrTime: the timer, then the seconds, with interrupts on.         *)

SetTimer ==
  /\ ~set.on /\ call.step = "none"
  /\ \E s \in 0 .. MaxTime, ns \in 0 .. Second - 1 :
       timer' = ns /\ set' = [on |-> TRUE, s |-> s, due |-> s]
  /\ fresh' = FALSE
  /\ UNCHANGED <<pending, time_s, visit, call, offset, answer>>

\* Mutant: the seconds are added to.
AddSeconds ==
  /\ set.on /\ call.step = "none"
  /\ time_s' = time_s + set.s
  /\ offset' = Elapsed + set.s - set.due
  /\ set' = NotSet
  /\ UNCHANGED <<timer, pending, visit, call, fresh, answer>>

SetSeconds ==
  /\ set.on /\ call.step = "none"
  /\ time_s' = set.s
  /\ offset' = Elapsed - time_s + set.s - set.due
  /\ set' = NotSet
  /\ UNCHANGED <<timer, pending, visit, call, fresh, answer>>

ClockNext ==
  TimerTick \/ enet_arriver_callback \/ ReadSeconds \/ ReadTimer \/ SetTimer \/ SetSeconds
ClockSpec == ClockInit /\ [][ClockNext]_clockVars

-----------------------------------------------------------------------------
(* Properties.                                                             *)

\* A reading is exact if no interrupt was waiting, or if the last reading,
\* by whichever task, was in the last hundredth of the second that ended
\* (usr_timer.c:38-47).
ReadExact == answer.could => answer.value = answer.true

\* Two stores that an interrupt may come between, and an interrupt that was
\* already waiting, put the clock one second off at most.
SetWithinASecond == ~set.on => offset \in {-1, 0, 1}
=============================================================================
