-------------------------------- MODULE Timer -------------------------------
(***************************************************************************)
(* Sleeping and interval timers (taskman/proc/timer.c).  Nothing ticks:    *)
(* tm_timer_sweep runs at the start of every request taskman serves        *)
(* (tm_dispatch), answers the nanosleep callers whose time has come and    *)
(* queues a SIGALRM pulse for each expired ITIMER_REAL.                    *)
(*                                                                         *)
(* The tick counter (the `time` CSR) is Width bits wide and wraps.  "left" *)
(* is the time that really remains, which the program does not have; the   *)
(* properties compare the two.  A request is one step: sweep, then         *)
(* handler.                                                                *)
(***************************************************************************)
EXTENDS Integers, Sequences, FiniteSets, FiniteSetsExt

CONSTANTS Pids,                \* pids of programs
          Timed,               \* those whose programs use setitimer
          Width,               \* bits of the tick counter
          Second, Freq,        \* clock units and ticks per second
          Times, Intervals,    \* times programs ask for, in clock units
          MaxQuiet,            \* bound: ticks between two requests
          TM_MAX_SLEEPERS, TM_PULSE_QUEUE_LEN

Wrap == 2 ^ Width

(* time / Second whole seconds, the rest rounded down. *)
to_ticks(t) == (t \div Second) * Freq + ((t % Second) * Freq) \div Second

(* The counter outlasts every sleep and every quiet period by far. *)
ASSUME TimerAssumption ==
    /\ Timed \subseteq Pids /\ Width \in Nat \ {0} /\ Second \in Nat \ {0} /\ Freq \in Nat
    /\ Wrap \in Nat \ {0} /\ MaxQuiet \in Nat
    /\ TM_MAX_SLEEPERS \in Nat /\ TM_PULSE_QUEUE_LEN \in Nat
    /\ \A t \in Times \cup Intervals : t \in Nat /\ to_ticks(t) + MaxQuiet < Wrap \div 2

VARIABLES now,        \* the tick counter
          quiet,      \* ticks since the last request
          st,         \* program of each pid: "absent", "runs" or "sleeps"
          sleepers,   \* g_sleepers
          timer,      \* ITIMER_REAL of each process record
          chan        \* signal channel: pulses queued in it, or NoChan

vars == <<now, quiet, st, sleepers, timer, chan>>

NoChan == -1

(* live: the caller that sleeps in the row has not died since. *)
NoSleeper == [pid |-> 0, expiry |-> 0, left |-> 0, live |-> FALSE]

(* own: armed by the program that runs under the pid now. *)
Disarmed == [expiry |-> 0, interval |-> 0, left |-> 0, own |-> FALSE]

Init == /\ now \in 1 .. Wrap - 1 /\ quiet = 0
        /\ st = [p \in Pids |-> "runs"]
        /\ sleepers = [i \in 1 .. TM_MAX_SLEEPERS |-> NoSleeper]
        /\ timer = [p \in Pids |-> Disarmed]
        /\ chan = [p \in Pids |-> NoChan]

-----------------------------------------------------------------------------
(* Mutant: an unsigned comparison. *)
ExpiredUnsigned(expiry) == now >= expiry

(* Mutant: a tick too soon. *)
ExpiredEarly(expiry) == (now + 1 - expiry) % Wrap < Wrap \div 2

(* expired: (long)(now - expiry) >= 0 *)
expired(expiry) == (now - expiry) % Wrap < Wrap \div 2

InUse(i) == sleepers[i].pid # 0
Woken == {i \in DOMAIN sleepers : InUse(i) /\ expired(sleepers[i].expiry)}

(* Mutant: the row is freed and the answer forgotten. *)
WokenUnanswered == {}
WokenPids == {sleepers[i].pid : i \in {j \in Woken : sleepers[j].live}}
Armed(p) == timer[p].expiry # 0
Fired == {p \in Pids : st[p] # "absent" /\ Armed(p) /\ expired(timer[p].expiry)}

(* The timer of p after it fired. *)
Rearm(p) == LET t == timer[p] IN
    IF t.interval > 0
    THEN [expiry |-> (now + t.interval) % Wrap, interval |-> t.interval,
          left |-> t.interval, own |-> t.own]
    ELSE Disarmed

(* deliver_alarm_to: nothing without a signal channel or with a full queue. *)
deliver_alarm_to(n) == IF n = NoChan \/ n = TM_PULSE_QUEUE_LEN THEN n ELSE n + 1

(* What tm_timer_sweep leaves. *)
SweptSleepers == [i \in DOMAIN sleepers |-> IF i \in Woken THEN NoSleeper ELSE sleepers[i]]
SweptSt == [p \in Pids |-> IF p \in WokenPids THEN "runs" ELSE st[p]]
SweptTimer == [p \in Pids |-> IF p \in Fired THEN Rearm(p) ELSE timer[p]]
SweptChan == [p \in Pids |-> IF p \in Fired THEN deliver_alarm_to(chan[p]) ELSE chan[p]]

-----------------------------------------------------------------------------
(* Requests.  Each is served by tm_dispatch after the sweep. *)
Served(p) == st[p] = "runs" /\ quiet' = 0 /\ UNCHANGED now

FreeSleeper == {i \in DOMAIN sleepers : SweptSleepers[i] = NoSleeper}

(* tm_nanosleep: no time, no free row (EAGAIN) or no reply object (ENOMEM) *)
(* is answered at once.                                                    *)
tm_nanosleep(p, t) ==
    /\ Served(p)
    /\ LET i == Min(FreeSleeper)
           row == [pid |-> p, expiry |-> (now + to_ticks(t)) % Wrap,
                   left |-> to_ticks(t), live |-> TRUE]
       IN \/ /\ t # 0 /\ FreeSleeper # {}
             /\ sleepers' = [SweptSleepers EXCEPT ![i] = row]
             /\ st' = [SweptSt EXCEPT ![p] = "sleeps"]
          \/ sleepers' = SweptSleepers /\ st' = SweptSt
    /\ timer' = SweptTimer /\ chan' = SweptChan

tm_setitimer(p, t, iv) ==
    /\ Served(p)
    /\ timer' = [SweptTimer EXCEPT ![p] =
                   IF t = 0 THEN Disarmed
                   ELSE [expiry |-> (now + to_ticks(t)) % Wrap, interval |-> to_ticks(iv),
                         left |-> to_ticks(t), own |-> TRUE]]
    /\ sleepers' = SweptSleepers /\ st' = SweptSt /\ chan' = SweptChan

(* A signal channel is registered with taskman (TM_REQ_SIGNAL_CHID). *)
RegisterChan(p) ==
    /\ Served(p) /\ chan[p] = NoChan
    /\ chan' = [SweptChan EXCEPT ![p] = 0]
    /\ sleepers' = SweptSleepers /\ st' = SweptSt /\ timer' = SweptTimer

(* TM_REQ_PULSE_DRAIN: the signal thread takes a pulse. *)
TakePulse(p) ==
    /\ Served(p) /\ SweptChan[p] > 0
    /\ chan' = [SweptChan EXCEPT ![p] = @ - 1]
    /\ sleepers' = SweptSleepers /\ st' = SweptSt /\ timer' = SweptTimer

(* Any other request. *)
Other(p) ==
    /\ Served(p)
    /\ sleepers' = SweptSleepers /\ st' = SweptSt /\ timer' = SweptTimer /\ chan' = SweptChan

(* tm_process_terminate, by the program or, while it sleeps, for it (a     *)
(* fault or a signal): its channel goes, its sleeper row and its timer     *)
(* stay.                                                                   *)
tm_process_terminate(p) ==
    /\ st[p] # "absent" /\ quiet' = 0 /\ UNCHANGED now
    /\ st' = [SweptSt EXCEPT ![p] = "absent"]
    /\ sleepers' = [i \in DOMAIN sleepers |->
                      IF SweptSleepers[i].pid = p THEN [SweptSleepers[i] EXCEPT !.live = FALSE]
                      ELSE SweptSleepers[i]]
    /\ timer' = [SweptTimer EXCEPT ![p].own = FALSE]
    /\ chan' = [SweptChan EXCEPT ![p] = NoChan]

(* Mutant: the timer of the pid's last owner stays armed. *)
KeepTimer(t) == t

(* What tm_process_register makes of the timer in the record. *)
ClearTimer(t) == Disarmed

(* A new program under a pid that is free again. *)
tm_process_register(p) ==
    /\ st[p] = "absent" /\ quiet' = 0 /\ UNCHANGED now
    /\ st' = [SweptSt EXCEPT ![p] = "runs"]
    /\ timer' = [SweptTimer EXCEPT ![p] = ClearTimer(SweptTimer[p])]
    /\ sleepers' = SweptSleepers /\ chan' = SweptChan

Dispatch ==
    \E p \in Pids : \/ \E t \in Times : tm_nanosleep(p, t)
                    \/ /\ p \in Timed
                       /\ \E t \in Times, iv \in Intervals : tm_setitimer(p, t, iv)
                    \/ p \in Timed /\ RegisterChan(p)
                    \/ TakePulse(p) \/ Other(p)
                    \/ tm_process_terminate(p) \/ tm_process_register(p)

Later(t) == Max({t - 1, -MaxQuiet})
Tick == /\ quiet < MaxQuiet
        /\ now' = (now + 1) % Wrap /\ quiet' = quiet + 1
        /\ sleepers' = [i \in DOMAIN sleepers |->
                          IF InUse(i) THEN [sleepers[i] EXCEPT !.left = Later(@)] ELSE NoSleeper]
        /\ timer' = [p \in Pids |-> IF Armed(p) THEN [timer[p] EXCEPT !.left = Later(@)] ELSE timer[p]]
        /\ UNCHANGED <<st, chan>>

Next == Tick \/ Dispatch

(* Time passes; that requests arrive is no assumption.                     *)
Spec == Init /\ [][Next]_vars /\ WF_vars(Tick)

-----------------------------------------------------------------------------
(* tm_timer_sweep answers a sleeper only when the time it asked for is     *)
(* over, across a wrap of the counter (expired).                           *)
SleepsFullTime ==
    [][\A i \in DOMAIN sleepers :
         InUse(i) /\ sleepers'[i] = NoSleeper => sleepers[i].left <= 0]_vars

(* A SIGALRM pulse reaches a program only from a timer it armed itself,    *)
(* and only when that is due: never from the timer of an earlier owner of  *)
(* its pid.                                                                *)
AlarmIsOwnAndDue ==
    [][\A p \in Pids : chan'[p] > chan[p] /\ chan[p] # NoChan
                         => timer[p].own /\ timer[p].left <= 0]_vars

(* A request leaves nothing overdue: whoever's time was over when taskman  *)
(* served it has been woken, and every timer that was due has fired and,   *)
(* if periodic, been set ahead.  (An expiry of exactly 0 reads as          *)
(* disarmed.)                                                              *)
NothingOverdue ==
    quiet = 0 => /\ \A i \in DOMAIN sleepers : InUse(i) => sleepers[i].left >= 0
                 /\ \A p \in Pids : Armed(p) /\ st[p] # "absent" => timer[p].left >= 0

(* A sleeper is woken, or dies, if requests keep coming: sleeping needs    *)
(* other traffic, as timer.c says, and nothing else.                       *)
SleeperWakes ==
    []<>(quiet = 0) => \A p \in Pids : st[p] = "sleeps" ~> st[p] # "sleeps"
=============================================================================
