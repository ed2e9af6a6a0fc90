---------------------------- MODULE TimerProofs -----------------------------
(***************************************************************************)
(* The tick counter may wrap: sleeps and interval timers of any length the *)
(* counter can tell apart end on time, for any counter width, number of    *)
(* processes, rows and pulses.                                             *)
(***************************************************************************)
EXTENDS Timer, TLAPS

Row == [pid : Pids \cup {0}, expiry : Nat, left : Int, live : BOOLEAN]
Itimer == [expiry : Nat, interval : Nat, left : Int, own : BOOLEAN]
Pulses == Nat \cup {NoChan}

(* At counter n, q ticks after the last request, expiry e is l ticks away, *)
(* one turn of the counter apart at most, and less than half a turn.       *)
On(e, l, n, q) ==
    /\ e \in 0 .. Wrap - 1 /\ l \in Int /\ e \in {n + l, n + l - Wrap, n + l + Wrap}
    /\ l >= -q /\ l + MaxQuiet < Wrap \div 2 /\ MaxQuiet < Wrap \div 2

RowOK(r, s, n, q) ==
    r.pid # 0 => /\ On(r.expiry, r.left, n, q)
                 /\ r.live => s[r.pid] # "absent"

TimerOK(x, s, n, q) ==
    /\ x.interval > 0 => x.interval + MaxQuiet < Wrap \div 2
    /\ x.expiry # 0 /\ s # "absent" => On(x.expiry, x.left, n, q) /\ x.own

(* A row or an armed timer knows the time that really remains, up to the   *)
(* wrap; the caller of a live row has not exited.                          *)
TimerInv ==
    /\ now \in 0 .. Wrap - 1 /\ quiet \in 0 .. MaxQuiet
    /\ st \in [Pids -> {"absent", "runs", "sleeps"}]
    /\ sleepers \in [1 .. TM_MAX_SLEEPERS -> Row]
    /\ timer \in [Pids -> Itimer] /\ chan \in [Pids -> Pulses]
    /\ \A i \in 1 .. TM_MAX_SLEEPERS : RowOK(sleepers[i], st, now, quiet)
    /\ \A p \in Pids : TimerOK(timer[p], st[p], now, quiet)

-----------------------------------------------------------------------------
(* The counter. *)

LEMMA ModFacts ==
    ASSUME NEW W \in Nat \ {0}, NEW x \in 0 .. W - 1
    PROVE  x % W = x /\ (x + W) % W = x /\ (x - W) % W = x
<1>1. x % W = x
  OBVIOUS
<1>2. (x + W) % W = x
  OBVIOUS
<1>3. (x - W) % W = x
  OBVIOUS
<1> QED
  BY <1>1, <1>2, <1>3

(* An amount of ticks that is set now. *)
LEMMA SetAhead ==
    ASSUME NEW n \in 0 .. Wrap - 1, NEW k \in Nat, k + MaxQuiet < Wrap \div 2
    PROVE  /\ On((n + k) % Wrap, k, n, 0)
           /\ (n + k) % Wrap \in Nat
<1>1. Wrap \in Nat \ {0} /\ MaxQuiet \in Nat
  BY TimerAssumption, Zenon
<1>2. Wrap \div 2 <= Wrap /\ Wrap \div 2 \in Nat
  BY <1>1
<1>3. CASE n + k < Wrap
  <2>1. (n + k) % Wrap = n + k
    BY <1>1, <1>3, ModFacts
  <2> QED
    BY <1>1, <1>2, <1>3, <2>1 DEF On
<1>4. CASE n + k >= Wrap
  <2>1. n + k - Wrap \in 0 .. Wrap - 1
    BY <1>1, <1>2, <1>4
  <2>2. ((n + k - Wrap) + Wrap) % Wrap = n + k - Wrap
    BY <1>1, <2>1, ModFacts
  <2>3. (n + k) % Wrap = n + k - Wrap
    BY <1>1, <2>2
  <2> QED
    BY <1>1, <1>2, <1>4, <2>1, <2>3 DEF On
<1> QED
  BY <1>1, <1>3, <1>4

(* The signed comparison of expired is right across the wrap. *)
LEMMA ExpiredMeansDue ==
    ASSUME now \in 0 .. Wrap - 1, quiet \in 0 .. MaxQuiet, NEW e, NEW l, On(e, l, now, quiet)
    PROVE  expired(e) <=> l <= 0
<1>1. Wrap \in Nat \ {0} /\ MaxQuiet \in Nat
  BY TimerAssumption, Zenon
<1>2. Wrap \div 2 \in Nat /\ Wrap \div 2 + Wrap \div 2 <= Wrap
  BY <1>1
<1>3. /\ e \in 0 .. Wrap - 1 /\ l \in Int /\ e \in {now + l, now + l - Wrap, now + l + Wrap}
      /\ l >= -quiet /\ l + MaxQuiet < Wrap \div 2 /\ MaxQuiet < Wrap \div 2
  BY Zenon DEF On
<1>4. CASE l <= 0
  <2>1. -l \in 0 .. Wrap - 1 /\ -l < Wrap \div 2
    BY <1>1, <1>2, <1>3, <1>4
  <2>2. (-l) % Wrap = -l /\ ((-l) + Wrap) % Wrap = -l /\ ((-l) - Wrap) % Wrap = -l
    BY <1>1, <2>1, ModFacts
  <2>3. now - e \in {-l, (-l) + Wrap, (-l) - Wrap}
    BY <1>1, <1>3
  <2>4. (now - e) % Wrap = -l
    BY <2>2, <2>3, Zenon
  <2> QED
    BY <1>4, <2>1, <2>4 DEF expired
<1>5. CASE l > 0
  <2> DEFINE x == Wrap - l
  <2>1. x \in 0 .. Wrap - 1 /\ ~(x < Wrap \div 2)
    BY <1>1, <1>2, <1>3, <1>5
  <2>2. x % Wrap = x /\ (x + Wrap) % Wrap = x /\ (x - Wrap) % Wrap = x
    BY <1>1, <2>1, ModFacts
  <2>3. now - e \in {x, x - Wrap}
    BY <1>1, <1>2, <1>3, <1>5
  <2>4. (now - e) % Wrap = x
    BY <2>2, <2>3, Zenon
  <2> QED
    BY <1>3, <1>5, <2>1, <2>4 DEF expired
<1> QED
  BY <1>3, <1>4, <1>5

-----------------------------------------------------------------------------
(* The sweep: what it leaves has time to go, and what it fires was due. *)

LEMMA TicksAhead ==
    ASSUME NEW t \in Times \cup Intervals
    PROVE  to_ticks(t) \in Nat /\ to_ticks(t) + MaxQuiet < Wrap \div 2
<1>1. /\ t \in Nat /\ to_ticks(t) + MaxQuiet < Wrap \div 2
      /\ Second \in Nat \ {0} /\ Freq \in Nat
  BY TimerAssumption, Zenon
<1> DEFINE a == t \div Second
           b == t % Second
<1>2. a \in Nat /\ b \in Nat
  BY <1>1
<1>3. a * Freq \in Nat /\ b * Freq \in Nat
  BY <1>1, <1>2
<1>4. (b * Freq) \div Second \in Nat
  BY <1>1, <1>3
<1>5. a * Freq + (b * Freq) \div Second \in Nat
  BY <1>3, <1>4
<1> QED
  BY <1>1, <1>5, Zenon DEF to_ticks

LEMMA SweptRows ==
    ASSUME TimerInv, NEW i \in 1 .. TM_MAX_SLEEPERS
    PROVE  /\ i \in DOMAIN sleepers /\ DOMAIN sleepers = 1 .. TM_MAX_SLEEPERS
           /\ SweptSleepers[i] \in Row
           /\ RowOK(SweptSleepers[i], st, now, 0)
           /\ \/ SweptSleepers[i] = sleepers[i]
              \/ SweptSleepers[i] = NoSleeper /\ (InUse(i) => sleepers[i].left <= 0)
<1>1. /\ DOMAIN sleepers = 1 .. TM_MAX_SLEEPERS /\ sleepers[i] \in Row
      /\ now \in 0 .. Wrap - 1 /\ quiet \in 0 .. MaxQuiet
      /\ RowOK(sleepers[i], st, now, quiet)
  BY Zenon DEF TimerInv
<1>2. SweptSleepers[i] = IF i \in Woken THEN NoSleeper ELSE sleepers[i]
  BY <1>1, Zenon DEF SweptSleepers
<1>3. i \in Woken <=> InUse(i) /\ expired(sleepers[i].expiry)
  BY <1>1, Zenon DEF Woken
<1>4. InUse(i) => /\ On(sleepers[i].expiry, sleepers[i].left, now, quiet)
                  /\ sleepers[i].live => st[sleepers[i].pid] # "absent"
  BY <1>1, Zenon DEF RowOK, InUse
<1>5. InUse(i) => (i \in Woken <=> sleepers[i].left <= 0)
  BY <1>1, <1>3, <1>4, ExpiredMeansDue, Zenon
<1>6. CASE i \in Woken
  <2>1. NoSleeper \in Row /\ NoSleeper.pid = 0
    BY DEF NoSleeper, Row
  <2> QED
    BY <1>1, <1>2, <1>5, <1>6, <2>1, Zenon DEF RowOK
<1>7. CASE i \notin Woken
  <2>1. InUse(i) => On(sleepers[i].expiry, sleepers[i].left, now, 0)
    BY <1>4, <1>5, <1>7 DEF On
  <2> QED
    BY <1>1, <1>2, <1>4, <1>7, <2>1, Zenon DEF RowOK, InUse
<1> QED
  BY <1>6, <1>7, Zenon

(* A caller the sweep answers had not exited. *)
LEMMA SweptStates ==
    ASSUME TimerInv, NEW p \in Pids
    PROVE  /\ SweptSt \in [Pids -> {"absent", "runs", "sleeps"}]
           /\ SweptSt[p] = "absent" <=> st[p] = "absent"
<1>1. SweptSt[p] = IF p \in WokenPids THEN "runs" ELSE st[p]
  BY Zenon DEF SweptSt
<1>2. p \in WokenPids => st[p] # "absent"
  <2> SUFFICES ASSUME NEW i \in Woken, sleepers[i].live, sleepers[i].pid = p
               PROVE  st[p] # "absent"
    BY Zenon DEF WokenPids
  <2>1. i \in 1 .. TM_MAX_SLEEPERS /\ sleepers[i].pid # 0
    BY Zenon DEF Woken, InUse, TimerInv
  <2> QED
    BY <2>1, Zenon DEF TimerInv, RowOK
<1>3. SweptSt \in [Pids -> {"absent", "runs", "sleeps"}]
  BY Zenon DEF SweptSt, TimerInv
<1> QED
  BY <1>1, <1>2, <1>3

LEMMA SweptTimers ==
    ASSUME TimerInv, NEW p \in Pids
    PROVE  /\ SweptTimer[p] \in Itimer
           /\ TimerOK(SweptTimer[p], st[p], now, 0)
           /\ p \in Fired => timer[p].own /\ timer[p].left <= 0
<1>1. /\ timer[p] \in Itimer /\ TimerOK(timer[p], st[p], now, quiet)
      /\ now \in 0 .. Wrap - 1 /\ quiet \in 0 .. MaxQuiet
  BY Zenon DEF TimerInv
<1>2. SweptTimer[p] = IF p \in Fired THEN Rearm(p) ELSE timer[p]
  BY Zenon DEF SweptTimer
<1>3. p \in Fired <=> st[p] # "absent" /\ Armed(p) /\ expired(timer[p].expiry)
  BY Zenon DEF Fired
<1>4. st[p] # "absent" /\ Armed(p) => On(timer[p].expiry, timer[p].left, now, quiet) /\ timer[p].own
  BY <1>1, Zenon DEF TimerOK, Armed
<1>5. st[p] # "absent" /\ Armed(p) => (p \in Fired <=> timer[p].left <= 0)
  BY <1>1, <1>3, <1>4, ExpiredMeansDue, Zenon
<1>6. CASE p \in Fired /\ timer[p].interval > 0
  <2> DEFINE k == timer[p].interval
  <2>1. k \in Nat /\ k + MaxQuiet < Wrap \div 2 /\ timer[p].own \in BOOLEAN /\ timer[p].own
    BY <1>1, <1>3, <1>4, <1>6 DEF Itimer, TimerOK
  <2>2. On((now + k) % Wrap, k, now, 0) /\ (now + k) % Wrap \in Nat
    BY <1>1, <2>1, SetAhead, Zenon
  <2>3. SweptTimer[p] = [expiry |-> (now + k) % Wrap, interval |-> k,
                         left |-> k, own |-> timer[p].own]
    BY <1>2, <1>6, Zenon DEF Rearm
  <2>4. /\ SweptTimer[p].expiry = (now + k) % Wrap /\ SweptTimer[p].interval = k
        /\ SweptTimer[p].left = k /\ SweptTimer[p].own = timer[p].own
    BY <2>3
  <2>5. SweptTimer[p] \in Itimer
    BY <2>1, <2>2, <2>3 DEF Itimer
  <2>6. TimerOK(SweptTimer[p], st[p], now, 0)
    BY <2>1, <2>2, <2>4, Zenon DEF TimerOK
  <2> QED
    BY <1>3, <1>4, <1>5, <1>6, <2>5, <2>6, Zenon
<1>7. CASE p \in Fired /\ ~(timer[p].interval > 0)
  <2>1. SweptTimer[p] = Disarmed
    BY <1>2, <1>7, Zenon DEF Rearm
  <2>2. Disarmed \in Itimer /\ Disarmed.expiry = 0 /\ ~(Disarmed.interval > 0)
    BY DEF Disarmed, Itimer
  <2> QED
    BY <1>3, <1>4, <1>5, <1>7, <2>1, <2>2, Zenon DEF TimerOK
<1>8. CASE p \notin Fired
  <2>1. st[p] # "absent" /\ Armed(p) => On(timer[p].expiry, timer[p].left, now, 0)
    BY <1>4, <1>5, <1>8 DEF On
  <2> QED
    BY <1>1, <1>2, <1>4, <1>8, <2>1, Zenon DEF TimerOK, Armed
<1> QED
  BY <1>6, <1>7, <1>8, Zenon

LEMMA SweptChannels ==
    ASSUME TimerInv
    PROVE  /\ SweptChan \in [Pids -> Pulses]
           /\ \A p \in Pids : p \notin Fired => SweptChan[p] = chan[p]
<1>1. \A n \in Pulses : deliver_alarm_to(n) \in Pulses
  BY DEF deliver_alarm_to, NoChan, Pulses
<1> QED
  BY <1>1, Zenon DEF SweptChan, TimerInv

-----------------------------------------------------------------------------
(* The requests. *)

RowsKept ==
    /\ sleepers' \in [1 .. TM_MAX_SLEEPERS -> Row]
    /\ st' \in [Pids -> {"absent", "runs", "sleeps"}]
    /\ \A i \in 1 .. TM_MAX_SLEEPERS :
         /\ RowOK(sleepers'[i], st', now, 0)
         /\ InUse(i) /\ sleepers'[i] = NoSleeper => sleepers[i].left <= 0
TimersKept ==
    /\ timer' \in [Pids -> Itimer]
    /\ \A p \in Pids : TimerOK(timer'[p], st'[p], now, 0)
AlarmsRight ==
    /\ chan' \in [Pids -> Pulses]
    /\ \A p \in Pids : chan'[p] > chan[p] /\ chan[p] # NoChan => p \in Fired
Dispatched == now' = now /\ quiet' = 0 /\ RowsKept /\ TimersKept /\ AlarmsRight

LEMMA SweptFunctions ==
    ASSUME TimerInv
    PROVE  /\ SweptSleepers \in [1 .. TM_MAX_SLEEPERS -> Row]
           /\ SweptTimer \in [Pids -> Itimer]
<1>1. DOMAIN sleepers = 1 .. TM_MAX_SLEEPERS
  BY Zenon DEF TimerInv
<1>2. SweptSleepers = [i \in 1 .. TM_MAX_SLEEPERS |-> SweptSleepers[i]]
  BY <1>1, Zenon DEF SweptSleepers
<1>3. SweptTimer = [p \in Pids |-> SweptTimer[p]]
  BY Zenon DEF SweptTimer
<1> QED
  BY <1>2, <1>3, SweptRows, SweptTimers, Zenon

(* A row says the same of its caller as long as that does not exit. *)
LEMMA RowStays ==
    ASSUME NEW r, NEW s, NEW n, RowOK(r, st, n, 0),
           r.pid # 0 /\ r.live /\ st[r.pid] # "absent" => s[r.pid] # "absent"
    PROVE  RowOK(r, s, n, 0)
BY Zenon DEF RowOK

LEMMA SameTimers ==
    ASSUME TimerInv, timer' = SweptTimer, \A p \in Pids : st[p] = "absent" => st'[p] = "absent"
    PROVE  TimersKept
BY SweptFunctions, SweptTimers, Zenon DEF TimersKept, TimerOK

LEMMA SameAlarms ==
    ASSUME TimerInv, chan' = SweptChan
    PROVE  AlarmsRight
<1>1. \A p \in Pids : ~(chan[p] > chan[p])
  BY DEF TimerInv, Pulses, NoChan
<1> QED
  BY <1>1, SweptChannels, Zenon DEF AlarmsRight

LEMMA SameRows ==
    ASSUME TimerInv, sleepers' = SweptSleepers, st' \in [Pids -> {"absent", "runs", "sleeps"}],
           \A p \in Pids : st'[p] = "absent" => st[p] = "absent"
    PROVE  RowsKept
<1> SUFFICES ASSUME NEW i \in 1 .. TM_MAX_SLEEPERS
             PROVE  /\ RowOK(sleepers'[i], st', now, 0)
                    /\ InUse(i) /\ sleepers'[i] = NoSleeper => sleepers[i].left <= 0
  BY SweptFunctions, Zenon DEF RowsKept
<1>1. /\ SweptSleepers[i] \in Row
      /\ RowOK(SweptSleepers[i], st, now, 0)
      /\ \/ SweptSleepers[i] = sleepers[i]
         \/ SweptSleepers[i] = NoSleeper /\ (InUse(i) => sleepers[i].left <= 0)
  BY SweptRows, Zenon
<1>2. SweptSleepers[i].pid # 0 => SweptSleepers[i].pid \in Pids
  BY <1>1 DEF Row
<1>3. RowOK(sleepers'[i], st', now, 0)
  BY <1>1, <1>2, RowStays, Zenon
<1>4. NoSleeper.pid = 0
  BY DEF NoSleeper
<1> QED
  BY <1>1, <1>3, <1>4, Zenon DEF InUse

LEMMA SameStates ==
    ASSUME TimerInv, st' = SweptSt
    PROVE  /\ st' \in [Pids -> {"absent", "runs", "sleeps"}]
           /\ \A p \in Pids : st'[p] = "absent" <=> st[p] = "absent"
<1>1. SweptSt = [p \in Pids |-> IF p \in WokenPids THEN "runs" ELSE st[p]]
  BY Zenon DEF SweptSt
<1>2. SweptSt \in [Pids -> {"absent", "runs", "sleeps"}]
  BY <1>1, Zenon DEF TimerInv
<1> QED
  BY <1>2, SweptStates, Zenon

LEMMA SleepKeeps ==
    ASSUME TimerInv, NEW p \in Pids, NEW t \in Times, tm_nanosleep(p, t)
    PROVE  Dispatched
<1>1. /\ now' = now /\ quiet' = 0 /\ st[p] = "runs"
      /\ timer' = SweptTimer /\ chan' = SweptChan
  BY Zenon DEF tm_nanosleep, Served
<1>2. SweptSt \in [Pids -> {"absent", "runs", "sleeps"}]
      /\ \A q \in Pids : SweptSt[q] = "absent" <=> st[q] = "absent"
  BY SweptStates, Zenon
<1>3. CASE sleepers' = SweptSleepers /\ st' = SweptSt
  BY <1>1, <1>3, SameStates, SameRows, SameTimers, SameAlarms, Zenon DEF Dispatched
<1>4. CASE \E i : /\ sleepers' = [SweptSleepers EXCEPT ![i] =
                                   [pid |-> p, expiry |-> (now + to_ticks(t)) % Wrap,
                                    left |-> to_ticks(t), live |-> TRUE]]
                  /\ st' = [SweptSt EXCEPT ![p] = "sleeps"]
  <2> DEFINE k == to_ticks(t)
             r == [pid |-> p, expiry |-> (now + k) % Wrap, left |-> k, live |-> TRUE]
  <2>1. PICK i : sleepers' = [SweptSleepers EXCEPT ![i] = r]
    BY <1>4, Zenon
  <2>2. /\ st' \in [Pids -> {"absent", "runs", "sleeps"}]
        /\ \A q \in Pids : st'[q] = "absent" <=> st[q] = "absent"
        /\ st'[p] = "sleeps"
    BY <1>1, <1>2, <1>4
  <2>3. On((now + k) % Wrap, k, now, 0) /\ (now + k) % Wrap \in Nat /\ k \in Nat
    BY TicksAhead, SetAhead, Zenon DEF TimerInv
  <2>4. /\ r.pid = p /\ r.expiry = (now + k) % Wrap /\ r.left = k /\ r.live = TRUE
        /\ r # NoSleeper
    BY DEF NoSleeper
  <2>5. r \in Row
    BY <2>3 DEF Row
  <2>6. RowOK(r, st', now, 0)
    BY <2>2, <2>3, <2>4 DEF RowOK
  <2> HIDE DEF r, k
  <2>7. sleepers' \in [1 .. TM_MAX_SLEEPERS -> Row]
    BY <2>1, <2>5, SweptFunctions, Zenon
  <2>8. ASSUME NEW j \in 1 .. TM_MAX_SLEEPERS
        PROVE  /\ RowOK(sleepers'[j], st', now, 0)
               /\ InUse(j) /\ sleepers'[j] = NoSleeper => sleepers[j].left <= 0
    <3>1. sleepers'[j] = r \/ sleepers'[j] = SweptSleepers[j]
      BY <2>1, SweptFunctions, Zenon
    <3>2. /\ SweptSleepers[j] \in Row
          /\ RowOK(SweptSleepers[j], st, now, 0)
          /\ \/ SweptSleepers[j] = sleepers[j]
             \/ SweptSleepers[j] = NoSleeper /\ (InUse(j) => sleepers[j].left <= 0)
      BY SweptRows, Zenon
    <3>3. SweptSleepers[j].pid # 0 => SweptSleepers[j].pid \in Pids
      BY <3>2 DEF Row
    <3>4. RowOK(SweptSleepers[j], st', now, 0)
      BY <2>2, <3>2, <3>3, RowStays, Zenon
    <3>5. NoSleeper.pid = 0
      BY DEF NoSleeper
    <3> QED
      BY <2>4, <2>6, <3>1, <3>2, <3>4, <3>5, Zenon DEF InUse
  <2>9. RowsKept
    BY <2>2, <2>7, <2>8, Zenon DEF RowsKept
  <2> QED
    BY <1>1, <2>2, <2>9, SameTimers, SameAlarms, Zenon DEF Dispatched
<1> QED
  BY <1>3, <1>4, Zenon DEF tm_nanosleep

LEMMA SetKeeps ==
    ASSUME TimerInv, NEW p \in Pids, NEW t \in Times, NEW iv \in Intervals,
           tm_setitimer(p, t, iv)
    PROVE  Dispatched
<1> DEFINE k == to_ticks(t)
           v == to_ticks(iv)
           r == [expiry |-> (now + k) % Wrap, interval |-> v, left |-> k, own |-> TRUE]
           x == IF t = 0 THEN Disarmed ELSE r
<1>1. /\ now' = now /\ quiet' = 0 /\ timer' = [SweptTimer EXCEPT ![p] = x]
      /\ sleepers' = SweptSleepers /\ st' = SweptSt /\ chan' = SweptChan
  BY Zenon DEF tm_setitimer, Served
<1>2. /\ k \in Nat /\ k + MaxQuiet < Wrap \div 2
      /\ v \in Nat /\ v + MaxQuiet < Wrap \div 2
  BY TicksAhead, Zenon
<1>3. On((now + k) % Wrap, k, now, 0) /\ (now + k) % Wrap \in Nat
  BY <1>2, SetAhead, Zenon DEF TimerInv
<1>4. /\ Disarmed \in Itimer /\ Disarmed.expiry = 0 /\ ~(Disarmed.interval > 0)
      /\ r.expiry = (now + k) % Wrap /\ r.interval = v /\ r.left = k /\ r.own = TRUE
  BY DEF Disarmed, Itimer
<1>5. r \in Itimer
  BY <1>2, <1>3 DEF Itimer
<1>6. x \in Itimer /\ \A s : TimerOK(x, s, now, 0)
  BY <1>2, <1>3, <1>4, <1>5, Zenon DEF TimerOK
<1> HIDE DEF x
<1>7. \A q \in Pids : timer'[q] = SweptTimer[q] \/ timer'[q] = x
  BY <1>1, SweptFunctions, Zenon
<1>8. timer' \in [Pids -> Itimer]
  BY <1>1, <1>6, SweptFunctions, Zenon
<1>9. /\ st' \in [Pids -> {"absent", "runs", "sleeps"}]
      /\ \A q \in Pids : st'[q] = "absent" <=> st[q] = "absent"
  BY <1>1, SameStates, Zenon
<1>10. TimersKept
  BY <1>6, <1>7, <1>8, <1>9, SweptTimers, Zenon DEF TimersKept, TimerOK
<1> QED
  BY <1>1, <1>9, <1>10, SameRows, SameAlarms, Zenon DEF Dispatched

(* Requests that leave sleepers and timers to the sweep. *)
LEMMA PlainKeeps ==
    ASSUME TimerInv, NEW p \in Pids, RegisterChan(p) \/ TakePulse(p) \/ Other(p)
    PROVE  Dispatched
<1>1. /\ now' = now /\ quiet' = 0 /\ timer' = SweptTimer
      /\ sleepers' = SweptSleepers /\ st' = SweptSt
  BY Zenon DEF RegisterChan, TakePulse, Other, Served
<1>2. /\ st' \in [Pids -> {"absent", "runs", "sleeps"}]
      /\ \A q \in Pids : st'[q] = "absent" <=> st[q] = "absent"
  BY <1>1, SameStates, Zenon
<1>3. /\ SweptChan \in [Pids -> Pulses] /\ chan \in [Pids -> Pulses]
      /\ \A q \in Pids : q \notin Fired => SweptChan[q] = chan[q]
  BY SweptChannels, Zenon DEF TimerInv
<1>4. AlarmsRight
  <2>1. CASE RegisterChan(p)
    <3>1. chan[p] = NoChan /\ chan' = [SweptChan EXCEPT ![p] = 0]
      BY <2>1, Zenon DEF RegisterChan
    <3> QED
      BY <1>3, <3>1 DEF AlarmsRight, Pulses, NoChan
  <2>2. CASE TakePulse(p)
    <3>1. chan' = [SweptChan EXCEPT ![p] = @ - 1] /\ SweptChan[p] > 0
      BY <2>2, Zenon DEF TakePulse
    <3> QED
      BY <1>3, <3>1 DEF AlarmsRight, Pulses, NoChan
  <2>3. CASE Other(p)
    BY <2>3, SameAlarms, Zenon DEF Other
  <2> QED
    BY <2>1, <2>2, <2>3, Zenon
<1> QED
  BY <1>1, <1>2, <1>4, SameRows, SameTimers, Zenon DEF Dispatched

LEMMA TerminateKeeps ==
    ASSUME TimerInv, NEW p \in Pids, tm_process_terminate(p)
    PROVE  Dispatched
<1>1. /\ now' = now /\ quiet' = 0
      /\ st' = [SweptSt EXCEPT ![p] = "absent"]
      /\ timer' = [SweptTimer EXCEPT ![p].own = FALSE]
      /\ chan' = [SweptChan EXCEPT ![p] = NoChan]
  BY Zenon DEF tm_process_terminate
<1>2. /\ SweptSt \in [Pids -> {"absent", "runs", "sleeps"}]
      /\ \A q \in Pids : SweptSt[q] = "absent" <=> st[q] = "absent"
  BY SweptStates, Zenon
<1>3. /\ st' \in [Pids -> {"absent", "runs", "sleeps"}]
      /\ st'[p] = "absent"
      /\ \A q \in Pids : q # p => (st'[q] = "absent" <=> st[q] = "absent")
  BY <1>1, <1>2
<1>4. RowsKept
  <2>1. sleepers' = [i \in 1 .. TM_MAX_SLEEPERS |->
                      IF SweptSleepers[i].pid = p THEN [SweptSleepers[i] EXCEPT !.live = FALSE]
                      ELSE SweptSleepers[i]]
    BY Zenon DEF tm_process_terminate, TimerInv
  <2>2. ASSUME NEW i \in 1 .. TM_MAX_SLEEPERS
        PROVE  /\ sleepers'[i] \in Row
               /\ RowOK(sleepers'[i], st', now, 0)
               /\ InUse(i) /\ sleepers'[i] = NoSleeper => sleepers[i].left <= 0
    <3>1. /\ SweptSleepers[i] \in Row
          /\ RowOK(SweptSleepers[i], st, now, 0)
          /\ \/ SweptSleepers[i] = sleepers[i]
             \/ SweptSleepers[i] = NoSleeper /\ (InUse(i) => sleepers[i].left <= 0)
      BY SweptRows, Zenon
    <3>2. NoSleeper.pid = 0
      BY DEF NoSleeper
    <3>3. CASE SweptSleepers[i].pid = p
      <4>1. sleepers'[i] = [SweptSleepers[i] EXCEPT !.live = FALSE]
        BY <2>1, <3>3, Zenon
      <4>2. /\ sleepers'[i] \in Row /\ sleepers'[i].pid = SweptSleepers[i].pid
            /\ sleepers'[i].expiry = SweptSleepers[i].expiry
            /\ sleepers'[i].left = SweptSleepers[i].left /\ sleepers'[i].live = FALSE
        BY <3>1, <4>1 DEF Row
      <4> QED
        BY <3>1, <3>2, <4>2, Zenon DEF RowOK, InUse
    <3>4. CASE SweptSleepers[i].pid # p
      <4>1. sleepers'[i] = SweptSleepers[i]
        BY <2>1, <3>4, Zenon
      <4>2. SweptSleepers[i].pid # 0 => SweptSleepers[i].pid \in Pids
        BY <3>1 DEF Row
      <4> QED
        BY <1>3, <3>1, <3>2, <3>4, <4>1, <4>2, RowStays, Zenon DEF InUse
    <3> QED
      BY <3>3, <3>4, Zenon
  <2> QED
    BY <1>3, <2>1, <2>2, Zenon DEF RowsKept
<1>5. TimersKept
  <2>1. ASSUME NEW q \in Pids
        PROVE  timer'[q] \in Itimer /\ TimerOK(timer'[q], st'[q], now, 0)
    <3>1. SweptTimer[q] \in Itimer /\ TimerOK(SweptTimer[q], st[q], now, 0)
      BY SweptTimers, Zenon
    <3>2. CASE q # p
      <4>1. timer'[q] = SweptTimer[q]
        BY <1>1, <3>2, SweptFunctions
      <4> QED
        BY <1>3, <3>1, <3>2, <4>1, Zenon DEF TimerOK
    <3>3. CASE q = p
      <4>1. timer'[q] = [SweptTimer[q] EXCEPT !.own = FALSE]
        BY <1>1, <3>3, SweptFunctions
      <4>2. timer'[q] \in Itimer /\ timer'[q].interval = SweptTimer[q].interval
        BY <3>1, <4>1 DEF Itimer
      <4> QED
        BY <1>3, <3>1, <3>3, <4>2, Zenon DEF TimerOK
    <3> QED
      BY <3>2, <3>3, Zenon
  <2>2. timer' = [q \in Pids |-> timer'[q]]
    BY <1>1, SweptFunctions
  <2> QED
    BY <2>1, <2>2, Zenon DEF TimersKept
<1>6. AlarmsRight
  <2>1. /\ SweptChan \in [Pids -> Pulses] /\ chan \in [Pids -> Pulses]
        /\ \A q \in Pids : q \notin Fired => SweptChan[q] = chan[q]
    BY SweptChannels, Zenon DEF TimerInv
  <2> QED
    BY <1>1, <2>1 DEF AlarmsRight, Pulses, NoChan
<1> QED
  BY <1>1, <1>4, <1>5, <1>6, Zenon DEF Dispatched

LEMMA RegisterKeeps ==
    ASSUME TimerInv, NEW p \in Pids, tm_process_register(p)
    PROVE  Dispatched
<1>1. /\ now' = now /\ quiet' = 0
      /\ st' = [SweptSt EXCEPT ![p] = "runs"]
      /\ timer' = [SweptTimer EXCEPT ![p] = Disarmed]
      /\ sleepers' = SweptSleepers /\ chan' = SweptChan
  BY Zenon DEF tm_process_register, ClearTimer
<1>2. /\ SweptSt \in [Pids -> {"absent", "runs", "sleeps"}]
      /\ \A q \in Pids : SweptSt[q] = "absent" <=> st[q] = "absent"
  BY SweptStates, Zenon
<1>3. /\ st' \in [Pids -> {"absent", "runs", "sleeps"}]
      /\ \A q \in Pids : st'[q] = "absent" => st[q] = "absent"
      /\ \A q \in Pids : q # p => (st'[q] = "absent" <=> st[q] = "absent")
  BY <1>1, <1>2
<1>4. /\ Disarmed \in Itimer /\ Disarmed.expiry = 0 /\ ~(Disarmed.interval > 0)
  BY DEF Disarmed, Itimer
<1>5. TimersKept
  <2>1. timer' \in [Pids -> Itimer]
    BY <1>1, <1>4, SweptFunctions, Zenon
  <2>2. \A q \in Pids : (q = p /\ timer'[q] = Disarmed) \/ (q # p /\ timer'[q] = SweptTimer[q])
    BY <1>1, SweptFunctions, Zenon
  <2> QED
    BY <1>3, <1>4, <2>1, <2>2, SweptTimers, Zenon DEF TimersKept, TimerOK
<1> QED
  BY <1>1, <1>3, <1>5, SameRows, SameAlarms, Zenon DEF Dispatched

LEMMA DispatchKeeps ==
    ASSUME TimerInv, Dispatch
    PROVE  Dispatched
BY SleepKeeps, SetKeeps, PlainKeeps, TerminateKeeps, RegisterKeeps, Zenon DEF Dispatch

-----------------------------------------------------------------------------
(* Time passes. *)

LEMMA LaterType ==
    ASSUME NEW l \in Int
    PROVE  Later(l) \in Int /\ (l - 1 >= -MaxQuiet => Later(l) = l - 1)
<1> DEFINE a == l - 1
           b == -MaxQuiet
<1>1. a \in Int /\ b \in Int
  BY TimerAssumption
<1>2. \E x \in {a, b} : \A y \in {a, b} : x >= y
  BY <1>1
<1>3. /\ Max({a, b}) \in {a, b} /\ \A y \in {a, b} : Max({a, b}) >= y
  BY <1>2, Zenon DEF Max
<1> QED
  BY <1>1, <1>3 DEF Later

LEMMA NextTick ==
    ASSUME now \in 0 .. Wrap - 1, quiet \in 0 .. MaxQuiet, quiet < MaxQuiet
    PROVE  /\ (now + 1) % Wrap \in 0 .. Wrap - 1
           /\ (now + 1) % Wrap = IF now + 1 = Wrap THEN 0 ELSE now + 1
           /\ \A e, l : On(e, l, now, quiet) => On(e, Later(l), (now + 1) % Wrap, quiet + 1)
<1>1. Wrap \in Nat \ {0} /\ MaxQuiet \in Nat /\ now \in Nat /\ quiet \in Nat
  BY TimerAssumption
<1>2. (now + 1) % Wrap = IF now + 1 = Wrap THEN 0 ELSE now + 1
  <2>1. CASE now + 1 = Wrap
    <3>1. 0 \in 0 .. Wrap - 1
      BY <1>1
    <3>2. (0 + Wrap) % Wrap = 0
      BY <1>1, <3>1, ModFacts
    <3> QED
      BY <1>1, <2>1, <3>2
  <2>2. CASE now + 1 # Wrap
    BY <1>1, <2>2, ModFacts
  <2> QED
    BY <2>1, <2>2
<1>3. ASSUME NEW e, NEW l, On(e, l, now, quiet)
      PROVE  On(e, Later(l), (now + 1) % Wrap, quiet + 1)
  <2>1. /\ e \in 0 .. Wrap - 1 /\ l \in Int /\ e \in {now + l, now + l - Wrap, now + l + Wrap}
        /\ l >= -quiet /\ l + MaxQuiet < Wrap \div 2 /\ MaxQuiet < Wrap \div 2
    BY <1>3, Zenon DEF On
  <2>2. l - 1 >= -MaxQuiet
    BY <1>1, <2>1
  <2>3. Later(l) = l - 1
    BY <2>1, <2>2, LaterType
  <2>4. Wrap \div 2 \in Nat /\ Wrap \div 2 <= Wrap
    BY <1>1
  <2>5. CASE now + 1 = Wrap
    BY <1>1, <1>2, <2>1, <2>3, <2>4, <2>5 DEF On
  <2>6. CASE now + 1 # Wrap
    BY <1>1, <1>2, <2>1, <2>3, <2>4, <2>6 DEF On
  <2> QED
    BY <2>5, <2>6
<1>4. (now + 1) % Wrap \in 0 .. Wrap - 1
  BY <1>1, <1>2
<1> QED
  BY <1>2, <1>3, <1>4

LEMMA TickKeeps ==
    ASSUME TimerInv, Tick
    PROVE  /\ TimerInv'
           /\ \A i \in DOMAIN sleepers : InUse(i) => sleepers'[i] # NoSleeper
           /\ chan' = chan
<1>1. /\ quiet < MaxQuiet /\ now' = (now + 1) % Wrap /\ quiet' = quiet + 1
      /\ st' = st /\ chan' = chan
      /\ now \in 0 .. Wrap - 1 /\ quiet \in 0 .. MaxQuiet
      /\ DOMAIN sleepers = 1 .. TM_MAX_SLEEPERS
  BY Zenon DEF Tick, TimerInv
<1>2. /\ now' \in 0 .. Wrap - 1 /\ quiet' \in 0 .. MaxQuiet
      /\ \A e, l : On(e, l, now, quiet) => On(e, Later(l), now', quiet')
  <2>1. quiet + 1 \in 0 .. MaxQuiet
    BY <1>1, TimerAssumption
  <2> QED
    BY <1>1, <2>1, NextTick, Zenon
<1>3. ASSUME NEW i \in 1 .. TM_MAX_SLEEPERS
      PROVE  /\ sleepers'[i] \in Row /\ RowOK(sleepers'[i], st, now', quiet')
             /\ InUse(i) => sleepers'[i] # NoSleeper
  <2>1. sleepers[i] \in Row /\ RowOK(sleepers[i], st, now, quiet)
    BY Zenon DEF TimerInv
  <2>2. NoSleeper \in Row /\ NoSleeper.pid = 0
    BY DEF NoSleeper, Row
  <2>3. CASE ~InUse(i)
    <3>1. sleepers'[i] = NoSleeper
      BY <1>1, <2>3, Zenon DEF Tick
    <3> QED
      BY <2>2, <2>3, <3>1, Zenon DEF RowOK
  <2>4. CASE InUse(i)
    <3>1. sleepers'[i] = [sleepers[i] EXCEPT !.left = Later(sleepers[i].left)]
      BY <1>1, <2>4, Zenon DEF Tick
    <3>2. Later(sleepers[i].left) \in Int
      BY <2>1, LaterType DEF Row
    <3>3. /\ sleepers'[i] \in Row /\ sleepers'[i].pid = sleepers[i].pid
          /\ sleepers'[i].expiry = sleepers[i].expiry /\ sleepers'[i].live = sleepers[i].live
          /\ sleepers'[i].left = Later(sleepers[i].left)
      BY <2>1, <3>1, <3>2 DEF Row
    <3>4. sleepers'[i] # NoSleeper
      BY <2>2, <2>4, <3>3, Zenon DEF InUse
    <3> QED
      BY <1>2, <2>1, <3>3, <3>4, Zenon DEF RowOK
  <2> QED
    BY <2>3, <2>4, Zenon
<1>4. ASSUME NEW p \in Pids
      PROVE  timer'[p] \in Itimer /\ TimerOK(timer'[p], st[p], now', quiet')
  <2>1. timer[p] \in Itimer /\ TimerOK(timer[p], st[p], now, quiet)
    BY Zenon DEF TimerInv
  <2>2. CASE ~Armed(p)
    <3>1. timer'[p] = timer[p]
      BY <2>2, Zenon DEF Tick
    <3> QED
      BY <2>1, <2>2, <3>1, Zenon DEF TimerOK, Armed
  <2>3. CASE Armed(p)
    <3>1. timer'[p] = [timer[p] EXCEPT !.left = Later(timer[p].left)]
      BY <2>3, Zenon DEF Tick
    <3>2. Later(timer[p].left) \in Int
      BY <2>1, LaterType DEF Itimer
    <3>3. /\ timer'[p] \in Itimer /\ timer'[p].interval = timer[p].interval
          /\ timer'[p].expiry = timer[p].expiry /\ timer'[p].own = timer[p].own
          /\ timer'[p].left = Later(timer[p].left)
      BY <2>1, <3>1, <3>2 DEF Itimer
    <3> QED
      BY <1>2, <2>1, <3>3, Zenon DEF TimerOK
  <2> QED
    BY <2>2, <2>3, Zenon
<1>5. /\ sleepers' = [i \in 1 .. TM_MAX_SLEEPERS |-> sleepers'[i]]
      /\ timer' = [p \in Pids |-> timer'[p]]
  BY <1>1, Zenon DEF Tick
<1>6. sleepers' \in [1 .. TM_MAX_SLEEPERS -> Row] /\ timer' \in [Pids -> Itimer]
  BY <1>3, <1>4, <1>5, Zenon
<1>7. st' \in [Pids -> {"absent", "runs", "sleeps"}] /\ chan' \in [Pids -> Pulses]
  BY <1>1, Zenon DEF TimerInv
<1> QED
  BY <1>1, <1>2, <1>3, <1>4, <1>6, <1>7, Zenon DEF TimerInv

-----------------------------------------------------------------------------
(* The invariant and the theorems. *)

LEMMA TimerInit ==
    ASSUME Init
    PROVE  TimerInv
<1>1. /\ NoSleeper \in Row /\ NoSleeper.pid = 0
      /\ Disarmed \in Itimer /\ Disarmed.expiry = 0 /\ ~(Disarmed.interval > 0)
      /\ NoChan \in Pulses
  BY DEF NoSleeper, Row, Disarmed, Itimer, Pulses
<1>2. now \in 0 .. Wrap - 1 /\ quiet \in 0 .. MaxQuiet
  BY TimerAssumption DEF Init
<1> QED
  BY <1>1, <1>2, Zenon DEF Init, TimerInv, RowOK, TimerOK

(* A step keeps the invariant; what it wakes and fires was due. *)
LEMMA TimerStep ==
    ASSUME TimerInv, [Next]_vars
    PROVE  /\ TimerInv'
           /\ [\A i \in DOMAIN sleepers :
                 InUse(i) /\ sleepers'[i] = NoSleeper => sleepers[i].left <= 0]_vars
           /\ [\A p \in Pids : chan'[p] > chan[p] /\ chan[p] # NoChan
                                 => timer[p].own /\ timer[p].left <= 0]_vars
<1>1. CASE Tick
  <2>1. \A p \in Pids : ~(chan[p] > chan[p])
    BY DEF TimerInv, Pulses, NoChan
  <2> QED
    BY <1>1, <2>1, TickKeeps, Zenon
<1>2. CASE Dispatch
  <2>1. now' = now /\ quiet' = 0 /\ RowsKept /\ TimersKept /\ AlarmsRight
    BY <1>2, DispatchKeeps, Zenon DEF Dispatched
  <2>2. 0 \in 0 .. MaxQuiet
    BY TimerAssumption
  <2>3. TimerInv'
    BY <2>1, <2>2, Zenon DEF TimerInv, RowsKept, TimersKept, AlarmsRight
  <2>4. \A i \in DOMAIN sleepers :
           InUse(i) /\ sleepers'[i] = NoSleeper => sleepers[i].left <= 0
    BY <2>1, Zenon DEF TimerInv, RowsKept
  <2>5. \A p \in Pids : chan'[p] > chan[p] /\ chan[p] # NoChan
                          => timer[p].own /\ timer[p].left <= 0
    BY <2>1, SweptTimers, Zenon DEF AlarmsRight
  <2> QED
    BY <2>3, <2>4, <2>5, Zenon
<1>3. CASE UNCHANGED vars
  BY <1>3, Zenon DEF vars, TimerInv
<1> QED
  BY <1>1, <1>2, <1>3, Zenon DEF Next

(* For every width of the counter, with times that fit into half of it: a  *)
(* request leaves no sleeper and no timer of a living process overdue.     *)
THEOREM NothingIsOverdue == Spec => []NothingOverdue
<1>1. Init => TimerInv
  BY TimerInit, Zenon
<1>2. TimerInv /\ [Next]_vars => TimerInv'
  BY TimerStep, Zenon
<1>3. TimerInv => NothingOverdue
  <2> SUFFICES ASSUME TimerInv, quiet = 0
               PROVE  /\ \A i \in DOMAIN sleepers : InUse(i) => sleepers[i].left >= 0
                      /\ \A p \in Pids : Armed(p) /\ st[p] # "absent" => timer[p].left >= 0
    BY Zenon DEF NothingOverdue
  <2>1. \A e, l, n : On(e, l, n, 0) => l >= 0
    BY DEF On
  <2>2. \A i \in DOMAIN sleepers : InUse(i) => On(sleepers[i].expiry, sleepers[i].left, now, 0)
    BY Zenon DEF TimerInv, RowOK, InUse
  <2>3. \A p \in Pids : Armed(p) /\ st[p] # "absent" => On(timer[p].expiry, timer[p].left, now, 0)
    BY Zenon DEF TimerInv, TimerOK, Armed
  <2> QED
    BY <2>1, <2>2, <2>3, Zenon
<1> QED
  BY <1>1, <1>2, <1>3, PTL DEF Spec

(* Under the same bounds tm_timer_sweep answers no sleeper before the time *)
(* it asked for has passed, however often the counter wrapped.             *)
THEOREM NobodyWakesEarly == Spec => SleepsFullTime
<1>1. Init => TimerInv
  BY TimerInit, Zenon
<1>2. TimerInv /\ [Next]_vars =>
        /\ TimerInv'
        /\ [\A i \in DOMAIN sleepers :
              InUse(i) /\ sleepers'[i] = NoSleeper => sleepers[i].left <= 0]_vars
  BY TimerStep, Zenon
<1> QED
  BY <1>1, <1>2, PTL DEF Spec, SleepsFullTime

(* Under the same bounds a SIGALRM pulse comes only from a timer that the  *)
(* program now running under the pid armed, and that is due.               *)
THEOREM AlarmsAreOwn == Spec => AlarmIsOwnAndDue
<1>1. Init => TimerInv
  BY TimerInit, Zenon
<1>2. TimerInv /\ [Next]_vars =>
        /\ TimerInv'
        /\ [\A p \in Pids : chan'[p] > chan[p] /\ chan[p] # NoChan
                              => timer[p].own /\ timer[p].left <= 0]_vars
  BY TimerStep, Zenon
<1> QED
  BY <1>1, <1>2, PTL DEF Spec, AlarmIsOwnAndDue
=============================================================================
