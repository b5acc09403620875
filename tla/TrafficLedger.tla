--------------------------- MODULE TrafficLedger ---------------------------
(***************************************************************************)
(* The traffic accounting of internal/proxy/traffic and internal/db.  Once *)
(* a minute the sampler reads the byte counters of a modem and of a proxy  *)
(* instance and adds what is new to the row of the minute; at full hours   *)
(* and at local midnight it sums rows into coarser ones, and the charts    *)
(* are drawn from those.                                                   *)
(*                                                                         *)
(* Times are minutes; an hour, a day and a week have few of them.  A table *)
(* maps the start of a period to the bytes of its row, 0 for no row.  Of   *)
(* the two directions one is modelled; of the proxy's rows, which no chart *)
(* reads, the sum; weeks and months, whose rows nothing reads, not at all. *)
(***************************************************************************)
EXTENDS Integers, FiniteSets, FiniteSetsExt

CONSTANTS
  Hour,        \* minutes of an hour
  Day, Week,   \* minutes of a day and of a week
  Zones,       \* the zones the process may run in, in minutes east of UTC
  Origin, Horizon, \* bounds: the first and the last minute
  MaxBytes,    \* bound: bytes that move
  MaxFaults,   \* bound: failures, resets, exits, and minutes the sampler is behind
  None, Running

ASSUME LedgerAssumption ==
  /\ Hour \in Nat \ {0} /\ Day \in Nat /\ Day % Hour = 0 /\ Day >= 2 * Hour
  /\ Week \in Nat /\ Week % Day = 0 /\ Week >= 2 * Day
  /\ \A z \in Zones : z \in Int /\ z > -Day /\ z < Day
  /\ Origin \in Nat /\ Origin >= Day /\ Origin % Day = 0 /\ Horizon \in Nat
  /\ Horizon >= Origin /\ MaxBytes \in Nat /\ MaxFaults \in Nat
  /\ None \notin Nat /\ Running \notin Nat /\ None # Running

VARIABLES
  zone, now,         \* time.Local and the clock
  phase, next,       \* where the sampler is; the full minute it waits for or works on
  lastIface,         \* its baseline of the modem's counter
  point,             \* the point of the modem in the sample it works on
  minute, hour, day, \* traffic_minute, traffic_hour, traffic_day
  proxyRows,         \* sum of the rows of the proxy instance
  counter, ready,    \* the modem's counter, and whether the worker has its network
  server,            \* the bytes of the instance's running server
  lastTraffic,       \* Manager.lastTraffic of the instance
  listed,            \* the server a snapshot has listed: running, or the bytes it left with
  moved, proxyMoved, \* bytes that really moved
  written,           \* what was ever added to the row of each minute
  disturbed,         \* full minutes at which the sampler was down, behind, or failed
  lossy,             \* a baseline or a point has been given up
  overtaken,         \* a listed server has exited before it was read
  faults

samplerVars == <<phase, next, lastIface, point>>
tables == <<minute, hour, day, proxyRows, written>>
proxyVars == <<server, lastTraffic, listed, overtaken>>
modemVars == <<counter, ready, moved>>
vars == <<zone, now, samplerVars, tables, proxyVars, modemVars, proxyMoved,
          disturbed, lossy, faults>>

Times == Origin - Day..Horizon
Sum(table, from, to) == MapThenSumSet(LAMBDA t : table[t], {t \in Times : from <= t /\ t < to})

Truncate(t, period) == (t \div period) * period
\* startOfTrafficDay: the local day of t.
LocalDay(t) == Truncate(t + zone, Day) - zone

Fault == faults < MaxFaults /\ faults' = faults + 1

-----------------------------------------------------------------------------
Init ==
  /\ zone \in Zones /\ now = Origin
  /\ phase = "wait" /\ next = Origin + 1
  /\ lastIface = 0 /\ point = None
  /\ minute = [t \in Times |-> 0] /\ hour = minute /\ day = minute /\ written = minute
  /\ proxyRows = 0
  /\ counter = 0 /\ ready = TRUE
  /\ server = 0 /\ lastTraffic = 0 /\ listed = None
  /\ moved = 0 /\ proxyMoved = 0
  /\ disturbed = {} /\ lossy = FALSE /\ overtaken = FALSE /\ faults = 0

-----------------------------------------------------------------------------
(* The clock, the modem and the proxy.                                     *)

\* A minute passes.  When the sampler has not taken up the last one or is still
\* at work, loop goes on from the clock and skips this one.
Tick ==
  /\ now < Horizon /\ now' = now + 1
  /\ IF phase = "wait" /\ now < next THEN UNCHANGED <<disturbed, faults>>
     ELSE /\ disturbed' = disturbed \cup {now + 1}
          /\ IF phase = "down" THEN UNCHANGED faults ELSE Fault
  /\ UNCHANGED <<zone, samplerVars, tables, proxyVars, modemVars, proxyMoved, lossy>>

Move ==
  /\ ready /\ moved + proxyMoved < MaxBytes
  /\ counter' = counter + 1 /\ moved' = moved + 1
  /\ UNCHANGED <<zone, now, samplerVars, tables, proxyVars, ready, proxyMoved,
                 disturbed, lossy, faults>>

\* The modem restarts or its data session is rebuilt: it counts from zero.
ResetCounter ==
  /\ counter > 0 /\ Fault /\ counter' = 0 /\ lossy' = TRUE
  /\ UNCHANGED <<zone, now, samplerVars, tables, proxyVars, ready, moved, proxyMoved,
                 disturbed>>

\* The worker loses its network, or has it again.
Network ==
  /\ ready' = ~ready
  /\ IF ready THEN Fault ELSE UNCHANGED faults
  /\ UNCHANGED <<zone, now, samplerVars, tables, proxyVars, counter, moved, proxyMoved,
                 disturbed, lossy>>

MoveProxied ==
  /\ server # None /\ moved + proxyMoved < MaxBytes
  /\ server' = server + 1 /\ proxyMoved' = proxyMoved + 1
  /\ UNCHANGED <<zone, now, samplerVars, tables, lastTraffic, listed, overtaken, modemVars,
                 disturbed, lossy, faults>>

\* watchServerExit of Manager, after Stop, Restart or a failure of the server.
ServerExits ==
  /\ server # None /\ Fault
  /\ server' = None /\ lastTraffic' = 0
  /\ listed' = IF listed = Running THEN server ELSE listed
  /\ overtaken' = (overtaken \/ listed = Running)
  /\ UNCHANGED <<zone, now, samplerVars, tables, modemVars, proxyMoved, disturbed, lossy>>

\* Manager.Start: a new server, whose statistics are zero.
ServerStarts ==
  /\ server = None /\ phase # "down" /\ server' = 0
  /\ UNCHANGED <<zone, now, samplerVars, tables, lastTraffic, listed, overtaken, modemVars,
                 proxyMoved, disturbed, lossy, faults>>

-----------------------------------------------------------------------------
(* One sample.                                                             *)

Delta(cur, last) == IF cur < last THEN 0 ELSE cur - last

\* Mutant: a reading that fails takes the baseline with it.
ForgetBaseline == lastIface' = None

KeepBaseline == UNCHANGED lastIface

\* The counter of the modem is not looked at, cannot be read, or is read.
ReadIface ==
  \/ /\ ~ready /\ lastIface' = None /\ point' = None /\ lossy' = TRUE
     /\ UNCHANGED faults
  \/ /\ ready /\ Fault /\ KeepBaseline /\ point' = None /\ UNCHANGED lossy
  \/ /\ ready /\ lastIface' = counter
     /\ point' = IF lastIface = None THEN None ELSE Delta(counter, lastIface)
     /\ UNCHANGED <<lossy, faults>>

\* The timer fires: the modem is read, and the running instances are listed.
BeginSample ==
  /\ phase = "wait" /\ now >= next /\ phase' = "sampling"
  /\ ReadIface
  /\ listed' = IF server = None THEN None ELSE Running
  /\ UNCHANGED <<zone, now, next, tables, server, lastTraffic, overtaken, modemVars,
                 proxyMoved, disturbed>>

\* SnapshotAndResetTraffic reads what it has listed, whoever has exited since.
Listed == IF listed = Running THEN server ELSE listed
ProxyDelta == IF listed = None THEN 0 ELSE Delta(Listed, lastTraffic)

\* The loop takes the next minute of the clock.
Reschedule == phase' = "wait" /\ next' = now + 1

\* UpsertTrafficMinute; when it fails the sample ends, its points are lost and
\* nothing is summed.
Write ==
  /\ phase = "sampling"
  /\ lastTraffic' = IF listed = None THEN lastTraffic ELSE Listed
  /\ listed' = None /\ point' = None
  /\ \/ LET row == next - 1
            new == IF point = None THEN 0 ELSE point
        IN /\ minute' = [minute EXCEPT ![row] = @ + new]
           /\ written' = [written EXCEPT ![row] = @ + new]
           /\ proxyRows' = proxyRows + ProxyDelta
           /\ phase' = "summing"
           /\ UNCHANGED <<next, disturbed, lossy, faults>>
     \/ /\ point # None \/ ProxyDelta > 0
        /\ Fault /\ Reschedule
        /\ disturbed' = disturbed \cup {next} /\ lossy' = TRUE
        /\ UNCHANGED <<minute, written, proxyRows>>
  /\ UNCHANGED <<zone, now, lastIface, hour, day, server, overtaken, modemVars, proxyMoved>>

PreviousHour == Truncate(next, Hour) - Hour

\* RollupToHour.
HourSummed(hours, minutes) ==
  [hours EXCEPT ![PreviousHour] = Sum(minutes, PreviousHour, PreviousHour + Hour)]

\* Full hours and midnights are those of the local clock.
FullHour == (next + zone) % Hour = 0
Midnight == (next + zone) % Day = 0

\* time.Truncate knows no zone: the day is that of UTC.
PreviousDay == Truncate(next, Day) - Day

\* Mutant: the day is summed from the hours as they were before.
SummedFrom(before, after) == before

\* The rollups run in this order.
SumsOf(before, after) == after

\* RollupToDay.
DaySummed(days, hours) == [days EXCEPT ![PreviousDay] = Sum(hours, PreviousDay, PreviousDay + Day)]

\* CleanupBefore: minutes are kept for a day, hours for a week.
Kept(table, age) == [t \in Times |-> IF t < next - age THEN 0 ELSE table[t]]

\* The rollups and the cleanup of the minute, of which each may fail unnoticed.
Rollup ==
  /\ phase = "summing" /\ Reschedule
  /\ \E failed \in SUBSET {"hour", "day", "cleanup"} :
       LET due(step, when) == when /\ step \notin failed
           hours == IF due("hour", FullHour) THEN HourSummed(hour, minute) ELSE hour
           days  == IF due("day", Midnight) THEN DaySummed(day, SumsOf(hour, hours)) ELSE day
           clean == due("cleanup", FullHour)
       IN /\ minute' = IF clean THEN Kept(minute, Day) ELSE minute
          /\ hour' = IF clean THEN Kept(hours, Week) ELSE hours
          /\ day' = days
          /\ IF failed = {} THEN UNCHANGED <<disturbed, faults>>
             ELSE /\ FullHour /\ ("day" \in failed => Midnight) /\ Fault
                  /\ disturbed' = disturbed \cup {next}
  /\ UNCHANGED <<zone, now, lastIface, point, proxyRows, written, proxyVars, modemVars,
                 proxyMoved, lossy>>

-----------------------------------------------------------------------------
(* The process ends at any moment, and starts again.                       *)

Crash ==
  /\ phase # "down" /\ Fault /\ phase' = "down"
  /\ disturbed' = IF now >= next THEN disturbed \cup {next} ELSE disturbed
  /\ lastIface' = None /\ point' = None /\ lossy' = TRUE
  /\ server' = None /\ lastTraffic' = 0 /\ listed' = None
  /\ UNCHANGED <<zone, now, next, tables, overtaken, modemVars, proxyMoved>>

\* New and Start: primeIfaceBaselines reads the counter, if it can.
Restart ==
  /\ phase = "down" /\ Reschedule
  /\ \/ ready /\ lastIface' = counter
     \/ UNCHANGED lastIface
  /\ UNCHANGED <<zone, now, point, tables, proxyVars, modemVars, proxyMoved, disturbed,
                 lossy, faults>>

-----------------------------------------------------------------------------
Next ==
  \/ Tick \/ Move \/ ResetCounter \/ Network
  \/ MoveProxied \/ ServerExits \/ ServerStarts
  \/ BeginSample \/ Write \/ Rollup
  \/ Crash \/ Restart

Spec == Init /\ [][Next]_vars

-----------------------------------------------------------------------------
(* What GetTrafficAnalysisWithChart shows.                                 *)

\* The chart of a day: the rows of the hours, and the minutes of this hour.
DayChart(h) ==
  hour[h] + IF h = Truncate(now, Hour) THEN Sum(minute, h, now + 1) ELSE 0

\* The chart of a week: the rows of days that begin on this local day, and for
\* today those of its hours.
WeekChart(d) ==
  Sum(day, d, d + Day) + IF d = LocalDay(now) THEN Sum(hour, d, now + 1) ELSE 0

HoursShown == {h \in Times : h % Hour = 0 /\ Truncate(now - Day, Hour) <= h /\ h <= now}
DaysShown == {d \in Times : LocalDay(d) = d /\ LocalDay(now - Week) <= d /\ d <= now}

-----------------------------------------------------------------------------
Tables == [Times -> 0..MaxBytes]

TypeOK ==
  /\ zone \in Zones /\ now \in Origin..Horizon /\ next \in Origin + 1..Horizon + 1
  /\ phase \in {"wait", "sampling", "summing", "down"}
  /\ lastIface \in 0..MaxBytes \cup {None} /\ point \in 0..MaxBytes \cup {None}
  /\ minute \in Tables /\ hour \in Tables /\ day \in Tables /\ written \in Tables
  /\ proxyRows \in Nat /\ lastTraffic \in 0..MaxBytes
  /\ counter \in 0..MaxBytes /\ ready \in BOOLEAN
  /\ server \in 0..MaxBytes \cup {None} /\ listed \in 0..MaxBytes \cup {None, Running}
  /\ moved \in Nat /\ proxyMoved \in Nat /\ moved + proxyMoved <= MaxBytes
  /\ disturbed \subseteq Times /\ lossy \in BOOLEAN /\ overtaken \in BOOLEAN
  /\ faults \in 0..MaxFaults

\* All that was ever added to the rows of minutes.
Written == MapThenSumSet(LAMBDA t : written[t], Times)

Pending == IF point = None THEN 0 ELSE point
Unread == IF lastIface = None THEN 0 ELSE Delta(counter, lastIface)

\* No byte of the modem is counted twice, whatever is reset, fails or crashes,
\* and none of the proxy unless its server exits while a snapshot is taken.
CountedOnce ==
  /\ Written + Pending + Unread <= moved
  /\ overtaken \/ proxyRows <= proxyMoved

\* Minutes the sampler skips and counters it cannot read lose no byte of the
\* modem: only a lost network, a reset, a failed write and a restart do.
NothingLost ==
  ~lossy => lastIface # None /\ Written + Pending + counter - lastIface = moved

\* The bytes are accounted for at every moment.
Consistent == TypeOK /\ CountedOnce /\ NothingLost

\* The sampler has done what the clock asks.
CaughtUp == phase = "wait" /\ next = now + 1

\* The full hour of the local clock at which an hour of UTC is summed: its end,
\* in a zone of whole hours.
SummedAt(h) == h + Hour + ((-zone) % Hour)

\* The hours from h to before e were all summed on their time.
Undisturbed(h, e) == \A f \in disturbed : h < f /\ f <= e => (f + zone) % Hour # 0

\* The chart of a day shows the present hour, and every other from the full hour
\* at which it is summed, as it was written, unless the sampler was not there,
\* or failed, at that full hour.
DayChartExact ==
  CaughtUp =>
    \A h \in HoursShown :
      /\ (now < h + Hour \/ SummedAt(h) <= now) /\ SummedAt(h) \notin disturbed
           => DayChart(h) = Sum(written, h, h + Hour)
      /\ DayChart(h) <= Sum(written, h, h + Hour)

\* The same of the days of the other charts: in UTC every bucket is exact; in
\* any zone a row covers the day of UTC before last midnight, and no hour is
\* shown twice.
WeekChartExact ==
  CaughtUp =>
    /\ \A d \in DaysShown :
         zone = 0 /\ d + Day <= now /\ Undisturbed(d, d + Day)
           => WeekChart(d) = Sum(written, d, d + Day)
    /\ \A q \in Times :
         /\ q % Day = 0 /\ Undisturbed(q, LocalDay(now))
         /\ q + Day <= Truncate(LocalDay(now), Day)
         => day[q] = Sum(written, q, q + Day)
    /\ MapThenSumSet(WeekChart, DaysShown) <= Written

\* The charts show what was written, in the periods they name (traffic.go,
\* traffic_rollup.go).
ChartsExact == DayChartExact /\ WeekChartExact
=============================================================================
