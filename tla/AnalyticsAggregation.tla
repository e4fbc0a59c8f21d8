-------------------------- MODULE AnalyticsAggregation --------------------------
(* The daily_analytics_summary rows of one QR code, and the jobs that write    *)
(* them from scan_logs: the incremental job over the last Window ticks, the    *)
(* daily reconciliation, and a reconciliation of a day of the caller's choice. *)
(* The scan-log workers insert a scan some time after the redirect that        *)
(* stamped it, the jobs run in tasks of one event loop, and a job reads the    *)
(* clock before its statement runs.                                            *)
(*                                                                             *)
(* INSERT ... SELECT ... ON DUPLICATE KEY UPDATE reads scan_logs with locks and*)
(* writes its rows in one transaction: it is one step, or it fails with no     *)
(* effect.  A day without a row is a row of zeros, which no SELECT produces.   *)
EXTENDS Integers, FiniteSets

CONSTANTS
    Scans,
    Ip,          \* the address each scan came from, or NoIp
    NoIp,
    DayLength,   \* ticks of the clock in a day
    Window,      \* window_minutes
    Interval,    \* analytics_cron_interval_minutes
    DailyAt,     \* when in the day the reconciliation is due
    Horizon      \* bound on the clock

ASSUME AnalyticsAssumption ==
    /\ IsFiniteSet(Scans)
    /\ DayLength \in Nat \ {0} /\ Window \in Nat \ {0}
    /\ Interval \in Nat \ {0}
    /\ DailyAt \in 0 .. DayLength - 1
    /\ Horizon \in Nat

Never == -1

VARIABLES
    now,
    scannedAt,   \* when each scan was stamped, or Never
    logged,      \* scans inserted into scan_logs
    summary,     \* the row of each day
    wake,        \* when each scheduled job is due next
    window,      \* the time window each started job has computed, or NoWindow
    dailyRuns    \* history: days on which the daily job has started

vars == <<now, scannedAt, logged, summary, wake, window, dailyRuns>>
scanVars == <<scannedAt, logged>>
jobVars == <<wake, window, dailyRuns>>

Scheduled == {"incremental", "daily"}
Jobs == Scheduled \union {"manual"}

DayOf(t) == t \div DayLength
DayStart(d) == d * DayLength
Days == 0 .. DayOf(Horizon)

NoRow == [total |-> 0, unique |-> 0]

NoWindow == [from |-> 0, to |-> 0]

TypeOK ==
    /\ now \in 0 .. Horizon
    /\ scannedAt \in [Scans -> 0 .. Horizon \union {Never}]
    /\ logged \in SUBSET {s \in Scans : scannedAt[s] # Never}
    /\ summary \in [Days -> [total : Nat, unique : Nat]]
    /\ wake \in [Scheduled -> Nat]
    /\ window \in [Jobs -> [from : Int, to : Nat]]
    /\ dailyRuns \in SUBSET Days
-------------------------------------------------------------------------------
(* Mutant: a due time that is now counts as still to come.                    *)
NextDailyRunNow(t) ==
    IF t % DayLength <= DailyAt
    THEN DayStart(DayOf(t)) + DailyAt
    ELSE DayStart(DayOf(t) + 1) + DailyAt

(* seconds_until_next_daily_run                                               *)
NextDailyRun(t) ==
    IF t % DayLength < DailyAt
    THEN DayStart(DayOf(t)) + DailyAt
    ELSE DayStart(DayOf(t) + 1) + DailyAt

DueAfter(t) == [incremental |-> t + Interval, daily |-> NextDailyRun(t)]

DayWindow(d) == [from |-> DayStart(d), to |-> DayStart(d + 1)]

(* Mutant: a window one tick too long.                                        *)
LastWindowLonger(t) == [from |-> t - Window - 1, to |-> t]

LastWindow(t) == [from |-> t - Window, to |-> t]

InWindow(t, w) == t # Never /\ w.from <= t /\ t < w.to

LoggedOn(d) == {s \in logged : InWindow(scannedAt[s], DayWindow(d))}

(* COALESCE(ip_address, CONCAT('unknown-', id))                               *)
Visitor(s) == IF Ip[s] = NoIp THEN s ELSE Ip[s]

(* COUNT( * ) and COUNT(DISTINCT ...) of a group of scan_logs rows.           *)
Figures(S) ==
    [total |-> Cardinality(S), unique |-> Cardinality({Visitor(s) : s \in S})]

Init ==
    /\ now = 0
    /\ scannedAt = [s \in Scans |-> Never]
    /\ logged = {}
    /\ summary = [d \in Days |-> NoRow]
    /\ wake = DueAfter(0)
    /\ window = [j \in Jobs |-> NoWindow]
    /\ dailyRuns = {}

(* A timer goes off within the tick it is due.                                *)
Tick ==
    /\ now < Horizon
    /\ \A j \in Scheduled : window[j] = NoWindow => wake[j] > now
    /\ now' = now + 1
    /\ UNCHANGED <<scanVars, summary, jobVars>>

(* A redirect stamps the scan; its message waits in the queue.                *)
Scan(s) ==
    /\ scannedAt[s] = Never
    /\ scannedAt' = [scannedAt EXCEPT ![s] = now]
    /\ UNCHANGED <<now, logged, summary, jobVars>>

(* Mutant: a row for a scan that no redirect has stamped.                     *)
LogUnstamped(s) ==
    /\ logged' = logged \union {s}
    /\ UNCHANGED <<now, scannedAt, summary, jobVars>>

(* A worker inserts it, however late.                                         *)
Log(s) ==
    /\ scannedAt[s] # Never
    /\ logged' = logged \union {s}
    /\ UNCHANGED <<now, scannedAt, summary, jobVars>>

(* A job's timer has gone off and it reads the clock.  Only the reconciliation*)
(* takes a target_date, which none of the scheduled calls passes.             *)
Begin(j) ==
    /\ window[j] = NoWindow
    /\ j \in Scheduled => wake[j] <= now
    /\ \/ /\ j = "incremental"
          /\ window' = [window EXCEPT ![j] = LastWindow(now)]
       \/ /\ j = "daily"
          /\ window' = [window EXCEPT ![j] = DayWindow(DayOf(now))]
       \/ /\ j = "manual"
          /\ \E d \in 0 .. DayOf(now) :
                window' = [window EXCEPT ![j] = DayWindow(d)]
    /\ dailyRuns' = IF j = "daily" THEN dailyRuns \union {DayOf(now)}
                                   ELSE dailyRuns
    /\ UNCHANGED <<now, scanVars, summary, wake>>

(* A job is over and its task goes to sleep again.                            *)
Sleep(j) ==
    /\ window' = [window EXCEPT ![j] = NoWindow]
    /\ wake' = [i \in Scheduled |-> IF i = j THEN DueAfter(now)[i] ELSE wake[i]]
    /\ UNCHANGED <<now, scanVars, dailyRuns>>

(* Mutant: ... ON DUPLICATE KEY UPDATE total_scans = total_scans + VALUES(...)*)
UpsertAdding(j) ==
    /\ window[j] # NoWindow
    /\ LET Group(d) == {s \in LoggedOn(d) : InWindow(scannedAt[s], window[j])}
           New(d) == Figures(Group(d))
       IN  summary' = [d \in Days |->
                [total |-> summary[d].total + New(d).total,
                 unique |-> summary[d].unique + New(d).unique]]
    /\ Sleep(j)

(* aggregate_scan_logs_into_daily_summary: the group of each day in the       *)
(* window replaces that day's figures; a day with no group keeps its row.     *)
Upsert(j) ==
    /\ window[j] # NoWindow
    /\ LET Group(d) == {s \in LoggedOn(d) : InWindow(scannedAt[s], window[j])}
       IN  summary' = [d \in Days |-> IF Group(d) = {} THEN summary[d]
                                                       ELSE Figures(Group(d))]
    /\ Sleep(j)

(* The statement or its commit fails; _safe_execute logs it.                  *)
Fail(j) ==
    /\ window[j] # NoWindow
    /\ Sleep(j)
    /\ UNCHANGED summary

(* The process that runs the scheduler dies or stops it, and starts it again: *)
(* nothing remembers what was due.                                            *)
Restart ==
    /\ wake' = DueAfter(now)
    /\ window' = [j \in Jobs |-> IF j \in Scheduled THEN NoWindow
                                                     ELSE window[j]]
    /\ UNCHANGED <<now, scanVars, summary, dailyRuns>>

Next ==
    \/ Tick
    \/ \E s \in Scans : Scan(s) \/ Log(s)
    \/ \E j \in Jobs : Begin(j) \/ Upsert(j) \/ Fail(j)
    \/ Restart

Spec == Init /\ [][Next]_vars
-------------------------------------------------------------------------------
Exact(d) == summary[d] = Figures(LoggedOn(d))

(* Overlapping windows, late scans, repeated reconciliations and restarts     *)
(* never count a scan twice: a day's figures do not exceed its scans and      *)
(* visitors, and no more visitors than scans are shown.                       *)
NeverOvercounts ==
    \A d \in Days :
        /\ summary[d].total <= Figures(LoggedOn(d)).total
        /\ summary[d].unique <= Figures(LoggedOn(d)).unique
        /\ summary[d].unique <= summary[d].total

(* The day is over, no incremental window will reach into it any more, and    *)
(* none that was computed earlier still does.                                 *)
Closed(d) ==
    /\ now >= DayStart(d + 1) + Window
    /\ \A j \in Jobs : window[j].to <= DayStart(d) \/ window[j] = DayWindow(d)
                       \/ window[j].from >= DayStart(d + 1)

(* Once a reconciliation has made a closed day's figures exact, only a scan   *)
(* of that day that is inserted later makes them wrong again.                 *)
ExactDayStays ==
    [][\A d \in Days : Closed(d) /\ Exact(d) /\ LoggedOn(d)' = LoggedOn(d)
            => Closed(d)' /\ Exact(d)']_vars

(* The daily job starts at most once a day, however long it takes and however *)
(* often the scheduler is restarted: seconds_until_next_daily_run never       *)
(* returns a time that has come.                                              *)
DailyOncePerDay ==
    [][window["daily"] = NoWindow /\ window'["daily"] # NoWindow
            => DayOf(now) \notin dailyRuns]_vars

(* After the daily job has run, the figures of every day that is over are     *)
(* those of its scans.                                                        *)
FullDayCorrectness ==
    [][Upsert("daily") =>
            \A d \in Days : DayStart(d + 1) <= now => Exact(d)']_vars

(* No run takes scans that were counted out of a day's total.                 *)
TotalNeverFalls ==
    [][\A d \in Days : summary'[d].total >= summary[d].total]_vars
================================================================================
