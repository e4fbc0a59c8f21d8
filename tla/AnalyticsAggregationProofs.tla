---------------------- MODULE AnalyticsAggregationProofs ----------------------
(* Proofs, for any scans, addresses, day length, window and intervals, of the *)
(* safety properties of AnalyticsAggregation.                                 *)
EXTENDS AnalyticsAggregation, FiniteSetTheorems, TLAPS

-------------------------------------------------------------------------------
(* Arithmetic of days.                                                        *)
LEMMA DayFacts ==
    ASSUME NEW t \in Nat
    PROVE  DayOf(t) \in Nat /\ DayStart(DayOf(t)) <= t
  BY AnalyticsAssumption DEF AnalyticsAssumption, DayOf, DayStart

LEMMA ProductMonotonic ==
    ASSUME NEW a \in Nat, NEW b \in Nat, a <= b, NEW n \in Nat
    PROVE  a * n <= b * n /\ (a + 1) * n = a * n + n
  OBVIOUS

LEMMA DayStartFacts ==
    ASSUME NEW a \in Nat, NEW b \in Nat
    PROVE  /\ DayStart(a) \in Nat
           /\ a <= b => DayStart(a) <= DayStart(b)
           /\ DayStart(a + 1) = DayStart(a) + DayLength
<1>1. DayLength \in Nat \ {0}
  BY AnalyticsAssumption DEF AnalyticsAssumption
<1>2. a * DayLength \in Nat /\ b * DayLength \in Nat
  BY <1>1
<1>3. (a + 1) * DayLength = a * DayLength + DayLength
  BY <1>1, ProductMonotonic
<1>4. a <= b => a * DayLength <= b * DayLength
  BY <1>1, ProductMonotonic
<1>. QED  BY <1>2, <1>3, <1>4 DEF DayStart

(* Later ticks are not on earlier days.                                       *)
LEMMA DayOfMonotonic ==
    ASSUME NEW t \in Nat, NEW u \in Nat, t <= u
    PROVE  DayOf(t) <= DayOf(u)
<1>1. DayLength \in Nat \ {0}
  BY AnalyticsAssumption DEF AnalyticsAssumption
<1>2. DayOf(t) \in Nat /\ DayOf(u) \in Nat
  BY DayFacts
<1>3. DayStart(DayOf(t)) <= t
  BY DayFacts
<1>4. u < DayStart(DayOf(u) + 1)
  BY <1>1 DEF DayOf, DayStart
<1>5. DayStart(DayOf(t)) < DayStart(DayOf(u) + 1)
  BY <1>1, <1>2, <1>3, <1>4, DayStartFacts
<1>6. DayOf(u) + 1 <= DayOf(t) => FALSE
  BY <1>1, <1>2, <1>5, DayStartFacts
<1>. QED  BY <1>2, <1>6

LEMMA NextDailyRunFacts ==
    ASSUME NEW t \in Nat
    PROVE  NextDailyRun(t) \in Nat /\ NextDailyRun(t) > t
<1>1. DayLength \in Nat \ {0} /\ DailyAt \in 0 .. DayLength - 1
  BY AnalyticsAssumption DEF AnalyticsAssumption
<1>2. DayOf(t) \in Nat
  BY DayFacts
<1>3. /\ t = DayStart(DayOf(t)) + (t % DayLength)
      /\ t % DayLength \in 0 .. DayLength - 1
  BY <1>1 DEF DayOf, DayStart
<1>4. DayStart(DayOf(t)) \in Nat /\ DayStart(DayOf(t) + 1) = DayStart(DayOf(t)) + DayLength
  BY <1>2, DayStartFacts
<1>. QED  BY <1>1, <1>3, <1>4 DEF NextDailyRun
-------------------------------------------------------------------------------
(* A group of fewer rows has no greater figures.                              *)
LEMMA FiguresMonotonic ==
    ASSUME NEW T \in SUBSET Scans, NEW S \in SUBSET T
    PROVE  /\ Figures(S) \in [total : Nat, unique : Nat]
           /\ Figures(S).total <= Figures(T).total
           /\ Figures(S).unique <= Figures(T).unique
           /\ Figures(S).unique <= Figures(S).total
<1>1. IsFiniteSet(T) /\ IsFiniteSet(S)
  BY AnalyticsAssumption, FS_Subset DEF AnalyticsAssumption
<1>2. Cardinality(S) \in Nat /\ Cardinality(S) <= Cardinality(T)
  BY <1>1, FS_CardinalityType, FS_Subset
<1>3. ASSUME NEW U, IsFiniteSet(U)
      PROVE  /\ IsFiniteSet({Visitor(s) : s \in U})
             /\ Cardinality({Visitor(s) : s \in U}) <= Cardinality(U)
  <2>. DEFINE V == {Visitor(s) : s \in U}
              f == [s \in U |-> Visitor(s)]
  <2>1. f \in Surjection(U, V)
    BY DEF Surjection
  <2>. QED  BY <1>3, <2>1, FS_Surjection
<1>4. {Visitor(s) : s \in S} \in SUBSET {Visitor(s) : s \in T}
  OBVIOUS
<1>5. /\ Cardinality({Visitor(s) : s \in S}) \in Nat
      /\ Cardinality({Visitor(s) : s \in S}) <= Cardinality({Visitor(s) : s \in T})
      /\ Cardinality({Visitor(s) : s \in S}) <= Cardinality(S)
  BY <1>1, <1>3, <1>4, FS_CardinalityType, FS_Subset
<1>. QED  BY <1>2, <1>5 DEF Figures
-------------------------------------------------------------------------------
LEMMA DueAfterType ==
    ASSUME NEW t \in Nat
    PROVE  DueAfter(t) \in [Scheduled -> Nat]
<1>1. NextDailyRun(t) \in Nat /\ t + Interval \in Nat
  BY NextDailyRunFacts, AnalyticsAssumption DEF AnalyticsAssumption
<1>. QED  BY <1>1 DEF DueAfter, Scheduled

LEMMA LoggedOnType == TypeOK => \A d \in Days : LoggedOn(d) \in SUBSET Scans
  BY DEF TypeOK, LoggedOn

(* The job that has come to its statement.                                    *)
Group(j, d) == {s \in LoggedOn(d) : InWindow(scannedAt[s], window[j])}

LEMMA GroupFigures ==
    ASSUME TypeOK, NEW j \in Jobs, NEW d \in Days
    PROVE  /\ Figures(Group(j, d)) \in [total : Nat, unique : Nat]
           /\ Figures(Group(j, d)).total <= Figures(LoggedOn(d)).total
           /\ Figures(Group(j, d)).unique <= Figures(LoggedOn(d)).unique
           /\ Figures(Group(j, d)).unique <= Figures(Group(j, d)).total
<1>1. LoggedOn(d) \in SUBSET Scans /\ Group(j, d) \in SUBSET LoggedOn(d)
  BY LoggedOnType DEF Group
<1>. QED  BY <1>1, FiguresMonotonic

(* The clock, scan_logs, the daily rows and the jobs have their types.        *)
THEOREM TypeCorrect == Spec => []TypeOK
<1>1. Init => TypeOK
  <2>. SUFFICES ASSUME Init PROVE TypeOK
    OBVIOUS
  <2>1. wake \in [Scheduled -> Nat]
    BY DueAfterType DEF Init
  <2>. QED  BY <2>1, AnalyticsAssumption
            DEF Init, TypeOK, AnalyticsAssumption, NoRow, NoWindow, Never
<1>2. TypeOK /\ [Next]_vars => TypeOK'
  <2>. SUFFICES ASSUME TypeOK, [Next]_vars PROVE TypeOK'
    OBVIOUS
  <2>0. /\ now \in Nat /\ Horizon \in Nat /\ DayLength \in Nat
        /\ Window \in Nat
    BY AnalyticsAssumption DEF TypeOK, AnalyticsAssumption
  <2>1. CASE Tick
    BY <2>0, <2>1 DEF Tick, TypeOK, scanVars, jobVars
  <2>2. ASSUME NEW s \in Scans, Scan(s) PROVE TypeOK'
    BY <2>0, <2>2 DEF Scan, TypeOK, jobVars, Never
  <2>3. ASSUME NEW s \in Scans, Log(s) PROVE TypeOK'
    BY <2>3 DEF Log, TypeOK, jobVars
  <2>4. ASSUME NEW j \in Jobs, Begin(j) PROVE TypeOK'
    <3>. /\ DayOf(now) \in Nat /\ DayOf(Horizon) \in Nat
         /\ DayOf(now) <= DayOf(Horizon)
      BY <2>0, DayFacts, DayOfMonotonic DEF TypeOK
    <3>1. DayOf(now) \in Days
      BY DEF Days
    <3>2. \A d \in Nat : DayWindow(d) \in [from : Int, to : Nat]
      BY DayStartFacts DEF DayWindow
    <3>3. LastWindow(now) \in [from : Int, to : Nat]
      BY <2>0 DEF LastWindow
    <3>4. window' \in [Jobs -> [from : Int, to : Nat]]
      <4>1. PICK w \in [from : Int, to : Nat] :
                window' = [window EXCEPT ![j] = w]
        BY <2>4, <3>2, <3>3 DEF Begin
      <4>. QED  BY <4>1 DEF TypeOK
    <3>5. dailyRuns' \in SUBSET Days
      BY <2>4, <3>1 DEF Begin, TypeOK
    <3>. QED  BY <2>4, <3>4, <3>5 DEF Begin, TypeOK, scanVars
  <2>5. ASSUME NEW j \in Jobs, Sleep(j),
               summary' \in [Days -> [total : Nat, unique : Nat]]
        PROVE  TypeOK'
    <3>1. wake' \in [Scheduled -> Nat]
      BY <2>0, <2>5, DueAfterType DEF Sleep, TypeOK
    <3>2. window' \in [Jobs -> [from : Int, to : Nat]]
      BY <2>5 DEF Sleep, TypeOK, NoWindow
    <3>. QED  BY <2>5, <3>1, <3>2 DEF Sleep, TypeOK, scanVars
  <2>6. ASSUME NEW j \in Jobs, Upsert(j) PROVE TypeOK'
    <3>1. \A d \in Days : Figures(Group(j, d)) \in [total : Nat, unique : Nat]
      BY GroupFigures
    <3>2. summary' \in [Days -> [total : Nat, unique : Nat]]
      BY <2>6, <3>1 DEF Upsert, Group, TypeOK
    <3>3. Sleep(j)
      BY <2>6 DEF Upsert
    <3>. QED  BY <2>5, <3>2, <3>3
  <2>7. ASSUME NEW j \in Jobs, Fail(j) PROVE TypeOK'
    <3>1. Sleep(j) /\ summary' \in [Days -> [total : Nat, unique : Nat]]
      BY <2>7 DEF Fail, TypeOK
    <3>. QED  BY <2>5, <3>1
  <2>8. CASE Restart
    <3>1. wake' \in [Scheduled -> Nat]
      BY <2>0, <2>8, DueAfterType DEF Restart
    <3>2. window' \in [Jobs -> [from : Int, to : Nat]]
      BY <2>8 DEF Restart, TypeOK, NoWindow
    <3>. QED  BY <2>8, <3>1, <3>2 DEF Restart, TypeOK, scanVars
  <2>9. CASE UNCHANGED vars
    BY <2>9 DEF vars, TypeOK
  <2>. QED  BY <2>1, <2>2, <2>3, <2>4, <2>6, <2>7, <2>8, <2>9 DEF Next
<1>. QED  BY <1>1, <1>2, PTL DEF Spec
-------------------------------------------------------------------------------
(* A step that leaves the scans of a day alone or adds to them.               *)
LEMMA LoggedOnGrows ==
    ASSUME TypeOK, [Next]_vars, NEW d \in Days
    PROVE  LoggedOn(d) \subseteq LoggedOn(d)' /\ LoggedOn(d)' \in SUBSET Scans
<1>1. logged \subseteq logged' /\ logged' \subseteq Scans
  BY DEF TypeOK, Next, vars, Tick, Scan, Log, Begin, Upsert, Fail, Sleep,
         Restart, scanVars
<1>2. \A s \in logged : scannedAt'[s] = scannedAt[s]
  BY DEF TypeOK, Next, vars, Tick, Scan, Log, Begin, Upsert, Fail, Sleep,
         Restart, scanVars
<1>. QED  BY <1>1, <1>2 DEF LoggedOn

(* A step either leaves the figures of a day alone or is a job's statement.   *)
LEMMA FiguresStep ==
    ASSUME TypeOK, [Next]_vars, NEW d \in Days
    PROVE  \/ summary'[d] = summary[d]
           \/ \E j \in Jobs :
                /\ Upsert(j)
                /\ Group(j, d) # {}
                /\ summary'[d] = Figures(Group(j, d))
                /\ LoggedOn(d)' = LoggedOn(d)
<1>1. CASE \E j \in Jobs : Upsert(j)
  <2>1. PICK j \in Jobs : Upsert(j)
    BY <1>1
  <2>2. logged' = logged /\ scannedAt' = scannedAt
    BY <2>1 DEF Upsert, Sleep, scanVars
  <2>3. LoggedOn(d)' = LoggedOn(d)
    BY <2>2 DEF LoggedOn
  <2>4. summary'[d] = IF Group(j, d) = {} THEN summary[d]
                                          ELSE Figures(Group(j, d))
    BY <2>1 DEF Upsert, Group
  <2>. QED  BY <2>1, <2>3, <2>4
<1>2. CASE ~ \E j \in Jobs : Upsert(j)
  BY <1>2 DEF Next, vars, Tick, Scan, Log, Begin, Fail, Restart
<1>. QED  BY <1>1, <1>2

THEOREM NoOvercount == Spec => []NeverOvercounts
<1>1. Init => NeverOvercounts
  <2>. SUFFICES ASSUME Init, NEW d \in Days
                PROVE  /\ summary[d].total <= Figures(LoggedOn(d)).total
                       /\ summary[d].unique <= Figures(LoggedOn(d)).unique
                       /\ summary[d].unique <= summary[d].total
    BY DEF NeverOvercounts
  <2>1. LoggedOn(d) \in SUBSET Scans
    BY DEF Init, LoggedOn
  <2>2. Figures(LoggedOn(d)) \in [total : Nat, unique : Nat]
    BY <2>1, FiguresMonotonic
  <2>. QED  BY <2>2 DEF Init, NoRow
<1>2. TypeOK /\ NeverOvercounts /\ [Next]_vars => NeverOvercounts'
  <2>. SUFFICES ASSUME TypeOK, NeverOvercounts, [Next]_vars, NEW d \in Days
                PROVE  /\ summary'[d].total <= Figures(LoggedOn(d)').total
                       /\ summary'[d].unique <= Figures(LoggedOn(d)').unique
                       /\ summary'[d].unique <= summary'[d].total
    BY DEF NeverOvercounts, Figures, Visitor
  <2>1. CASE summary'[d] = summary[d]
    <3>1. LoggedOn(d) \subseteq LoggedOn(d)' /\ LoggedOn(d)' \in SUBSET Scans
      BY LoggedOnGrows
    <3>2. /\ Figures(LoggedOn(d)) \in [total : Nat, unique : Nat]
          /\ Figures(LoggedOn(d)').total \in Nat
          /\ Figures(LoggedOn(d)').unique \in Nat
          /\ Figures(LoggedOn(d)).total <= Figures(LoggedOn(d)').total
          /\ Figures(LoggedOn(d)).unique <= Figures(LoggedOn(d)').unique
      BY <3>1, FiguresMonotonic
    <3>3. summary[d] \in [total : Nat, unique : Nat]
      BY DEF TypeOK
    <3>. QED  BY <2>1, <3>2, <3>3 DEF NeverOvercounts
  <2>2. CASE \E j \in Jobs : /\ summary'[d] = Figures(Group(j, d))
                             /\ LoggedOn(d)' = LoggedOn(d)
    BY <2>2, GroupFigures
  <2>. QED  BY <2>1, <2>2, FiguresStep
<1>. QED  BY <1>1, <1>2, TypeCorrect, PTL DEF Spec
-------------------------------------------------------------------------------
(* A later day does not begin before an earlier one ends.                     *)
LEMMA DaysDisjoint ==
    ASSUME NEW a \in Nat, NEW b \in Nat, a < b
    PROVE  DayStart(a + 1) <= DayStart(b)
  BY DayStartFacts

(* The window reaches over the whole of the day, or not into it at all.       *)
Spares(w, d) ==
    w.to <= DayStart(d) \/ w = DayWindow(d) \/ w.from >= DayStart(d + 1)

(* A job whose window spares a day computes that day's figures or none.       *)
LEMMA SparedGroup ==
    ASSUME TypeOK, NEW j \in Jobs, NEW d \in Days, Spares(window[j], d)
    PROVE  Group(j, d) \in {{}, LoggedOn(d)}
<1>1. d \in Nat /\ DayStart(d) \in Nat /\ DayStart(d + 1) \in Nat
  BY AnalyticsAssumption, DayFacts, DayStartFacts
     DEF Days, AnalyticsAssumption
<1>2. window[j] \in [from : Int, to : Nat]
  BY DEF TypeOK
<1>3. \A s \in LoggedOn(d) : /\ scannedAt[s] \in Int
                             /\ DayStart(d) <= scannedAt[s]
                             /\ scannedAt[s] < DayStart(d + 1)
  BY DEF LoggedOn, InWindow, DayWindow, TypeOK, Never
<1>4. CASE window[j] = DayWindow(d)
  BY <1>4 DEF Group, LoggedOn
<1>5. CASE window[j].to <= DayStart(d) \/ window[j].from >= DayStart(d + 1)
  BY <1>1, <1>2, <1>3, <1>5 DEF Group, InWindow
<1>. QED  BY <1>4, <1>5 DEF Spares

LEMMA ClosedSpares ==
    \A d : Closed(d) <=> /\ now >= DayStart(d + 1) + Window
                         /\ \A j \in Jobs : Spares(window[j], d)
  BY DEF Closed, Spares

(* A job that begins when a day is closed spares it, and so does no job.      *)
LEMMA ClosedStays ==
    ASSUME TypeOK, [Next]_vars, NEW d \in Days, Closed(d)
    PROVE  Closed(d)'
<1>1. /\ d \in Nat /\ now \in Nat /\ Window \in Nat
      /\ DayStart(d) \in Nat /\ DayStart(d + 1) \in Nat
  BY AnalyticsAssumption, DayFacts, DayStartFacts
     DEF Days, AnalyticsAssumption, TypeOK
<1>2. now >= DayStart(d + 1) + Window /\ \A j \in Jobs : Spares(window[j], d)
  BY ClosedSpares
<1>3. now' >= now
  BY <1>1 DEF Next, vars, Tick, Scan, Log, Begin, Upsert, Fail, Sleep, Restart
<1>4. Spares(NoWindow, d)
  BY <1>1 DEF Spares, NoWindow
<1>5. Spares(LastWindow(now), d)
  BY <1>1, <1>2 DEF Spares, LastWindow
<1>6. ASSUME NEW e \in Nat PROVE Spares(DayWindow(e), d)
  <2>1. /\ DayStart(e) \in Nat /\ DayStart(e + 1) \in Nat
        /\ e < d => DayStart(e + 1) <= DayStart(d)
        /\ d < e => DayStart(d + 1) <= DayStart(e)
    BY <1>1, DayStartFacts, DaysDisjoint
  <2>2. CASE e = d
    BY <2>2 DEF Spares
  <2>3. CASE e < d \/ d < e
    BY <2>1, <2>3 DEF Spares, DayWindow
  <2>. QED  BY <1>1, <2>2, <2>3
<1>7. ASSUME NEW j \in Jobs PROVE Spares(window'[j], d)
  <2>1. CASE window'[j] \in {window[j], NoWindow}
    BY <1>2, <1>4, <2>1
  <2>2. ASSUME NEW i \in Jobs, Begin(i) PROVE Spares(window'[j], d)
    <3>1. PICK w : /\ window' = [window EXCEPT ![i] = w]
                   /\ \/ w = LastWindow(now)
                      \/ \E e \in Nat : w = DayWindow(e)
      BY <1>1, <2>2, DayFacts DEF Begin
    <3>2. Spares(w, d)
      BY <1>5, <1>6, <3>1
    <3>3. window'[j] \in {window[j], w}
      BY <3>1 DEF TypeOK
    <3>. QED  BY <1>2, <3>2, <3>3
  <2>3. CASE \A i \in Jobs : ~Begin(i)
    <3>1. window'[j] \in {window[j], NoWindow}
      BY <2>3 DEF Next, vars, Tick, Scan, Log, Upsert, Fail, Sleep, Restart,
                  scanVars, jobVars, TypeOK
    <3>. QED  BY <2>1, <3>1
  <2>. QED  BY <2>2, <2>3
<1>8. now' >= DayStart(d + 1) + Window
  <2>1. now' \in Int
    BY <1>1 DEF Next, vars, Tick, Scan, Log, Begin, Upsert, Fail, Sleep, Restart
  <2>. QED  BY <1>1, <1>2, <1>3, <2>1
<1>9. \A j \in Jobs : Spares(window[j]', d)
  BY <1>7
<1>. QED  BY <1>8, <1>9 DEF Closed, Spares

THEOREM ExactStays == Spec => ExactDayStays
<1>1. TypeOK /\ [Next]_vars =>
        [\A d \in Days : Closed(d) /\ Exact(d) /\ LoggedOn(d)' = LoggedOn(d)
            => Closed(d)' /\ Exact(d)']_vars
  <2>. SUFFICES ASSUME TypeOK, [Next]_vars, NEW d \in Days, Closed(d), Exact(d),
                       LoggedOn(d)' = LoggedOn(d)
                PROVE  Closed(d)' /\ Exact(d)'
    OBVIOUS
  <2>1. Figures(LoggedOn(d)') = Figures(LoggedOn(d))
    OBVIOUS
  <2>2. summary'[d] = summary[d] \/ summary'[d] = Figures(LoggedOn(d))
    <3>1. ASSUME NEW j \in Jobs, Group(j, d) # {},
                 summary'[d] = Figures(Group(j, d))
          PROVE  summary'[d] = Figures(LoggedOn(d))
      <4>1. Spares(window[j], d)
        BY ClosedSpares
      <4>. QED  BY <3>1, <4>1, SparedGroup
    <3>. QED  BY <3>1, FiguresStep
  <2>3. Exact(d)'
    BY <2>1, <2>2 DEF Exact, Figures, Visitor
  <2>. QED  BY <2>3, ClosedStays
<1>. QED  BY <1>1, TypeCorrect, PTL DEF Spec, ExactDayStays
-------------------------------------------------------------------------------
(* A tick is on the day between whose start and end it is.                    *)
LEMMA DayUnique ==
    ASSUME NEW t \in Nat
    PROVE  /\ DayStart(DayOf(t)) <= t /\ t < DayStart(DayOf(t) + 1)
           /\ \A d \in Nat : DayStart(d) <= t /\ t < DayStart(d + 1) => d = DayOf(t)
<1>1. DayOf(t) \in Nat /\ DayStart(DayOf(t)) <= t
  BY DayFacts
<1>2. t < DayStart(DayOf(t) + 1)
  BY AnalyticsAssumption DEF DayOf, DayStart
<1>3. ASSUME NEW d \in Nat, DayStart(d) <= t, t < DayStart(d + 1)
      PROVE  d = DayOf(t)
  <2>1. ASSUME d + 1 <= DayOf(t) PROVE FALSE
    <3>1. DayStart(d + 1) <= DayStart(DayOf(t))
      BY <1>1, <2>1, DayStartFacts
    <3>. QED  BY <1>1, <1>3, <3>1, DayStartFacts
  <2>2. ASSUME DayOf(t) + 1 <= d PROVE FALSE
    <3>1. DayStart(DayOf(t) + 1) <= DayStart(d)
      BY <1>1, <2>2, DayStartFacts
    <3>. QED  BY <1>1, <1>2, <1>3, <3>1, DayStartFacts
  <2>. QED  BY <1>1, <2>1, <2>2
<1>. QED  BY <1>1, <1>2, <1>3

(* When the next run is due: at DailyAt, and tomorrow if that has come today. *)
LEMMA NextDailyRunDay ==
    ASSUME NEW t \in Nat
    PROVE  /\ \E k \in Nat : NextDailyRun(t) = DayStart(k) + DailyAt
           /\ NextDailyRun(t) \in Nat /\ t < NextDailyRun(t)
           /\ DayStart(DayOf(t)) + DailyAt <= t =>
                 DayStart(DayOf(t) + 1) <= NextDailyRun(t)
<1>1. DayLength \in Nat \ {0} /\ DailyAt \in 0 .. DayLength - 1
  BY AnalyticsAssumption
<1>2. DayOf(t) \in Nat
  BY DayFacts
<1>3. t = DayStart(DayOf(t)) + (t % DayLength)
  BY <1>1 DEF DayOf, DayStart
<1>4. DayStart(DayOf(t)) \in Nat /\ DayStart(DayOf(t) + 1) \in Nat
  BY <1>2, DayStartFacts
<1>5. \E k \in Nat : NextDailyRun(t) = DayStart(k) + DailyAt
  BY <1>2 DEF NextDailyRun
<1>6. DayStart(DayOf(t)) + DailyAt <= t => NextDailyRun(t) = DayStart(DayOf(t) + 1) + DailyAt
  <2>1. t % DayLength \in Nat
    BY <1>1
  <2>. QED  BY <1>1, <1>3, <1>4, <2>1 DEF NextDailyRun
<1>. QED  BY <1>1, <1>4, <1>5, <1>6, NextDailyRunFacts

(* What is due: at DailyAt of some day, not in the past while the job sleeps, *)
(* and on a later day once today's run has been.                              *)
DailyInv ==
    /\ \A d \in dailyRuns : d <= DayOf(now)
    /\ \E k \in Nat : wake["daily"] = DayStart(k) + DailyAt
    /\ window["daily"] = NoWindow => now <= wake["daily"]
    /\ DayOf(now) \in dailyRuns =>
          /\ DayStart(DayOf(now)) + DailyAt <= now
          /\ window["daily"] = NoWindow => DayStart(DayOf(now) + 1) <= wake["daily"]

(* The task goes to sleep, or is made anew.                                   *)
LEMMA DailyRearmed ==
    ASSUME TypeOK, DailyInv, wake'["daily"] = NextDailyRun(now),
           UNCHANGED <<now, dailyRuns>>
    PROVE  DailyInv'
<1>1. now \in Nat
  BY DEF TypeOK
<1>2. \E k \in Nat : NextDailyRun(now) = DayStart(k) + DailyAt
  BY <1>1, NextDailyRunDay
<1>3. /\ NextDailyRun(now) \in Nat /\ now < NextDailyRun(now)
      /\ DayStart(DayOf(now)) + DailyAt <= now =>
            DayStart(DayOf(now) + 1) <= NextDailyRun(now)
  BY <1>1, NextDailyRunDay
<1>. QED  BY <1>1, <1>2, <1>3 DEF DailyInv

LEMMA DailyTick ==
    ASSUME TypeOK, DailyInv, Tick
    PROVE  DailyInv'
<1>1. /\ now \in Nat /\ now' = now + 1 /\ now' \in Nat
      /\ wake["daily"] \in Nat
      /\ window["daily"] = NoWindow => now' <= wake["daily"]
      /\ UNCHANGED <<wake, window, dailyRuns>>
  BY DEF TypeOK, Tick, jobVars, Scheduled
<1>2. DayOf(now) \in Nat /\ DayOf(now') \in Nat /\ DayOf(now) <= DayOf(now')
  BY <1>1, DayFacts, DayOfMonotonic
<1>3. \A d \in dailyRuns : d \in Nat
  BY DEF TypeOK, Days
<1>4. DayOf(now') \in dailyRuns => DayOf(now') = DayOf(now)
  BY <1>2, <1>3 DEF DailyInv
<1>5. /\ DayStart(DayOf(now)) \in Nat /\ DailyAt \in Nat
  BY <1>2, DayStartFacts, AnalyticsAssumption
<1>6. \A d \in dailyRuns' : d <= DayOf(now')
  BY <1>1, <1>2, <1>3 DEF DailyInv
<1>7. DayOf(now') \in dailyRuns' =>
        /\ DayStart(DayOf(now')) + DailyAt <= now'
        /\ window'["daily"] = NoWindow => DayStart(DayOf(now') + 1) <= wake'["daily"]
  BY <1>1, <1>4, <1>5 DEF DailyInv
<1>. QED  BY <1>1, <1>6, <1>7 DEF DailyInv

(* The run is on the day it is due.                                           *)
LEMMA DailyBegins ==
    ASSUME TypeOK, DailyInv, Begin("daily")
    PROVE  DailyInv' /\ DayOf(now) \notin dailyRuns
<1>1. /\ now \in Nat /\ wake["daily"] <= now /\ wake["daily"] \in Nat
      /\ window["daily"] = NoWindow
      /\ dailyRuns' = dailyRuns \union {DayOf(now)}
      /\ window' = [window EXCEPT !["daily"] = DayWindow(DayOf(now))]
      /\ UNCHANGED <<now, wake>>
  BY DEF Begin, TypeOK, Scheduled
<1>2. PICK k \in Nat : wake["daily"] = DayStart(k) + DailyAt
  BY DEF DailyInv
<1>3. now = DayStart(k) + DailyAt
  BY <1>1, <1>2 DEF DailyInv
<1>4. /\ DayLength \in Nat \ {0} /\ DailyAt \in 0 .. DayLength - 1
      /\ DayStart(k) \in Nat /\ DayStart(k + 1) = DayStart(k) + DayLength
  BY <1>2, DayStartFacts, AnalyticsAssumption
<1>5. k = DayOf(now)
  BY <1>1, <1>2, <1>3, <1>4, DayUnique
<1>6. DayOf(now) \notin dailyRuns
  <2>1. DayOf(now) \in dailyRuns => DayStart(DayOf(now) + 1) <= wake["daily"]
    BY <1>1 DEF DailyInv
  <2>. QED  BY <1>2, <1>4, <1>5, <2>1
<1>7. window'["daily"] # NoWindow
  <2>1. window'["daily"] = DayWindow(DayOf(now))
    BY <1>1 DEF TypeOK, Jobs, Scheduled
  <2>2. DayWindow(DayOf(now)).to # 0
    BY <1>4, <1>5 DEF DayWindow
  <2>. QED  BY <2>1, <2>2 DEF NoWindow
<1>8. \A d \in dailyRuns' : d <= DayOf(now')
  BY <1>1, <1>2, <1>5 DEF DailyInv
<1>9. DailyInv'
  BY <1>1, <1>2, <1>3, <1>4, <1>5, <1>7, <1>8 DEF DailyInv
<1>. QED  BY <1>6, <1>9

LEMMA DailyStep ==
    ASSUME TypeOK, DailyInv, [Next]_vars
    PROVE  /\ DailyInv'
           /\ [window["daily"] = NoWindow /\ window'["daily"] # NoWindow
                  => DayOf(now) \notin dailyRuns]_vars
<1>1. CASE UNCHANGED <<now, wake, window, dailyRuns>>
  BY <1>1 DEF DailyInv
<1>2. CASE Tick
  BY <1>2, DailyTick DEF Tick, jobVars
<1>3. CASE Begin("daily")
  BY <1>3, DailyBegins
<1>4. ASSUME NEW j \in Jobs \ {"daily"}, Begin(j)
      PROVE  DailyInv' /\ window'["daily"] = window["daily"]
  <2>1. /\ UNCHANGED <<now, wake, dailyRuns>>
        /\ \E w : window' = [window EXCEPT ![j] = w]
    BY <1>4 DEF Begin
  <2>2. window'["daily"] = window["daily"]
    BY <2>1 DEF TypeOK, Jobs, Scheduled
  <2>. QED  BY <2>1, <2>2 DEF DailyInv
<1>5. ASSUME NEW j \in Jobs, Sleep(j)
      PROVE  DailyInv' /\ window'["daily"] \in {window["daily"], NoWindow}
  <2>1. /\ UNCHANGED <<now, dailyRuns>>
        /\ window' = [window EXCEPT ![j] = NoWindow]
    BY <1>5 DEF Sleep
  <2>2. window'["daily"] = IF j = "daily" THEN NoWindow ELSE window["daily"]
    BY <2>1 DEF TypeOK, Jobs, Scheduled
  <2>3. wake'["daily"] = IF j = "daily" THEN NextDailyRun(now) ELSE wake["daily"]
    BY <1>5 DEF Sleep, DueAfter, Scheduled
  <2>4. CASE j = "daily"
    BY <2>1, <2>2, <2>3, <2>4, DailyRearmed
  <2>5. CASE j # "daily"
    BY <2>1, <2>2, <2>3, <2>5 DEF DailyInv
  <2>. QED  BY <2>2, <2>4, <2>5
<1>6. CASE Restart
  <2>1. /\ UNCHANGED <<now, dailyRuns>> /\ wake'["daily"] = NextDailyRun(now)
        /\ window'["daily"] = NoWindow
    BY <1>6 DEF Restart, DueAfter, Jobs, Scheduled
  <2>. QED  BY <2>1, DailyRearmed
<1>7. \A s \in Scans : Scan(s) \/ Log(s) => UNCHANGED <<now, wake, window, dailyRuns>>
  BY DEF Scan, Log, jobVars
<1>8. \A j \in Jobs : Upsert(j) \/ Fail(j) => Sleep(j)
  BY DEF Upsert, Fail
<1>. QED  BY <1>1, <1>2, <1>3, <1>4, <1>5, <1>6, <1>7, <1>8 DEF Next, vars

(* The daily job starts at most once a day, whatever is restarted when.       *)
THEOREM OncePerDay == Spec => DailyOncePerDay
<1>1. Init => DailyInv
  <2>. SUFFICES ASSUME Init PROVE DailyInv
    OBVIOUS
  <2>1. /\ now = 0 /\ dailyRuns = {} /\ wake["daily"] = NextDailyRun(0)
    BY DEF Init, DueAfter
  <2>2. /\ \E k \in Nat : NextDailyRun(0) = DayStart(k) + DailyAt
        /\ 0 <= NextDailyRun(0)
    BY NextDailyRunDay
  <2>. QED  BY <2>1, <2>2 DEF DailyInv
<1>2. TypeOK /\ DailyInv /\ [Next]_vars
        => DailyInv' /\ [window["daily"] = NoWindow /\ window'["daily"] # NoWindow
                            => DayOf(now) \notin dailyRuns]_vars
  BY DailyStep
<1>. QED  BY <1>1, <1>2, TypeCorrect, PTL DEF Spec, DailyOncePerDay
================================================================================
