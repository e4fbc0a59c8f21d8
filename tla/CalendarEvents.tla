---------------------------- MODULE CalendarEvents ----------------------------
(* What GoogleCalendarService and CampaignCalendarSyncService compute: periods, *)
(* event lists, the event a campaign becomes and the campaign an event becomes. *)
(*                                                                             *)
(* A day is a number.  The end of an all-day event in Google is the first day  *)
(* it does not cover.  An event that has hours is the days its dateTimes name. *)
EXTENDS Naturals, FiniteSets

CONSTANTS
    Titles, Users,
    LastDay,       \* bound on the days that dates and the clock reach
    MonthLength,   \* days in a month of this calendar
    MaxResults,    \* maxResults of the event list; there is no second page
    None

ASSUME CalendarAssumption ==
    /\ LastDay \in Nat
    /\ MonthLength \in Nat \ {0}
    /\ MaxResults \in Nat

Days == 0 .. LastDay + 1

Date == Days \union {None}

Hash == [title : Titles, starts : Date, ends : Date]

Event == [cal : Users, title : Titles, start : Days, end : Days, live : BOOLEAN]

SyncStatus == {"not_linked", "synced", "out_of_sync", "removed"}

Months == 1 .. 12

(* The answer of _resolve_period_bounds to a request it rejects.              *)
Rejected == [min |-> 1, max |-> 0]

Span(from, to) == [min |-> (from - 1) * MonthLength, max |-> to * MonthLength]

(* Mutant: December is not wrapped into the next year but ends on its first   *)
(* day.                                                                       *)
ShortDecemberBounds(range, month, from, to) ==
    IF range = "year" THEN Span(1, 12)
    ELSE IF month = 12 THEN [Span(12, 12) EXCEPT !.max = 11 * MonthLength]
    ELSE IF month # None THEN Span(month, month)
    ELSE Rejected

(* A year, one month, or a run of months; anything else is a 400.             *)
ResolvePeriodBounds(range, month, from, to) ==
    IF range = "year" THEN Span(1, 12)
    ELSE IF month # None
         THEN IF from = None /\ to = None /\ month \in Months
              THEN Span(month, month)
              ELSE Rejected
    ELSE IF from \in Months /\ to \in Months
         THEN IF from <= to THEN Span(from, to) ELSE Rejected
    ELSE Rejected

(* What Google lists: live events of this calendar that overlap the period.   *)
Overlapping(events, user, period) ==
    {e \in DOMAIN events :
        /\ events[e] # None
        /\ events[e].live
        /\ events[e].cal = user
        /\ events[e].start < period.max
        /\ events[e].end > period.min}

(* The possible answers: the first MaxResults in the order of startTime.      *)
FetchGoogleEvents(events, user, period) ==
    LET all == Overlapping(events, user, period)
    IN  IF Cardinality(all) <= MaxResults
        THEN {all}
        ELSE {page \in SUBSET all :
                /\ Cardinality(page) = MaxResults
                /\ \A e \in page, f \in all \ page :
                      events[e].start <= events[f].start}

(* planned before its start, completed after its end, active otherwise.       *)
DeriveCampaignStatus(start, end, today) ==
    IF end # None /\ end < today THEN "completed"
    ELSE IF start # None /\ start > today THEN "planned"
    ELSE "active"

BuildSyncHash(title, starts, ends) ==
    [title |-> title, starts |-> starts, ends |-> ends]

(* The all-day event of a campaign; a missing start is today, a missing end   *)
(* the start.                                                                 *)
BuildCampaignEvent(c, user, today) ==
    LET start == IF c.start = None THEN today ELSE c.start
        end   == IF c.end = None THEN start ELSE c.end
    IN  [cal |-> user, title |-> c.name, start |-> start, end |-> end + 1,
         live |-> TRUE]

(* Mutant: a day is added to the end on the way in as well.                   *)
ImportLonger(c, event, today) ==
    [c EXCEPT !.name = event.title,
              !.start = event.start,
              !.end = event.end + 1,
              !.status = DeriveCampaignStatus(event.start, event.end, today),
              !.sync = "synced",
              !.hash = BuildSyncHash(event.title, event.start, event.end)]

(* The calendar columns of a campaign after an import.                        *)
ImportInto(c, event, today) ==
    [c EXCEPT !.name = event.title,
              !.start = event.start,
              !.end = event.end,
              !.status = DeriveCampaignStatus(event.start, event.end, today),
              !.sync = "synced",
              !.hash = BuildSyncHash(event.title, event.start, event.end)]

(* Nothing an import would write differs.                                     *)
IsAlreadySynced(c, event, today) ==
    /\ c.name = event.title
    /\ c.start = event.start
    /\ c.end = event.end
    /\ c.status = DeriveCampaignStatus(event.start, event.end, today)
    /\ c.hash = BuildSyncHash(event.title, event.start, event.end)
    /\ c.sync = "synced"
===============================================================================
