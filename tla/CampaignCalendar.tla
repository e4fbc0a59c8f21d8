--------------------------- MODULE CampaignCalendar ---------------------------
(* Campaign rows and Google events, and the requests that tie them together:   *)
(* import of selected events, push of a campaign, removal of the link, beside  *)
(* creation, PATCH and soft deletion of campaigns and edits made in Google.    *)
(*                                                                             *)
(* A request reads its database snapshot first (REPEATABLE READ, from the read *)
(* of the campaign or of the integration), then calls Google, then updates the *)
(* committed rows and commits.  Google is outside the transaction.  Row locks  *)
(* are held from the UPDATE to the commit, with no call in between: both are   *)
(* one step.  Requests that never wait for Google are one step altogether.     *)
EXTENDS CalendarEvents

CONSTANTS
    Requests,      \* request slots: how many may be under way at once
    Admins,        \* users whose access is not limited to their own campaigns
    Periods,       \* the <<range, month>> that imports ask for
    Spans,         \* the <<start, end>> that campaigns and events are given
    Patches,       \* the PATCH payloads: records of some of a campaign's fields
    FirstDay,      \* the day it is at first
    MaxCampaigns,  \* bound on rows ever created
    MaxEvents,     \* bound on Google events ever created
    MaxSteps       \* bound on requests and on edits in Google

ASSUME LinkAssumption ==
    /\ Admins \subseteq Users
    /\ FirstDay \in 0 .. LastDay
    /\ Spans \subseteq (0 .. LastDay \union {None}) \X (0 .. LastDay \union {None})
    /\ {MaxCampaigns, MaxEvents, MaxSteps} \subseteq Nat

Ids == 1 .. MaxCampaigns

EventIds == 1 .. MaxEvents

Status == {"planned", "active", "completed"}

Campaign ==
    [owner : Users, name : Titles, start : Date, end : Date, status : Status,
     link : EventIds \union {None}, sync : SyncStatus,
     hash : Hash \union {None}, deleted : BOOLEAN]

(* What CampaignUpdate has fields for; it forbids all others.                 *)
Patchable ==
    [name |-> Titles, start |-> Date, end |-> Date, status |-> Status,
     link |-> EventIds \union {None}, sync |-> SyncStatus, hash |-> Hash \union {None}]

ASSUME PatchAssumption ==
    \A patch \in Patches :
        /\ DOMAIN patch \subseteq DOMAIN Patchable
        /\ \A f \in DOMAIN patch : patch[f] \in Patchable[f]

(* The rows, by id, as committed or in a snapshot.                            *)
Table == [Ids -> Campaign \union {None}]

ASSUME NoneAssumption ==
    /\ None \notin Nat \union Users \union Campaign \union Hash \union Event
    /\ None \notin Table

VARIABLES
    campaigns,  \* the committed rows, by id
    events,     \* what the Google calendars hold, by event id
    today,
    req,        \* the request in each slot
    view,       \* the snapshot each request reads, or None
    got,        \* the events an import was given
    steps,      \* how many requests and edits there have been
    stale,      \* history: requests overtaken by another one's commit
    serial,     \* history: no overtaken request has written
    manual,     \* history: rows whose calendar columns a client has set
    pushed,     \* history: events that pushes have created
    stray,      \* history: events an interrupted or foreign request has orphaned
    gone,       \* history: events deleted in Google
    fresh       \* history: rows imported since when nothing has changed

requestVars == <<req, view, got>>
historyVars == <<stale, serial, manual, pushed, stray, gone, fresh>>
vars == <<campaigns, events, today, requestVars, steps, historyVars>>

Request ==
    [kind : {"none", "import", "push", "unlink"}, pc : {"idle", "calling", "saving"},
     user : Users \union {None}, camp : Ids \union {None}, sel : SUBSET EventIds,
     period : [min : Nat, max : Nat], event : EventIds \union {None}]

Idle == [kind |-> "none", pc |-> "idle", user |-> None, camp |-> None,
         sel |-> {}, period |-> Rejected, event |-> None]

TypeOK ==
    /\ campaigns \in Table
    /\ events \in [EventIds -> Event \union {None}]
    /\ events \in [EventIds -> Event \union {None}]
    /\ today \in FirstDay .. LastDay
    /\ req \in [Requests -> Request]
    /\ view \in [Requests -> Table \union {None}]
    /\ DOMAIN got = Requests
    /\ \A r \in Requests : \E given \in SUBSET EventIds : got[r] \in [given -> Event]
    /\ steps \in 0 .. MaxSteps
    /\ stale \subseteq Requests
    /\ serial \in BOOLEAN
    /\ manual \union fresh \subseteq Ids
    /\ pushed \union stray \union gone \subseteq EventIds

(* One campaign that is not linked and one event that somebody made in Google *)
Init ==
    /\ \E u \in Users, t \in Titles, s \in Spans :
        /\ campaigns = [c \in Ids |->
             IF c = 1
             THEN [owner |-> u, name |-> t, start |-> s[1], end |-> s[2],
                   status |-> "planned", link |-> None, sync |-> "not_linked",
                   hash |-> None, deleted |-> FALSE]
             ELSE None]
        /\ s[1] # None /\ s[2] # None /\ s[1] <= s[2]
        /\ events = [e \in EventIds |->
             IF e = 1
             THEN [cal |-> u, title |-> t, start |-> s[1], end |-> s[2] + 1,
                   live |-> TRUE]
             ELSE None]
    /\ today = FirstDay
    /\ req = [r \in Requests |-> Idle]
    /\ view = [r \in Requests |-> None]
    /\ got = [r \in Requests |-> <<>>]
    /\ steps = 0
    /\ stale = {} /\ serial = TRUE /\ manual = {}
    /\ pushed = {} /\ stray = {} /\ gone = {} /\ fresh = {}
-------------------------------------------------------------------------------
(* ensure_scope_access without a company resolver, as the endpoints build it. *)
MayAccess(u, c) == u \in Admins \/ c.owner = u

Exists(c) == campaigns[c] # None /\ ~campaigns[c].deleted

Used == Cardinality({c \in Ids : campaigns[c] # None})

Made == Cardinality({e \in EventIds : events[e] # None})

(* A request or an edit: the model makes at most MaxSteps of them.            *)
Step == steps < MaxSteps /\ steps' = steps + 1

(* Whoever has a snapshot older than this commit is overtaken by it.          *)
Overtake(writers) == stale' = {r \in Requests : req'[r] # Idle} \ writers

(* Rows whose import still holds: nothing about them has changed.             *)
KeepFresh(imported) ==
    fresh' = imported \union
        {c \in fresh :
            /\ campaigns'[c] = campaigns[c]
            /\ events'[campaigns[c].link] = events[campaigns[c].link]
            /\ today' = today}

End(r) ==
    /\ req' = [req EXCEPT ![r] = Idle]
    /\ view' = [view EXCEPT ![r] = None]
    /\ got' = [got EXCEPT ![r] = <<>>]

Begin(r, request) ==
    /\ req[r] = Idle
    /\ Step
    /\ req' = [req EXCEPT ![r] = request]
    /\ view' = [view EXCEPT ![r] = campaigns]
    /\ UNCHANGED <<campaigns, events, today, got, historyVars>>

(* POST import-campaigns: the snapshot is that of the integration's read.     *)
StartImport(r, u) ==
    \E p \in Periods, sel \in SUBSET {e \in EventIds : events[e] # None} :
        /\ sel # {}
        /\ ResolvePeriodBounds(p[1], p[2], None, None) # Rejected
        /\ Begin(r, [Idle EXCEPT
             !.kind = "import", !.pc = "calling", !.user = u, !.sel = sel,
             !.period = ResolvePeriodBounds(p[1], p[2], None, None)])

(* POST calendar/sync: get_campaign, with its access check.                   *)
StartPush(r, u, c) ==
    /\ Exists(c) /\ MayAccess(u, campaigns[c])
    /\ Begin(r, [Idle EXCEPT !.kind = "push", !.pc = "calling", !.user = u,
                             !.camp = c])

(* DELETE calendar/link: a campaign that has no link is a 400.                *)
StartUnlink(r, u, c) ==
    /\ Exists(c) /\ MayAccess(u, campaigns[c])
    /\ campaigns[c].link # None
    /\ Begin(r, [Idle EXCEPT !.kind = "unlink", !.pc = "calling", !.user = u,
                             !.camp = c])

(* The request fails: Google answers with an error or not in time, though it  *)
(* may have done its part, the process dies, or the commit is refused.        *)
Abort(r) ==
    /\ req[r] # Idle
    /\ End(r)
    /\ stray' = stray \union
         {e \in {req[r].event} \ {None} :
            req[r].kind = "unlink" \/ view[r][req[r].camp].link = None}
    /\ stale' = stale \ {r}
    /\ UNCHANGED <<campaigns, events, today, steps, serial, manual, pushed,
                   gone, fresh>>

FetchEvents(r) ==
    /\ req[r].kind = "import" /\ req[r].pc = "calling"
    /\ \E page \in FetchGoogleEvents(events, req[r].user, req[r].period) :
         got' = [got EXCEPT ![r] = [e \in page \intersect req[r].sel |-> events[e]]]
    /\ req' = [req EXCEPT ![r].pc = "saving"]
    /\ UNCHANGED <<campaigns, events, today, view, steps, historyVars>>

(* Mutant: an event is found by its title and its end too.                    *)
MatchesByTitle(r, e) ==
    {c \in Ids : /\ view[r][c] # None
                 /\ view[r][c].owner = req[r].user
                 /\ view[r][c].link = e
                 /\ view[r][c].name = got[r][e].title
                 /\ view[r][c].end = got[r][e].end
                 /\ ~view[r][c].deleted}

(* get_by_user_and_google_event_id, in the request's snapshot.                *)
Matches(r, e) ==
    {c \in Ids : /\ view[r][c] # None
                 /\ view[r][c].owner = req[r].user
                 /\ view[r][c].link = e
                 /\ ~view[r][c].deleted}

NewCampaign(owner, title) ==
    [owner |-> owner, name |-> title, start |-> None, end |-> None,
     status |-> "planned", link |-> None, sync |-> "not_linked", hash |-> None,
     deleted |-> FALSE]

(* Mutant: an update leaves the hash of the campaign as it was.               *)
UpdateKeepingHash(r, c, event) ==
    IF \/ IsAlreadySynced(view[r][c], event, today)
       \/ campaigns[c].deleted
    THEN campaigns[c]
    ELSE [ImportInto(campaigns[c], event, today) EXCEPT !.hash = campaigns[c].hash]

(* The campaign found is compared as the snapshot has it; the UPDATE changes  *)
(* the committed row unless that is deleted.                                  *)
UpdateImported(r, c, event) ==
    IF \/ IsAlreadySynced(view[r][c], event, today)
       \/ campaigns[c].deleted
    THEN campaigns[c]
    ELSE ImportInto(campaigns[c], event, today)

(* What the lookups may find: the row of each event listed, or none.          *)
Lookups(r) ==
    {found \in [DOMAIN got[r] -> Ids \union {None}] :
        \A e \in DOMAIN got[r] :
            IF Matches(r, e) = {} THEN found[e] = None ELSE found[e] \in Matches(r, e)}

Created(r, found) == {e \in DOMAIN got[r] : found[e] = None}

NewId(r, found, e) == Used + Cardinality({f \in Created(r, found) : f <= e})

(* create, and the update of the new row with its link.                       *)
CreateImported(r, e) ==
    [ImportInto(NewCampaign(req[r].user, got[r][e].title), got[r][e], today)
        EXCEPT !.link = e]

(* A row after the loop over the selected events that were listed.            *)
ImportedRow(r, found, c) ==
    IF \E e \in Created(r, found) : NewId(r, found, e) = c
    THEN CreateImported(r, CHOOSE e \in Created(r, found) : NewId(r, found, e) = c)
    ELSE IF \E e \in DOMAIN got[r] : found[e] = c
    THEN UpdateImported(r, c, got[r][CHOOSE e \in DOMAIN got[r] : found[e] = c])
    ELSE campaigns[c]

(* The rows that the import leaves as their events are now.                   *)
Imported(r, found) ==
    {c \in Ids :
        /\ r \notin stale
        /\ \E e \in DOMAIN got[r] :
             /\ got[r][e] = events[e]
             /\ c = IF e \in Created(r, found) THEN NewId(r, found, e) ELSE found[e]}

(* The loop and the commit.                                                   *)
SaveImport(r) ==
    /\ req[r].kind = "import" /\ req[r].pc = "saving"
    /\ \E found \in Lookups(r) :
        /\ Used + Cardinality(Created(r, found)) <= MaxCampaigns
        /\ campaigns' = [c \in Ids |-> ImportedRow(r, found, c)]
        /\ End(r)
        /\ UNCHANGED <<events, today, steps, manual, pushed, stray, gone>>
        /\ Overtake({r})
        /\ serial' = (serial /\ r \notin stale)
        /\ KeepFresh(Imported(r, found))

(* What this user's token reaches: live events of their own calendar.         *)
InCalendar(u, e) == events[e].live /\ events[e].cal = u

(* The event a push writes: a new one if the snapshot has no link.            *)
PushTarget(r) ==
    LET link == view[r][req[r].camp].link
    IN  IF link = None
        THEN Made + 1
        ELSE link

(* A POST of the event when the snapshot has no link, a PATCH of the linked   *)
(* event otherwise; the latter fails unless this user's calendar has it, and  *)
(* both do if the event would end before it starts, which nothing checks.     *)
CallPush(r) ==
    LET row == view[r][req[r].camp]
        event == PushTarget(r)
        payload == BuildCampaignEvent(row, req[r].user, today)
    IN  /\ req[r].kind = "push" /\ req[r].pc = "calling"
        /\ event \in EventIds
        /\ payload.end \in Days /\ payload.start < payload.end
        /\ row.link # None => InCalendar(req[r].user, event)
        /\ events' = [events EXCEPT ![event] = payload]
        /\ pushed' = IF row.link = None THEN pushed \union {event} ELSE pushed
        /\ req' = [req EXCEPT ![r].pc = "saving", ![r].event = event]
        /\ UNCHANGED <<campaigns, today, view, got, steps, stale, serial, manual,
                       stray, gone>>
        /\ KeepFresh({})

(* UPDATE ... WHERE deleted_at IS NULL of the campaign, and the commit.  One  *)
(* that matches nothing goes unnoticed: the snapshot still has the row.       *)
SaveRow(r, row) ==
    /\ campaigns' = IF Exists(req[r].camp)
                    THEN [campaigns EXCEPT ![req[r].camp] = row]
                    ELSE campaigns
    /\ End(r)
    /\ UNCHANGED <<events, today, steps, pushed, stray, gone>>
    /\ Overtake({r})
    /\ serial' = (serial /\ r \notin stale)
    /\ KeepFresh({})

(* Mutant: only a campaign that had no link is told its event.                *)
SavePushStatusOnly(r) ==
    LET row == view[r][req[r].camp]
    IN  /\ req[r].kind = "push" /\ req[r].pc = "saving"
        /\ SaveRow(r, [campaigns[req[r].camp] EXCEPT
             !.sync = "synced",
             !.hash = BuildSyncHash(row.name, row.start, row.end)])
        /\ UNCHANGED manual

SavePush(r) ==
    LET row == view[r][req[r].camp]
    IN  /\ req[r].kind = "push" /\ req[r].pc = "saving"
        /\ SaveRow(r, [campaigns[req[r].camp] EXCEPT
             !.link = req[r].event,
             !.sync = "synced",
             !.hash = BuildSyncHash(row.name, row.start, row.end)])
        /\ UNCHANGED manual

(* Google deletes the event if this user's calendar has it; a 404 is success. *)
CallUnlink(r) ==
    LET event == view[r][req[r].camp].link
        mine == InCalendar(req[r].user, event)
        others == {c \in Ids \ {req[r].camp} :
                     campaigns[c] # None /\ campaigns[c].link = event}
    IN  /\ req[r].kind = "unlink" /\ req[r].pc = "calling"
        /\ events' = IF mine THEN [events EXCEPT ![event].live = FALSE] ELSE events
        /\ req' = [req EXCEPT ![r].pc = "saving", ![r].event = event]
        /\ stray' = IF (mine /\ others # {}) \/ (events[event].live /\ ~mine)
                    THEN stray \union {event} ELSE stray
        /\ UNCHANGED <<campaigns, today, view, got, steps, stale, serial, manual,
                       pushed, gone>>
        /\ KeepFresh({})

(* Mutant: the link is kept.                                                  *)
SaveUnlinkKeepingLink(r) ==
    /\ req[r].kind = "unlink" /\ req[r].pc = "saving"
    /\ SaveRow(r, [campaigns[req[r].camp] EXCEPT !.sync = "removed", !.hash = None])
    /\ manual' = manual \ {req[r].camp}

SaveUnlink(r) ==
    /\ req[r].kind = "unlink" /\ req[r].pc = "saving"
    /\ SaveRow(r, [campaigns[req[r].camp] EXCEPT
         !.link = None, !.sync = "removed", !.hash = None])
    /\ manual' = manual \ {req[r].camp}
-------------------------------------------------------------------------------
(* Requests that do not wait for Google read, check and write in one step.    *)
WriteRow(c, row) ==
    /\ Step
    /\ campaigns' = [campaigns EXCEPT ![c] = row]
    /\ UNCHANGED <<events, today, requestVars, serial, pushed, gone>>
    /\ Overtake({})
    /\ KeepFresh({})

CreateCampaign(u, owner) ==
    /\ u \in Admins \/ owner = u
    /\ Used < MaxCampaigns
    /\ \E t \in Titles, s \in Spans :
         WriteRow(Used + 1, [NewCampaign(owner, t) EXCEPT
                               !.start = s[1], !.end = s[2]])
    /\ UNCHANGED <<manual, stray>>

(* The row with the fields that the patch is given.                           *)
Patched(row, patch) ==
    [f \in DOMAIN row |-> IF f \in DOMAIN patch THEN patch[f] ELSE row[f]]

(* PATCH writes the fields it is given, the calendar columns among them.  An  *)
(* id that Google never gave is like one of an event that is gone.            *)
PatchCampaign(u, c) ==
    /\ Exists(c) /\ MayAccess(u, campaigns[c])
    /\ \E patch \in Patches :
        LET row == Patched(campaigns[c], patch)
        IN  /\ row.link # None => events[row.link] # None
            /\ WriteRow(c, row)
            /\ manual' = IF DOMAIN patch \intersect {"link", "sync", "hash"} = {}
                         THEN manual ELSE manual \union {c}
            /\ stray' = stray \union ({campaigns[c].link} \ {row.link, None})

(* The soft delete keeps the link, and the event stays in the calendar.       *)
DeleteCampaign(u, c) ==
    /\ Exists(c) /\ MayAccess(u, campaigns[c])
    /\ WriteRow(c, [campaigns[c] EXCEPT !.deleted = TRUE])
    /\ UNCHANGED <<manual, stray>>

EditGoogle(e, event) ==
    /\ Step
    /\ events' = [events EXCEPT ![e] = event]
    /\ UNCHANGED <<campaigns, today, requestVars, stale, serial, manual, pushed,
                   stray>>
    /\ KeepFresh({})

GoogleCreate(u) ==
    /\ \E t \in Titles, s \in Spans, e \in EventIds :
         /\ s[1] # None /\ s[2] # None /\ s[1] <= s[2]
         /\ e = Made + 1
         /\ EditGoogle(e, [cal |-> u, title |-> t, start |-> s[1],
                           end |-> s[2] + 1, live |-> TRUE])
    /\ UNCHANGED gone

GoogleChange(e) ==
    /\ events[e] # None /\ events[e].live
    /\ \E t \in Titles, s \in Spans :
         /\ s[1] # None /\ s[2] # None /\ s[1] <= s[2]
         /\ EditGoogle(e, [events[e] EXCEPT !.title = t, !.start = s[1],
                                            !.end = s[2] + 1])
    /\ UNCHANGED gone

GoogleDelete(e) ==
    /\ events[e] # None /\ events[e].live
    /\ EditGoogle(e, [events[e] EXCEPT !.live = FALSE])
    /\ gone' = gone \union {e}

Tick ==
    /\ today < LastDay
    /\ today' = today + 1
    /\ UNCHANGED <<campaigns, events, requestVars, steps, stale, serial, manual,
                   pushed, stray, gone>>
    /\ KeepFresh({})

Next ==
    \/ \E r \in Requests, u \in Users :
        \/ StartImport(r, u)
        \/ \E c \in Ids : StartPush(r, u, c) \/ StartUnlink(r, u, c)
    \/ \E r \in Requests :
        \/ FetchEvents(r) \/ SaveImport(r)
        \/ CallPush(r) \/ SavePush(r)
        \/ CallUnlink(r) \/ SaveUnlink(r)
        \/ Abort(r)
    \/ \E u, owner \in Users : CreateCampaign(u, owner)
    \/ \E u \in Users, c \in Ids : PatchCampaign(u, c) \/ DeleteCampaign(u, c)
    \/ \E u \in Users : GoogleCreate(u)
    \/ \E e \in EventIds : GoogleChange(e) \/ GoogleDelete(e)
    \/ Tick

Spec == Init /\ [][Next]_vars
-------------------------------------------------------------------------------
Live == {c \in Ids : Exists(c)}

(* An import never makes a second campaign of an event that is a campaign of  *)
(* this user: what no unique key prevents, import_selected_events does.       *)
UniqueLinks ==
    \A c, d \in Live \ manual :
        /\ campaigns[c].link = campaigns[d].link
        /\ campaigns[c].link # None
        /\ campaigns[c].owner = campaigns[d].owner
        => c = d

(* A campaign has one event and an event one campaign of its owner, unless a  *)
(* request wrote after another had changed what it read, or a client chose    *)
(* the link itself (CampaignRepository.update).                               *)
OneCampaignPerEvent == serial => UniqueLinks

(* What api/v1/integrations.py:116 says of imports, without that exception.   *)
IdempotentLinkage == UniqueLinks

(* The calendar columns agree: synced campaigns have an event and a hash, the *)
(* others neither, over any sequence of imports, pushes, unlinks and edits.   *)
LinkMatchesStatus ==
    serial => \A c \in Live \ manual :
        /\ (campaigns[c].link # None) = (campaigns[c].sync = "synced")
        /\ (campaigns[c].link # None) = (campaigns[c].hash # None)

(* An event that a push created is known to a campaign, deleted ones too, or  *)
(* to the push, unless a request broke off between Google and its commit, the *)
(* link was displaced, or the unlink was another user's (who gets a 404).     *)
NoOrphanEvent ==
    \A e \in pushed \ stray :
        events[e].live =>
            \/ \E c \in Ids : campaigns[c] # None /\ campaigns[c].link = e
            \/ \E r \in Requests : req[r].event = e

(* A link to an event that is gone has a cause outside: somebody deleted the  *)
(* event in Google, or a request broke off; or an unlink is about to commit.  *)
DanglingLinkExplained ==
    \A c \in Live \ manual :
        LET e == campaigns[c].link
        IN  e # None /\ ~events[e].live =>
                \/ e \in gone \union stray
                \/ \E r \in Requests : req[r].kind = "unlink" /\ req[r].event = e

(* The two stores agree, though no transaction spans them: whichever is       *)
(* written first, nothing is left behind on one side without a cause.         *)
EventsAccountedFor == serial => NoOrphanEvent /\ DanglingLinkExplained

(* A repeated import changes nothing: after one, _is_already_synced holds of  *)
(* the campaign as long as it, its event and the day stay the same.           *)
RepeatImportSkips ==
    \A c \in fresh : IsAlreadySynced(campaigns[c], events[campaigns[c].link], today)

(* Listing a year is listing each of its months, and so is listing two: no    *)
(* event falls between the bounds of one and the next, nor into the wrong year *)
(* (_resolve_period_bounds).                                                  *)
PeriodsAgree ==
    \A u \in Users :
        LET Listed(range, m, from, to) ==
                Overlapping(events, u, ResolvePeriodBounds(range, m, from, to))
            month == [m \in Months |-> Listed("month", m, None, None)]
        IN  /\ Listed("year", None, None, None) = UNION {month[m] : m \in Months}
            /\ \A m \in Months \ {12} :
                 Listed("month", None, m, m + 1) = month[m] \union month[m + 1]
===============================================================================
