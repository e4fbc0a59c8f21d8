------------------------- MODULE CampaignCalendarProofs ------------------------
(* Proofs, for any users, titles, spans, patches, requests and bounds, of the *)
(* safety properties of CampaignCalendar.                                     *)
EXTENDS CampaignCalendar, FiniteSetTheorems, TLAPS

(* Ids are given out in order, and rows stay.                                 *)
DenseInv ==
    /\ \E n \in 0 .. MaxCampaigns : \A c \in Ids : campaigns[c] # None <=> c <= n
    /\ \E n \in 0 .. MaxEvents : \A e \in EventIds : events[e] # None <=> e <= n

(* Every event is of at least one day, as Google demands.                     *)
SpanInv == \A e \in EventIds : events[e] # None => events[e].start < events[e].end

(* The rows of a table link events that there are or were.                    *)
LinksExist(table) ==
    \A c \in Ids :
        table[c] # None /\ table[c].link # None => events[table[c].link] # None

Writing(r) == req[r].kind \in {"push", "unlink"}

RequestOK(r) ==
    /\ req[r].kind # "none" /\ req[r].pc # "idle"
    /\ req[r].user \in Users
    /\ view[r] # None
    /\ \A c \in Ids : view[r][c] # None => campaigns[c] # None
    /\ LinksExist(view[r])
    /\ req[r].event # None => events[req[r].event] # None
    /\ req[r].kind = "import" \/ req[r].pc = "calling" => req[r].event = None
    /\ Writing(r) =>
        /\ req[r].camp \in Ids
        /\ view[r][req[r].camp] # None
        /\ ~view[r][req[r].camp].deleted
    /\ req[r].kind = "unlink" => view[r][req[r].camp].link # None
    /\ Writing(r) /\ req[r].pc = "saving" =>
        /\ req[r].event # None
        /\ view[r][req[r].camp].link \in {None, req[r].event}

RequestInv ==
    \A r \in Requests :
        /\ req[r] # Idle => RequestOK(r)
        /\ \A e \in DOMAIN got[r] : events[e] # None

(* A snapshot is what is committed until another request commits.             *)
SnapshotInv ==
    \A r \in Requests : req[r] # Idle /\ r \notin stale => view[r] = campaigns

(* A push that has made a new event and not yet linked it.                    *)
Creating(r) ==
    /\ req[r].kind = "push" /\ req[r].pc = "saving"
    /\ view[r][req[r].camp].link = None

(* No row links the new event before the push does.                           *)
CreatingInv ==
    \A r \in Requests :
        Creating(r) /\ r \notin stale =>
            \A c \in Ids : campaigns[c] # None => campaigns[c].link # req[r].event

(* A push's event that lives is linked, or is about to be.                    *)
KnownInv ==
    \A e \in pushed \ stray :
        events[e].live =>
            \/ \E c \in Ids : campaigns[c] # None /\ campaigns[c].link = e
            \/ \E r \in Requests : Creating(r) /\ req[r].event = e

Unlinking(r) == req[r].kind = "unlink" /\ req[r].pc = "saving"

(* What explains that the event of a link is gone.                            *)
Explained(e, except) ==
    \/ e \in gone \union stray
    \/ \E r \in Requests \ except : req[r].kind = "unlink" /\ req[r].event = e

(* When an unlink commits, no other campaign needs it for an explanation.     *)
OthersInv ==
    \A r \in Requests :
        Unlinking(r) /\ r \notin stale =>
            \A c \in (Live \ manual) \ {req[r].camp} :
                campaigns[c].link = req[r].event => Explained(req[r].event, {r})

Importing(r) == req[r].kind = "import" /\ req[r].pc = "saving"

(* The events that a request is about to link.                                *)
Linking(r) ==
    {e \in EventIds : \/ Creating(r) /\ req[r].event = e
                      \/ Importing(r) /\ e \in DOMAIN got[r]}

(* An event that is gone before it is linked is explained as a link to it     *)
(* would have to be.                                                          *)
LostInv ==
    \A r \in Requests :
        r \notin stale =>
            \A e \in Linking(r) : events[e].live \/ Explained(e, {})

(* An unlink whose event lives on has found it in another calendar.           *)
UnlinkInv ==
    \A r \in Requests :
        Unlinking(r) => ~events[req[r].event].live \/ req[r].event \in stray

HistoryInv ==
    /\ \A e \in pushed : events[e] # None
    /\ LostInv
    /\ serial =>
        /\ UniqueLinks
        /\ KnownInv
        /\ DanglingLinkExplained
        /\ OthersInv

IInv ==
    /\ TypeOK
    /\ DenseInv /\ SpanInv /\ LinksExist(campaigns)
    /\ RequestInv /\ SnapshotInv /\ CreatingInv /\ UnlinkInv
    /\ HistoryInv
    /\ LinkMatchesStatus
    /\ RepeatImportSkips
-------------------------------------------------------------------------------
(* None stands beside no value it could be taken for.                         *)
LEMMA NoneFacts ==
    /\ None \notin EventIds /\ None \notin Ids /\ None \notin Days
    /\ None \notin Users /\ None \notin Campaign /\ None \notin Hash
    /\ None \notin Event
BY NoneAssumption, CalendarAssumption, LinkAssumption DEF EventIds, Ids, Days

LEMMA SpanType ==
    ASSUME NEW from \in Months, NEW to \in Months
    PROVE  Span(from, to) \in [min : Nat, max : Nat]
<1>1. from - 1 \in Nat /\ to \in Nat /\ MonthLength \in Nat
      BY CalendarAssumption DEF Months
<1>2. \A m, n \in Nat : m * n \in Nat
      OBVIOUS
<1> QED BY <1>1, <1>2 DEF Span

LEMMA BoundsType ==
    ASSUME NEW range, NEW month, NEW from, NEW to
    PROVE  ResolvePeriodBounds(range, month, from, to) \in [min : Nat, max : Nat]
<1>1. Rejected \in [min : Nat, max : Nat]
      BY DEF Rejected
<1>2. 1 \in Months /\ 12 \in Months
      BY DEF Months
<1> QED BY <1>1, <1>2, SpanType DEF ResolvePeriodBounds

LEMMA IdleType == Idle \in Request
BY DEF Idle, Request, Rejected

(* Where the clock stands, a status follows.                                  *)
LEMMA StatusType ==
    ASSUME NEW start, NEW end, NEW day
    PROVE  DeriveCampaignStatus(start, end, day) \in Status
BY DEF DeriveCampaignStatus, Status

LEMMA ImportType ==
    ASSUME NEW c \in Campaign, NEW event \in Event, NEW day
    PROVE  /\ ImportInto(c, event, day) \in Campaign
           /\ ImportInto(c, event, day).link = c.link
           /\ ImportInto(c, event, day).owner = c.owner
           /\ ImportInto(c, event, day).deleted = c.deleted
           /\ ImportInto(c, event, day).sync = "synced"
           /\ ImportInto(c, event, day).hash # None
           /\ IsAlreadySynced(ImportInto(c, event, day), event, day)
<1>1. BuildSyncHash(event.title, event.start, event.end) \in Hash
      BY DEF BuildSyncHash, Hash, Event, Date
<1>2. /\ event.title \in Titles /\ event.start \in Date /\ event.end \in Date
      /\ "synced" \in SyncStatus
      /\ DeriveCampaignStatus(event.start, event.end, day) \in Status
      BY StatusType DEF Event, Date, SyncStatus
<1> QED BY <1>1, <1>2, NoneFacts DEF ImportInto, Campaign, IsAlreadySynced

(* As many rows are used as the last id given out says.                       *)
LEMMA DenseCount ==
    ASSUME NEW bound \in Nat, NEW n \in 0 .. bound,
           NEW table, \A c \in 1 .. bound : table[c] # None <=> c <= n
    PROVE  Cardinality({c \in 1 .. bound : table[c] # None}) = n
<1>1. {c \in 1 .. bound : table[c] # None} = 1 .. n
      OBVIOUS
<1>2. /\ 1 \in Int /\ n \in Int
      /\ n - 1 + 1 = n
      /\ 1 > n => n = 0
      OBVIOUS
<1> QED BY <1>1, <1>2, FS_Interval

LEMMA UsedFacts ==
    ASSUME IInv
    PROVE  /\ Used \in 0 .. MaxCampaigns
           /\ \A c \in Ids : campaigns[c] # None <=> c <= Used
           /\ Made \in 0 .. MaxEvents
           /\ \A e \in EventIds : events[e] # None <=> e <= Made
<1>1. MaxCampaigns \in Nat /\ MaxEvents \in Nat
      BY LinkAssumption
<1>2. PICK n \in 0 .. MaxCampaigns : \A c \in Ids : campaigns[c] # None <=> c <= n
      BY DEF IInv, DenseInv
<1>3. PICK m \in 0 .. MaxEvents : \A e \in EventIds : events[e] # None <=> e <= m
      BY DEF IInv, DenseInv
<1>4. Used = n
      BY <1>1, <1>2, DenseCount DEF Used, Ids
<1>5. Made = m
      BY <1>1, <1>3, DenseCount DEF Made, EventIds
<1> QED BY <1>2, <1>3, <1>4, <1>5
-------------------------------------------------------------------------------
LEMMA InitInv == Init => IInv
<1> SUFFICES ASSUME Init
             PROVE  IInv
    OBVIOUS
<1>1. PICK u \in Users, t \in Titles, s \in Spans :
        /\ campaigns = [c \in Ids |->
             IF c = 1
             THEN [owner |-> u, name |-> t, start |-> s[1], end |-> s[2],
                   status |-> "planned", link |-> None, sync |-> "not_linked",
                   hash |-> None, deleted |-> FALSE]
             ELSE None]
        /\ s[1] # None /\ s[2] # None /\ s[1] <= s[2]
        /\ events = [e \in EventIds |->
             IF e = 1
             THEN [cal |-> u, title |-> t, start |-> s[1], end |-> s[2] + 1,
                   live |-> TRUE]
             ELSE None]
      BY DEF Init
<1>2. /\ s[1] \in 0 .. LastDay /\ s[2] \in 0 .. LastDay
      /\ s[2] + 1 \in Days /\ s[1] \in Days /\ s[2] \in Days
      /\ LastDay \in Nat
      BY <1>1, LinkAssumption, CalendarAssumption DEF Days
<1>3. campaigns \in Table
      BY <1>1, <1>2 DEF Table, Campaign, Date, Status, SyncStatus
<1>4. events \in [EventIds -> Event \union {None}]
      BY <1>1, <1>2 DEF Event
<1>5. TypeOK
  <2>1. req \in [Requests -> Request]
        BY IdleType DEF Init
  <2>2. today \in FirstDay .. LastDay /\ steps \in 0 .. MaxSteps
        BY LinkAssumption, CalendarAssumption DEF Init
  <2>3. \A r \in Requests : got[r] \in [{} -> Event]
        BY DEF Init
  <2>4. DOMAIN got = Requests
        BY DEF Init
  <2>5. view \in [Requests -> Table \union {None}]
        BY DEF Init
  <2>6. \A r \in Requests : \E given \in SUBSET EventIds : got[r] \in [given -> Event]
        BY <2>3
  <2> QED BY <1>3, <1>4, <2>1, <2>2, <2>4, <2>5, <2>6 DEF TypeOK, Init
<1>6. DenseInv
  <2>3. \A c \in Ids : campaigns[c] # None <=> c = 1
    <3>1. 1 \in Ids => campaigns[1] \in Campaign
          BY <1>1, <1>2 DEF Campaign, Date, Status, SyncStatus
    <3> QED BY <1>1, <3>1, NoneFacts
  <2>4. \A e \in EventIds : events[e] # None <=> e = 1
    <3>1. 1 \in EventIds => events[1] \in Event
          BY <1>1, <1>2 DEF Event
    <3> QED BY <1>1, <3>1, NoneFacts
  <2>1. \A c \in Ids : campaigns[c] # None <=> c <= IF MaxCampaigns = 0 THEN 0 ELSE 1
        BY <2>3, LinkAssumption DEF Ids
  <2>2. \A e \in EventIds : events[e] # None <=> e <= IF MaxEvents = 0 THEN 0 ELSE 1
        BY <2>4, LinkAssumption DEF EventIds
  <2> QED BY <2>1, <2>2, LinkAssumption DEF DenseInv
<1>7. SpanInv
      BY <1>1, <1>2, CalendarAssumption DEF SpanInv
<1>8. LinksExist(campaigns) /\ UniqueLinks /\ LinkMatchesStatus
  <2>1. \A c \in Ids :
            campaigns[c] # None =>
                campaigns[c].link = None /\ campaigns[c].sync = "not_linked"
                    /\ campaigns[c].hash = None
        BY <1>1
  <2> QED BY <2>1 DEF LinksExist, UniqueLinks, LinkMatchesStatus, Live, Exists
<1>9. /\ RequestInv /\ SnapshotInv /\ CreatingInv /\ UnlinkInv /\ OthersInv
      /\ LostInv
  <2>1. \A r \in Requests : req[r] = Idle /\ got[r] = <<>> /\ req[r].kind = "none"
        BY DEF Init, Idle
  <2> QED BY <2>1 DEF RequestInv, SnapshotInv, CreatingInv, Creating, UnlinkInv,
                      Unlinking, OthersInv, LostInv, Linking, Importing
<1>10. KnownInv /\ DanglingLinkExplained /\ RepeatImportSkips
      BY <1>1 DEF Init, KnownInv, DanglingLinkExplained, RepeatImportSkips, Live, Exists
<1> QED BY <1>5, <1>6, <1>7, <1>8, <1>9, <1>10 DEF IInv, HistoryInv, Init
-------------------------------------------------------------------------------
(* Steps of one request leave the others as they are.                         *)
SlotOnly(r) ==
    \A q \in Requests \ {r} :
        req'[q] = req[q] /\ view'[q] = view[q] /\ got'[q] = got[q]

LEMMA IdleFacts ==
    ASSUME IInv, NEW r \in Requests
    PROVE  req[r] = Idle <=> req[r].kind = "none"
<1>1. Idle.kind = "none"
      BY DEF Idle
<1>2. req[r] # Idle => RequestOK(r)
      BY DEF IInv, RequestInv
<1>3. req[r] # Idle => req[r].kind # "none"
      BY <1>2 DEF RequestOK
<1> QED BY <1>1, <1>3

LEMMA EndFacts ==
    ASSUME TypeOK, NEW r \in Requests, End(r)
    PROVE  /\ req'[r] = Idle /\ view'[r] = None /\ got'[r] = <<>>
           /\ SlotOnly(r)
           /\ req' \in [Requests -> Request]
           /\ view' \in [Requests -> Table \union {None}]
           /\ DOMAIN got' = Requests
           /\ \A q \in Requests :
                \E given \in SUBSET EventIds : got'[q] \in [given -> Event]
<1>1. <<>> \in [{} -> Event]
      OBVIOUS
<1>2. /\ req'[r] = Idle /\ view'[r] = None /\ got'[r] = <<>>
      /\ SlotOnly(r)
      /\ req' \in [Requests -> Request]
      /\ view' \in [Requests -> Table \union {None}]
      /\ DOMAIN got' = Requests
      BY IdleType DEF TypeOK, End, SlotOnly
<1>3. \A q \in Requests :
        \E given \in SUBSET EventIds : got'[q] \in [given -> Event]
  <2> TAKE q \in Requests
  <2>1. CASE q = r
        BY <1>1, <1>2, <2>1
  <2>2. CASE q # r
        BY <1>2, <2>2 DEF TypeOK, SlotOnly
  <2> QED BY <2>1, <2>2
<1> QED BY <1>2, <1>3

(* A request that does not move stays sound while rows and events only come.  *)
LEMMA RequestKept ==
    ASSUME IInv, NEW q \in Requests,
           req'[q] = req[q], view'[q] = view[q], got'[q] = got[q],
           \A c \in Ids : campaigns[c] # None => campaigns'[c] # None,
           \A e \in EventIds : events[e] # None => events'[e] # None
    PROVE  /\ req'[q] # Idle => RequestOK(q)'
           /\ \A e \in DOMAIN got'[q] : events'[e] # None
<1>1. DOMAIN got[q] \subseteq EventIds
      BY DEF IInv, TypeOK
<1>2. \A e \in DOMAIN got'[q] : events'[e] # None
      BY <1>1 DEF IInv, RequestInv
<1>3. ASSUME req[q] # Idle
      PROVE  RequestOK(q)'
  <2>1. RequestOK(q)
        BY <1>3 DEF IInv, RequestInv
  <2>2. view[q] \in Table
        BY <2>1 DEF IInv, TypeOK, RequestOK
  <2>3. \A c \in Ids : view[q][c] # None /\ view[q][c].link # None
                          => view[q][c].link \in EventIds
        BY <2>2 DEF Campaign, Table
  <2>4. LinksExist(view[q])'
        BY <2>1, <2>3 DEF RequestOK, LinksExist
  <2>5. req[q].event # None => req[q].event \in EventIds
        BY DEF IInv, TypeOK, Request
  <2> QED BY <2>1, <2>4, <2>5 DEF RequestOK, Writing
<1> QED BY <1>2, <1>3

(* Whatever a commit wrote, no snapshot that is left is taken to be current.  *)
LEMMA AllOvertaken ==
    ASSUME NEW S, Overtake(S), \A r \in Requests \intersect S : req'[r] = Idle
    PROVE  SnapshotInv' /\ CreatingInv' /\ OthersInv' /\ LostInv'
<1>1. \A r \in Requests : req'[r] = Idle \/ r \in stale'
      BY DEF Overtake
<1>2. \A r \in Requests : req'[r] = Idle =>
         ~Creating(r)' /\ ~Unlinking(r)' /\ Linking(r)' = {}
      BY DEF Idle, Creating, Unlinking, Linking, Importing
<1> QED BY <1>1, <1>2 DEF SnapshotInv, CreatingInv, OthersInv, LostInv

LEMMA FreshKept ==
    ASSUME IInv, NEW S, KeepFresh(S),
           \A c \in S : IsAlreadySynced(campaigns[c], events[campaigns[c].link], today)'
    PROVE  RepeatImportSkips'
<1> SUFFICES ASSUME NEW c \in fresh'
             PROVE  IsAlreadySynced(campaigns[c], events[campaigns[c].link], today)'
    BY DEF RepeatImportSkips
<1>1. CASE c \in S
      BY <1>1
<1>2. CASE c \notin S
  <2>1. /\ c \in fresh
        /\ campaigns'[c] = campaigns[c]
        /\ events'[campaigns[c].link] = events[campaigns[c].link]
        /\ today' = today
        BY <1>2 DEF KeepFresh
  <2>2. IsAlreadySynced(campaigns[c], events[campaigns[c].link], today)
        BY <2>1 DEF IInv, RepeatImportSkips
  <2> QED BY <2>1, <2>2 DEF IsAlreadySynced
<1> QED BY <1>1, <1>2

LEMMA FreshType ==
    ASSUME TypeOK, NEW S \in SUBSET Ids, KeepFresh(S)
    PROVE  fresh' \subseteq Ids
BY DEF TypeOK, KeepFresh

(* What depends on the rows alone stands while they do.                       *)
LEMMA RowsKept ==
    ASSUME IInv, campaigns' = campaigns, manual' = manual, serial' = serial,
           \A e \in EventIds : events[e] # None => events'[e] # None
    PROVE  /\ LinksExist(campaigns)'
           /\ LinkMatchesStatus'
           /\ serial' => UniqueLinks'
<1>1. Live' = Live
      BY DEF Live, Exists
<1>2. \A c \in Ids : campaigns[c] # None /\ campaigns[c].link # None
                        => campaigns[c].link \in EventIds
      BY DEF IInv, TypeOK, Campaign, Table
<1> QED BY <1>1, <1>2 DEF IInv, HistoryInv, LinksExist, LinkMatchesStatus, UniqueLinks

(* DanglingLinkExplained, in terms of Explained.                              *)
LEMMA DanglingForm ==
    /\ DanglingLinkExplained <=>
         \A c \in Live \ manual :
            campaigns[c].link # None /\ ~events[campaigns[c].link].live
                => Explained(campaigns[c].link, {})
    /\ DanglingLinkExplained' <=>
         \A c \in Live' \ manual' :
            campaigns'[c].link # None /\ ~events'[campaigns'[c].link].live
                => Explained(campaigns[c].link, {})'
BY DEF DanglingLinkExplained, Explained

(* The links of rows, and of the events that requests have, are event ids.    *)
LEMMA LinkFacts ==
    ASSUME IInv
    PROVE  /\ \A c \in Ids : campaigns[c] # None => campaigns[c] \in Campaign
           /\ \A c \in Ids : campaigns[c] # None /\ campaigns[c].link # None
                => campaigns[c].link \in EventIds /\ events[campaigns[c].link] # None
           /\ \A e \in EventIds : events[e] # None => events[e] \in Event
           /\ \A c \in Live : c \in Ids /\ campaigns[c] # None /\ ~campaigns[c].deleted
           /\ \A e \in pushed : e \in EventIds /\ events[e] # None
BY DEF IInv, TypeOK, HistoryInv, LinksExist, Live, Exists, Campaign, Table

(* The event of a push that is about to be linked is there.                   *)
LEMMA CreatingFacts ==
    ASSUME IInv, NEW r \in Requests, Creating(r) \/ Unlinking(r)
    PROVE  /\ req[r] # Idle /\ RequestOK(r)
           /\ req[r].event \in EventIds /\ events[req[r].event] # None
<1>1. req[r] # Idle /\ RequestOK(r)
      BY IdleFacts DEF Creating, Unlinking, IInv, RequestInv
<1>2. req[r].event # None
      BY <1>1 DEF RequestOK, Creating, Unlinking, Writing
<1>3. req[r].event \in EventIds
      BY <1>2 DEF IInv, TypeOK, Request
<1> QED BY <1>1, <1>2, <1>3 DEF RequestOK

LEMMA LinkingFacts ==
    ASSUME IInv, NEW r \in Requests, NEW e \in Linking(r)
    PROVE  e \in EventIds /\ events[e] # None
BY CreatingFacts DEF Linking, IInv, RequestInv

(* While rows and events stay as they are, and no cause is forgotten, what    *)
(* has been said of links and events stays true.                              *)
LEMMA HistoryKept ==
    ASSUME IInv, UNCHANGED <<campaigns, events, manual, serial, pushed>>,
           stray \subseteq stray', gone \subseteq gone', stale' \subseteq stale,
           \A e \in EventIds, r \in Requests :
               Creating(r) /\ req[r].event = e =>
                  (Creating(r) /\ req[r].event = e)' \/ e \in stray',
           \A e \in EventIds, r \in Requests :
               req[r].kind = "unlink" /\ req[r].event = e =>
                  (req[r].kind = "unlink" /\ req[r].event = e)' \/ e \in stray',
           \A r \in Requests :
               Unlinking(r)' => /\ Unlinking(r) /\ req'[r] = req[r]
                                /\ r \in stale => r \in stale',
           \A r \in Requests : \A e \in Linking(r)' :
               events[e].live \/ (e \in Linking(r) /\ (r \in stale => r \in stale'))
    PROVE  HistoryInv' /\ UnlinkInv'
<1>1. \A e \in EventIds, S \in SUBSET Requests : Explained(e, S) => Explained(e, S)'
      BY DEF Explained
<1>2. Live' = Live
      BY DEF Live, Exists
<1>3. serial => UniqueLinks'
      BY <1>2 DEF IInv, HistoryInv, UniqueLinks
<1>4. serial => KnownInv'
      BY LinkFacts DEF IInv, HistoryInv, KnownInv
<1>5. serial => DanglingLinkExplained'
      BY <1>1, <1>2, LinkFacts, DanglingForm DEF IInv, HistoryInv
<1>6. serial => OthersInv'
  <2> SUFFICES ASSUME serial, NEW r \in Requests, Unlinking(r)', r \notin stale',
                      NEW c \in (Live' \ manual') \ {req'[r].camp},
                      campaigns'[c].link = req'[r].event
               PROVE  Explained(req[r].event, {r})'
      BY DEF OthersInv
  <2>1. Unlinking(r) /\ r \notin stale /\ req'[r] = req[r]
        OBVIOUS
  <2>2. Explained(req[r].event, {r})
        BY <1>2, <2>1 DEF IInv, HistoryInv, OthersInv
  <2>3. RequestOK(r)
        BY <2>1, IdleFacts DEF IInv, RequestInv, Unlinking
  <2>4. req[r].event \in EventIds
        BY <2>1, <2>3 DEF IInv, TypeOK, Request, RequestOK, Writing, Unlinking
  <2>5. Explained(req[r].event, {r})'
        BY <1>1, <2>1, <2>2, <2>4 DEF Explained
  <2> QED BY <2>5
<1>7. \A e \in pushed' : events'[e] # None
      BY DEF IInv, HistoryInv
<1>8. UnlinkInv'
      BY DEF IInv, UnlinkInv
<1>9. LostInv'
  <2> SUFFICES ASSUME NEW r \in Requests, r \notin stale', NEW e \in Linking(r)',
                      ~events[e].live
               PROVE  Explained(e, {})'
      BY DEF LostInv
  <2>1. e \in Linking(r) /\ r \notin stale /\ e \in EventIds
        BY DEF Linking
  <2>2. Explained(e, {})
        BY <2>1 DEF IInv, HistoryInv, LostInv
  <2> QED BY <1>1, <2>1, <2>2
<1> QED BY <1>3, <1>4, <1>5, <1>6, <1>7, <1>8, <1>9 DEF HistoryInv
-------------------------------------------------------------------------------
(* A request begins with the rows as they are committed.                      *)
LEMMA BeginInv ==
    ASSUME IInv, NEW r \in Requests, NEW request \in Request, Begin(r, request),
           request.kind # "none", request.pc = "calling", request.event = None,
           request.user \in Users,
           request.kind \in {"push", "unlink"} =>
               request.camp \in Ids /\ Exists(request.camp),
           request.kind = "unlink" => campaigns[request.camp].link # None
    PROVE  IInv'
<1>1. /\ req[r] = Idle
      /\ req'[r] = request /\ view'[r] = campaigns
      /\ SlotOnly(r)
      /\ UNCHANGED <<campaigns, events, today, got, historyVars>>
      BY DEF Begin, IInv, TypeOK, SlotOnly
<1>2. TypeOK'
  <2>1. steps' \in 0 .. MaxSteps
        BY LinkAssumption DEF Begin, Step, IInv, TypeOK
  <2>2. /\ req' \in [Requests -> Request]
        /\ view' \in [Requests -> Table \union {None}]
        BY DEF Begin, IInv, TypeOK
  <2> QED BY <1>1, <2>1, <2>2 DEF IInv, TypeOK, historyVars
<1>3. RequestInv'
  <2>1. (req[r] # Idle => RequestOK(r))' /\ \A e \in DOMAIN got'[r] : events'[e] # None
    <3>1. campaigns # None /\ LinksExist(campaigns)
          BY NoneAssumption DEF IInv, TypeOK
    <3>2. LinksExist(view[r])'
          BY <1>1, <3>1 DEF LinksExist
    <3>3. RequestOK(r)'
          BY <1>1, <3>1, <3>2 DEF RequestOK, Writing, Exists
    <3> QED BY <1>1, <3>3 DEF IInv, RequestInv
  <2>2. \A q \in Requests \ {r} : /\ (req[q] # Idle => RequestOK(q))'
                                  /\ \A e \in DOMAIN got'[q] : events'[e] # None
        BY <1>1, RequestKept DEF SlotOnly
  <2> QED BY <2>1, <2>2 DEF RequestInv
<1>4. \A q \in Requests : /\ Creating(q)' => Creating(q) /\ q # r
                          /\ Creating(q) => Creating(q)' /\ q # r
                          /\ Unlinking(q)' => Unlinking(q) /\ q # r
                          /\ req[q].event # None => q # r
                          /\ Linking(q)' \subseteq Linking(q)
      BY <1>1 DEF SlotOnly, Creating, Unlinking, Idle, Linking, Importing
<1>5. SnapshotInv' /\ CreatingInv'
      BY <1>1, <1>4 DEF IInv, SnapshotInv, CreatingInv, SlotOnly, historyVars
<1>6. LinksExist(campaigns)' /\ LinkMatchesStatus' /\ (serial' => UniqueLinks')
      BY <1>1, RowsKept DEF historyVars
<1>7. HistoryInv' /\ UnlinkInv'
      BY <1>1, <1>4, HistoryKept, NoneFacts DEF historyVars, SlotOnly, Idle
<1>8. DenseInv' /\ SpanInv' /\ RepeatImportSkips'
      BY <1>1 DEF IInv, DenseInv, SpanInv, RepeatImportSkips, historyVars
<1> QED BY <1>2, <1>3, <1>5, <1>6, <1>7, <1>8 DEF IInv

LEMMA StartImportInv ==
    ASSUME IInv, NEW r \in Requests, NEW u \in Users, StartImport(r, u)
    PROVE  IInv'
<1>1. PICK p \in Periods, sel \in SUBSET {e \in EventIds : events[e] # None} :
        Begin(r, [Idle EXCEPT
             !.kind = "import", !.pc = "calling", !.user = u, !.sel = sel,
             !.period = ResolvePeriodBounds(p[1], p[2], None, None)])
      BY DEF StartImport
<1> DEFINE request == [Idle EXCEPT
             !.kind = "import", !.pc = "calling", !.user = u, !.sel = sel,
             !.period = ResolvePeriodBounds(p[1], p[2], None, None)]
<1>2. request \in Request
      BY BoundsType DEF Request, Idle
<1>3. /\ request.kind = "import" /\ request.pc = "calling"
      /\ request.event = None /\ request.user = u
      BY DEF Idle
<1> HIDE DEF request
<1> QED BY <1>1, <1>2, <1>3, BeginInv DEF request

LEMMA StartPushInv ==
    ASSUME IInv, NEW r \in Requests, NEW u \in Users, NEW c \in Ids,
           StartPush(r, u, c)
    PROVE  IInv'
<1> DEFINE request == [Idle EXCEPT !.kind = "push", !.pc = "calling", !.user = u,
                                   !.camp = c]
<1>1. request \in Request
      BY IdleType DEF Request, Idle
<1>2. /\ request.kind = "push" /\ request.pc = "calling"
      /\ request.event = None /\ request.user = u /\ request.camp = c
      BY DEF Idle
<1>3. Begin(r, request) /\ Exists(c)
      BY DEF StartPush
<1> HIDE DEF request
<1> QED BY <1>1, <1>2, <1>3, BeginInv

LEMMA StartUnlinkInv ==
    ASSUME IInv, NEW r \in Requests, NEW u \in Users, NEW c \in Ids,
           StartUnlink(r, u, c)
    PROVE  IInv'
<1> DEFINE request == [Idle EXCEPT !.kind = "unlink", !.pc = "calling", !.user = u,
                                   !.camp = c]
<1>1. request \in Request
      BY IdleType DEF Request, Idle
<1>2. /\ request.kind = "unlink" /\ request.pc = "calling"
      /\ request.event = None /\ request.user = u /\ request.camp = c
      BY DEF Idle
<1>3. Begin(r, request) /\ Exists(c) /\ campaigns[c].link # None
      BY DEF StartUnlink
<1> HIDE DEF request
<1> QED BY <1>1, <1>2, <1>3, BeginInv
-------------------------------------------------------------------------------
(* An import gets its events; nothing else changes.                           *)
LEMMA FetchEventsInv ==
    ASSUME IInv, NEW r \in Requests, FetchEvents(r)
    PROVE  IInv'
<1>1. PICK page \in FetchGoogleEvents(events, req[r].user, req[r].period) :
        got' = [got EXCEPT ![r] = [e \in page \intersect req[r].sel |-> events[e]]]
      BY DEF FetchEvents
<1>2. \A e \in page : e \in EventIds /\ events[e] # None /\ events[e].live
      BY DEF FetchGoogleEvents, Overlapping, IInv, TypeOK
<1>3. /\ req[r].kind = "import" /\ req[r].pc = "calling"
      /\ req' = [req EXCEPT ![r].pc = "saving"]
      /\ UNCHANGED <<campaigns, events, today, view, steps, historyVars>>
      BY DEF FetchEvents
<1>4. /\ req'[r] = [req[r] EXCEPT !.pc = "saving"]
      /\ got'[r] = [e \in page \intersect req[r].sel |-> events[e]]
      /\ req[r] \in Request /\ req'[r] \in Request
      /\ SlotOnly(r)
  <2>1. /\ req \in [Requests -> Request] /\ DOMAIN got = Requests
        /\ r \in DOMAIN req
        BY DEF IInv, TypeOK
  <2>2. req[r] \in Request /\ req'[r] = [req[r] EXCEPT !.pc = "saving"]
        BY <1>3, <2>1
  <2>3. req'[r] \in Request
        BY <2>2 DEF Request
  <2>4. got'[r] = [e \in page \intersect req[r].sel |-> events[e]]
        BY <1>1, <2>1
  <2>5. SlotOnly(r)
        BY <1>1, <1>3, <2>1 DEF SlotOnly
  <2> QED BY <2>2, <2>3, <2>4, <2>5
<1>5. TypeOK'
  <2>1. req' \in [Requests -> Request]
        BY <1>3, <1>4 DEF IInv, TypeOK
  <2>2. DOMAIN got' = Requests
        BY <1>1 DEF IInv, TypeOK
  <2>3. /\ page \intersect req[r].sel \in SUBSET EventIds
        /\ got'[r] \in [page \intersect req[r].sel -> Event]
        BY <1>2, <1>4, LinkFacts
  <2>4. \A q \in Requests :
          \E given \in SUBSET EventIds : got'[q] \in [given -> Event]
    <3> TAKE q \in Requests
    <3>1. CASE q = r
          BY <2>3, <3>1
    <3>2. CASE q # r
          BY <1>4, <3>2 DEF IInv, TypeOK, SlotOnly
    <3> QED BY <3>1, <3>2
  <2> QED BY <1>3, <2>1, <2>2, <2>4 DEF IInv, TypeOK, historyVars
<1>6. req[r] # Idle /\ req'[r] # Idle /\ RequestOK(r)
      BY <1>3, <1>4, IdleFacts DEF IInv, RequestInv, Idle
<1>7. RequestInv'
  <2>1. RequestOK(r)'
        BY <1>3, <1>4, <1>6 DEF RequestOK, Writing, LinksExist, Request
  <2>2. \A e \in DOMAIN got'[r] : events'[e] # None
        BY <1>2, <1>3, <1>4
  <2>3. \A q \in Requests \ {r} : /\ (req[q] # Idle => RequestOK(q))'
                                  /\ \A e \in DOMAIN got'[q] : events'[e] # None
        BY <1>3, <1>4, RequestKept DEF SlotOnly
  <2> QED BY <2>1, <2>2, <2>3 DEF RequestInv
<1>8. /\ req'[r].kind = "import" /\ req'[r].event = req[r].event
      BY <1>3, <1>4 DEF Request
<1>9. SnapshotInv'
      BY <1>3, <1>4, <1>6 DEF IInv, SnapshotInv, SlotOnly, historyVars
<1>10. CreatingInv'
  <2>1. \A q \in Requests : Creating(q)' => Creating(q) /\ req'[q] = req[q]
        BY <1>3, <1>4, <1>8 DEF Creating, SlotOnly
  <2> QED BY <1>3, <2>1 DEF IInv, CreatingInv, historyVars
<1>11. LinksExist(campaigns)' /\ LinkMatchesStatus'
      BY <1>3, RowsKept DEF historyVars
<1>12. HistoryInv' /\ UnlinkInv'
  <2>1. \A q \in Requests : /\ Creating(q) <=> Creating(q)'
                            /\ Creating(q) => req'[q] = req[q]
                            /\ Unlinking(q)' => Unlinking(q) /\ req'[q] = req[q]
                            /\ req[q].kind = "unlink" => req'[q] = req[q]
        BY <1>3, <1>4, <1>8 DEF Creating, Unlinking, SlotOnly
  <2>2. \A q \in Requests : \A e \in Linking(q)' : events[e].live \/ e \in Linking(q)
    <3> SUFFICES ASSUME NEW q \in Requests, NEW e \in Linking(q)'
                 PROVE  events[e].live \/ e \in Linking(q)
        OBVIOUS
    <3>1. CASE q = r
          BY <1>2, <1>4, <1>8, <3>1 DEF Linking, Creating
    <3>2. CASE q # r
          BY <1>4, <3>2 DEF Linking, Creating, Importing, SlotOnly
    <3> QED BY <3>1, <3>2
  <2> QED BY <1>3, <2>1, <2>2, HistoryKept DEF historyVars
<1>13. DenseInv' /\ SpanInv' /\ RepeatImportSkips'
      BY <1>3 DEF IInv, DenseInv, SpanInv, RepeatImportSkips, historyVars
<1> QED BY <1>5, <1>7, <1>9, <1>10, <1>11, <1>12, <1>13 DEF IInv

(* A request broken off leaves its event to the history.                      *)
LEMMA AbortInv ==
    ASSUME IInv, NEW r \in Requests, Abort(r)
    PROVE  IInv'
<1>1. /\ req[r] # Idle /\ End(r) /\ stale' = stale \ {r}
      /\ UNCHANGED <<campaigns, events, today, steps, serial, manual, pushed,
                     gone, fresh>>
      /\ stray' = stray \union
            {e \in {req[r].event} \ {None} :
               req[r].kind = "unlink" \/ view[r][req[r].camp].link = None}
      BY DEF Abort
<1>2. RequestOK(r)
      BY <1>1 DEF IInv, RequestInv
<1>3. /\ req'[r] = Idle /\ view'[r] = None /\ got'[r] = <<>>
      /\ SlotOnly(r)
      /\ \A q \in Requests :
           \E given \in SUBSET EventIds : got'[q] \in [given -> Event]
      BY <1>1, EndFacts DEF IInv
<1>4. TypeOK'
  <2>1. stray' \subseteq EventIds
        BY <1>1 DEF IInv, TypeOK, Request
  <2>2. /\ req' \in [Requests -> Request]
        /\ view' \in [Requests -> Table \union {None}]
        /\ DOMAIN got' = Requests
        BY <1>1, EndFacts DEF IInv
  <2> QED BY <1>1, <1>3, <2>1, <2>2 DEF IInv, TypeOK
<1>5. RequestInv'
  <2>1. \A q \in Requests \ {r} : /\ (req[q] # Idle => RequestOK(q))'
                                  /\ \A e \in DOMAIN got'[q] : events'[e] # None
        BY <1>1, <1>3, RequestKept DEF SlotOnly
  <2>2. DOMAIN got'[r] = {}
        BY <1>3
  <2> QED BY <1>3, <2>1, <2>2 DEF RequestInv
<1>6. /\ ~Creating(r)' /\ ~Unlinking(r)'
      /\ \A q \in Requests \ {r} : (Creating(q)' <=> Creating(q))
                                   /\ (Unlinking(q)' <=> Unlinking(q))
      BY <1>3 DEF Creating, Unlinking, SlotOnly, Idle
<1>7. SnapshotInv' /\ CreatingInv'
      BY <1>1, <1>3, <1>6 DEF IInv, SnapshotInv, CreatingInv, SlotOnly
<1>8. LinksExist(campaigns)' /\ LinkMatchesStatus'
      BY <1>1, RowsKept
<1>9. HistoryInv' /\ UnlinkInv'
  <2>1. \A e \in EventIds :
          /\ Creating(r) /\ req[r].event = e => e \in stray'
          /\ req[r].kind = "unlink" /\ req[r].event = e => e \in stray'
        BY <1>1, NoneFacts DEF Creating
  <2>2. Linking(r)' = {} /\ \A q \in Requests \ {r} : Linking(q)' = Linking(q)
        BY <1>3 DEF Linking, Creating, Importing, SlotOnly, Idle
  <2> QED BY <1>1, <1>3, <1>6, <2>1, <2>2, HistoryKept DEF SlotOnly
<1>10. DenseInv' /\ SpanInv' /\ RepeatImportSkips'
      BY <1>1 DEF IInv, DenseInv, SpanInv, RepeatImportSkips
<1> QED BY <1>4, <1>5, <1>7, <1>8, <1>9, <1>10 DEF IInv

(* The status of a campaign changes with the day, so no import still holds.   *)
LEMMA TickInv ==
    ASSUME IInv, Tick
    PROVE  IInv'
<1>1. /\ today < LastDay /\ today' = today + 1
      /\ UNCHANGED <<campaigns, events, requestVars, steps, stale, serial, manual,
                     pushed, stray, gone>>
      /\ KeepFresh({})
      BY DEF Tick
<1>2. TypeOK'
  <2>1. today' \in FirstDay .. LastDay
        BY <1>1, LinkAssumption, CalendarAssumption DEF IInv, TypeOK
  <2>2. fresh' \subseteq Ids
        BY <1>1, FreshType DEF IInv
  <2> QED BY <1>1, <2>1, <2>2 DEF IInv, TypeOK, requestVars
<1>3. RequestInv'
      BY <1>1, RequestKept DEF RequestInv, requestVars
<1>4. \A q \in Requests : /\ Creating(q)' <=> Creating(q)
                          /\ Unlinking(q)' <=> Unlinking(q)
                          /\ Linking(q)' = Linking(q)
      BY <1>1 DEF Creating, Unlinking, Linking, Importing, requestVars
<1>5. SnapshotInv' /\ CreatingInv'
      BY <1>1, <1>4 DEF IInv, SnapshotInv, CreatingInv, requestVars
<1>6. LinksExist(campaigns)' /\ LinkMatchesStatus'
      BY <1>1, RowsKept
<1>7. HistoryInv' /\ UnlinkInv'
      BY <1>1, <1>4, HistoryKept DEF requestVars
<1>8. RepeatImportSkips'
      BY <1>1, FreshKept
<1>9. DenseInv' /\ SpanInv'
      BY <1>1 DEF IInv, DenseInv, SpanInv
<1> QED BY <1>2, <1>3, <1>5, <1>6, <1>7, <1>8, <1>9 DEF IInv
-------------------------------------------------------------------------------
(* The calendars after one event is made or written.                          *)
LEMMA EventWritten ==
    ASSUME IInv, NEW e \in EventIds, NEW event \in Event, event.start < event.end,
           e <= Made + 1, events' = [events EXCEPT ![e] = event]
    PROVE  /\ events' \in [EventIds -> Event \union {None}]
           /\ \A f \in EventIds : events[f] # None => events'[f] # None
           /\ events'[e] = event /\ event # None
           /\ \A f \in EventIds \ {e} : events'[f] = events[f]
           /\ SpanInv'
           /\ \E n \in 0 .. MaxEvents : \A f \in EventIds : events'[f] # None <=> f <= n
<1>1. events \in [EventIds -> Event \union {None}] /\ event # None
      BY NoneFacts DEF IInv, TypeOK
<1>2. /\ events'[e] = event
      /\ \A f \in EventIds \ {e} : events'[f] = events[f]
      BY <1>1
<1>3. SpanInv'
      BY <1>2 DEF IInv, SpanInv
<1>4. /\ Made \in 0 .. MaxEvents /\ MaxEvents \in Nat
      /\ \A f \in EventIds : events[f] # None <=> f <= Made
      BY UsedFacts, LinkAssumption
<1>5. \E n \in 0 .. MaxEvents : \A f \in EventIds : events'[f] # None <=> f <= n
  <2> DEFINE n == IF e <= Made THEN Made ELSE Made + 1
  <2>1. n \in 0 .. MaxEvents
        BY <1>4 DEF EventIds
  <2>2. \A f \in EventIds : f <= n <=> f <= Made \/ f = e
        BY <1>4 DEF EventIds
  <2>3. \A f \in EventIds : events'[f] # None <=> f <= Made \/ f = e
        BY <1>1, <1>2, <1>4
  <2> HIDE DEF n
  <2> QED BY <2>1, <2>2, <2>3
<1>6. events' \in [EventIds -> Event \union {None}]
      BY <1>1
<1>7. \A f \in EventIds : events[f] # None => events'[f] # None
      BY <1>1, <1>2
<1> QED BY <1>1, <1>2, <1>3, <1>5, <1>6, <1>7

(* Somebody makes, changes or deletes an event in Google.                     *)
LEMMA EditGoogleInv ==
    ASSUME IInv, NEW e \in EventIds, NEW event \in Event, event.start < event.end,
           e <= Made + 1, EditGoogle(e, event),
           gone \subseteq gone', gone' \subseteq EventIds,
           events[e] # None =>
              /\ event.live => events[e].live
              /\ ~event.live => e \in gone'
    PROVE  IInv'
<1>1. /\ events' = [events EXCEPT ![e] = event]
      /\ UNCHANGED <<campaigns, today, requestVars, stale, serial, manual, pushed,
                     stray>>
      /\ KeepFresh({}) /\ Step
      BY DEF EditGoogle
<1>2. /\ events' \in [EventIds -> Event \union {None}]
      /\ \A f \in EventIds : events[f] # None => events'[f] # None
      /\ SpanInv'
      /\ \A f \in EventIds : events[f] # None =>
            /\ events'[f].live => events[f].live
            /\ ~events'[f].live => ~events[f].live \/ f \in gone'
      BY <1>1, EventWritten
<1>3. DenseInv'
      BY <1>1, EventWritten DEF IInv, DenseInv
<1>4. TypeOK'
  <2>1. fresh' \subseteq Ids
        BY <1>1, FreshType DEF IInv
  <2>2. steps' \in 0 .. MaxSteps
        BY <1>1, LinkAssumption DEF Step, IInv, TypeOK
  <2> QED BY <1>1, <1>2, <2>1, <2>2 DEF IInv, TypeOK, requestVars
<1>5. RequestInv'
      BY <1>1, <1>2, RequestKept DEF RequestInv, requestVars
<1>6. \A q \in Requests : (Creating(q)' <=> Creating(q)) /\ (Unlinking(q)' <=> Unlinking(q))
      BY <1>1 DEF Creating, Unlinking, requestVars
<1>7. SnapshotInv' /\ CreatingInv'
      BY <1>1, <1>6 DEF IInv, SnapshotInv, CreatingInv, requestVars
<1>8. LinksExist(campaigns)' /\ LinkMatchesStatus' /\ (serial' => UniqueLinks')
      BY <1>1, <1>2, RowsKept
<1>9. UnlinkInv'
  <2> SUFFICES ASSUME NEW r \in Requests, Unlinking(r)
               PROVE  ~events'[req[r].event].live \/ req[r].event \in stray
      BY <1>1, <1>6 DEF UnlinkInv, requestVars
  <2>1. RequestOK(r) /\ req[r].event \in EventIds
        BY IdleFacts DEF IInv, RequestInv, TypeOK, Request, RequestOK, Writing, Unlinking
  <2>2. events[req[r].event] # None
        BY <2>1, NoneFacts DEF RequestOK
  <2> QED BY <1>2, <2>1, <2>2 DEF IInv, UnlinkInv
<1>10. \A f, S : Explained(f, S) => Explained(f, S)'
      BY <1>1 DEF Explained, requestVars
<1>11. Live' = Live
      BY <1>1 DEF Live, Exists
<1>12. HistoryInv'
  <2>1. \A f \in pushed' : events'[f] # None
        BY <1>1, <1>2, LinkFacts
  <2>2. serial => KnownInv'
        BY <1>1, <1>2, <1>6, LinkFacts DEF IInv, HistoryInv, KnownInv, requestVars
  <2>3. serial => DanglingLinkExplained'
    <3> SUFFICES ASSUME serial, NEW c \in Live \ manual,
                        campaigns[c].link # None, ~events'[campaigns[c].link].live
                 PROVE  Explained(campaigns[c].link, {})'
        BY <1>1, <1>11, DanglingForm
    <3>1. campaigns[c].link \in EventIds /\ events[campaigns[c].link] # None
          BY LinkFacts
    <3>2. CASE campaigns[c].link \in gone'
          BY <1>1, <3>2 DEF Explained
    <3>3. CASE ~events[campaigns[c].link].live
      <4>1. Explained(campaigns[c].link, {})
            BY <3>3, DanglingForm DEF IInv, HistoryInv
      <4>2. Explained(campaigns[c].link, {})'
            BY <1>1, <4>1 DEF Explained, requestVars
      <4> QED BY <4>2
    <3> QED BY <1>2, <3>1, <3>2, <3>3
  <2>4. serial => OthersInv'
    <3> SUFFICES ASSUME serial, NEW r \in Requests, Unlinking(r), r \notin stale,
                        NEW c \in (Live \ manual) \ {req[r].camp},
                        campaigns[c].link = req[r].event
                 PROVE  Explained(req[r].event, {r})'
        BY <1>1, <1>6, <1>11 DEF OthersInv, requestVars
    <3>1. Explained(req[r].event, {r})
          BY DEF IInv, HistoryInv, OthersInv
    <3>2. Explained(req[r].event, {r})'
          BY <1>1, <3>1 DEF Explained, requestVars
    <3> QED BY <3>2
  <2>5. LostInv'
    <3> SUFFICES ASSUME NEW r \in Requests, r \notin stale, NEW f \in Linking(r),
                        ~events'[f].live
                 PROVE  Explained(f, {})'
        BY <1>1 DEF LostInv, Linking, Creating, Importing, requestVars
    <3>1. f \in EventIds /\ events[f] # None
          BY LinkingFacts
    <3>2. CASE f \in gone'
          BY <1>1, <3>2 DEF Explained, requestVars
    <3>3. CASE ~events[f].live
          BY <1>10, <3>3 DEF IInv, HistoryInv, LostInv
    <3> QED BY <1>2, <3>1, <3>2, <3>3
  <2> QED BY <1>1, <1>8, <2>1, <2>2, <2>3, <2>4, <2>5 DEF HistoryInv
<1>13. RepeatImportSkips'
      BY <1>1, FreshKept
<1> QED BY <1>3, <1>2, <1>4, <1>5, <1>7, <1>8, <1>9, <1>12, <1>13 DEF IInv

LEMMA GoogleCreateInv ==
    ASSUME IInv, NEW u \in Users, GoogleCreate(u)
    PROVE  IInv'
<1>1. PICK t \in Titles, s \in Spans, e \in EventIds :
        /\ s[1] # None /\ s[2] # None /\ s[1] <= s[2]
        /\ e = Made + 1
        /\ EditGoogle(e, [cal |-> u, title |-> t, start |-> s[1],
                          end |-> s[2] + 1, live |-> TRUE])
      BY DEF GoogleCreate
<1> DEFINE event == [cal |-> u, title |-> t, start |-> s[1], end |-> s[2] + 1,
                     live |-> TRUE]
<1>2. s[1] \in 0 .. LastDay /\ s[2] \in 0 .. LastDay
      BY <1>1, LinkAssumption
<1>3. event \in Event /\ event.start < event.end
      BY <1>1, <1>2, CalendarAssumption DEF Event, Days
<1>4. events[e] = None
      BY <1>1, UsedFacts
<1>5. gone' = gone /\ gone \subseteq EventIds
      BY DEF GoogleCreate, IInv, TypeOK
<1>6. e <= Made + 1
      BY <1>1, UsedFacts
<1> HIDE DEF event
<1> QED BY <1>1, <1>3, <1>4, <1>5, <1>6, EditGoogleInv DEF event

LEMMA GoogleChangeInv ==
    ASSUME IInv, NEW e \in EventIds, GoogleChange(e)
    PROVE  IInv'
<1>1. PICK t \in Titles, s \in Spans :
        /\ s[1] # None /\ s[2] # None /\ s[1] <= s[2]
        /\ EditGoogle(e, [events[e] EXCEPT !.title = t, !.start = s[1],
                                           !.end = s[2] + 1])
      BY DEF GoogleChange
<1> DEFINE event == [events[e] EXCEPT !.title = t, !.start = s[1], !.end = s[2] + 1]
<1>2. /\ events[e] # None /\ events[e].live /\ events[e] \in Event
      /\ gone' = gone /\ gone \subseteq EventIds
      BY LinkFacts DEF GoogleChange, IInv, TypeOK
<1>3. s[1] \in 0 .. LastDay /\ s[2] \in 0 .. LastDay
      BY <1>1, LinkAssumption
<1>4. event \in Event /\ event.start < event.end /\ event.live
  <2>1. /\ s[1] \in Days /\ s[2] + 1 \in Days /\ s[1] < s[2] + 1
        BY <1>1, <1>3, CalendarAssumption DEF Days
  <2>2. /\ event \in Event /\ event.live
        /\ event.start = s[1] /\ event.end = s[2] + 1
        BY <1>2, <2>1 DEF Event
  <2> QED BY <2>1, <2>2
<1>5. e <= Made + 1
      BY <1>2, UsedFacts DEF EventIds
<1> HIDE DEF event
<1> QED BY <1>1, <1>2, <1>4, <1>5, EditGoogleInv DEF event

LEMMA GoogleDeleteInv ==
    ASSUME IInv, NEW e \in EventIds, GoogleDelete(e)
    PROVE  IInv'
<1> DEFINE event == [events[e] EXCEPT !.live = FALSE]
<1>1. /\ events[e] # None /\ events[e] \in Event
      /\ EditGoogle(e, event)
      /\ gone' = gone \union {e} /\ gone' \subseteq EventIds
      BY LinkFacts DEF GoogleDelete, IInv, TypeOK
<1>2. event \in Event /\ event.start < event.end /\ ~event.live
      BY <1>1 DEF Event, IInv, SpanInv
<1>3. e <= Made + 1
      BY <1>1, UsedFacts DEF EventIds
<1> HIDE DEF event
<1> QED BY <1>1, <1>2, <1>3, EditGoogleInv
-------------------------------------------------------------------------------
(* A request that has called Google: rows, snapshots and clock are as before, *)
(* its event is there, and no event that was gone lives.                      *)
Called(r, event) ==
    /\ req[r].pc = "calling" /\ Writing(r)
    /\ req' = [req EXCEPT ![r].pc = "saving", ![r].event = event]
    /\ UNCHANGED <<campaigns, today, view, got, steps, stale, serial, manual, gone>>
    /\ KeepFresh({})
    /\ \A e \in EventIds : events[e] # None =>
          events'[e] # None /\ (events'[e].live => events[e].live)

LEMMA CalledFacts ==
    ASSUME IInv, NEW r \in Requests, NEW event \in EventIds, Called(r, event)
    PROVE  /\ req[r] # Idle /\ RequestOK(r)
           /\ req'[r] = [req[r] EXCEPT !.pc = "saving", !.event = event]
           /\ req' \in [Requests -> Request]
           /\ req'[r].kind = req[r].kind /\ req'[r].camp = req[r].camp
           /\ req'[r].user = req[r].user
           /\ req'[r].pc = "saving" /\ req'[r].event = event
           /\ req[r].event = None
           /\ SlotOnly(r)
           /\ view[r] \in Table
           /\ view[r][req[r].camp] \in Campaign
<1>1. /\ req \in [Requests -> Request] /\ req[r] \in Request
      /\ view[r] \in Table \union {None}
      BY DEF IInv, TypeOK
<1>2. req[r] # Idle
      BY DEF Called, Idle
<1>3. RequestOK(r)
      BY <1>2 DEF IInv, RequestInv
<1>4. req'[r] = [req[r] EXCEPT !.pc = "saving", !.event = event]
      BY <1>1 DEF Called
<1>5. /\ req'[r].kind = req[r].kind /\ req'[r].camp = req[r].camp
      /\ req'[r].user = req[r].user
      /\ req'[r].pc = "saving" /\ req'[r].event = event
      /\ req'[r] \in Request
      BY <1>1, <1>4 DEF Request
<1>6. req' \in [Requests -> Request]
      BY <1>1, <1>5 DEF Called
<1>7. SlotOnly(r)
      BY <1>1 DEF Called, SlotOnly
<1>8. view[r] \in Table /\ view[r][req[r].camp] \in Campaign
      BY <1>1, <1>3 DEF RequestOK, Called, Table
<1>9. req[r].event = None
      BY <1>3 DEF RequestOK, Called
<1> QED BY <1>2, <1>3, <1>4, <1>5, <1>6, <1>7, <1>8, <1>9

LEMMA CalledInv ==
    ASSUME IInv, NEW r \in Requests, NEW event \in EventIds, Called(r, event),
           events'[event] # None,
           view[r][req[r].camp].link \in {None, event},
           events' \in [EventIds -> Event \union {None}],
           pushed' \subseteq EventIds, stray' \subseteq EventIds,
           stray \subseteq stray'
    PROVE  /\ TypeOK' /\ RequestInv' /\ SnapshotInv' /\ RepeatImportSkips'
           /\ LinksExist(campaigns)' /\ LinkMatchesStatus'
           /\ serial' => UniqueLinks'
           /\ Live' = Live
           /\ \A q \in Requests \ {r} : /\ Creating(q)' <=> Creating(q)
                                        /\ Unlinking(q)' <=> Unlinking(q)
           /\ ~Creating(r) /\ ~Unlinking(r)
           /\ \A e \in EventIds, S \in SUBSET Requests : Explained(e, S) => Explained(e, S)'
<1>1. /\ UNCHANGED <<campaigns, today, view, got, steps, stale, serial, manual, gone>>
      /\ KeepFresh({})
      BY DEF Called
<1>0. /\ req[r] # Idle /\ RequestOK(r)
      /\ req'[r].kind = req[r].kind /\ req'[r].camp = req[r].camp
      /\ req'[r].user = req[r].user
      /\ req'[r].pc = "saving" /\ req'[r].event = event
      /\ req[r].event = None
      /\ SlotOnly(r)
      /\ view[r] \in Table
      BY CalledFacts
<1>2. TypeOK'
  <2>1. fresh' \subseteq Ids
        BY <1>1, FreshType DEF IInv
  <2> QED BY <1>1, <2>1, CalledFacts DEF IInv, TypeOK
<1>3. RequestInv'
  <2>1. \A c \in Ids : view[r][c] # None /\ view[r][c].link # None
                          => view[r][c].link \in EventIds
        BY <1>0 DEF Table, Campaign
  <2>2. LinksExist(view[r])'
        BY <1>0, <1>1, <2>1 DEF LinksExist, RequestOK, Called
  <2>3. RequestOK(r)
        BY <1>0
  <2>4. req'[r].kind \in {"push", "unlink"}
        BY <1>0 DEF Called, Writing
  <2>5. RequestOK(r)'
        BY <1>0, <1>1, <2>2, <2>3, <2>4, NoneFacts DEF RequestOK, Writing
  <2>6. DOMAIN got[r] \subseteq EventIds /\ \A e \in DOMAIN got[r] : events[e] # None
        BY DEF IInv, TypeOK, RequestInv
  <2>7. \A e \in DOMAIN got'[r] : events'[e] # None
        BY <1>1, <2>6 DEF Called
  <2>8. SlotOnly(r) /\ \A e \in EventIds : events[e] # None => events'[e] # None
        BY <1>0 DEF Called
  <2>9. \A q \in Requests \ {r} : /\ (req[q] # Idle => RequestOK(q))'
                                  /\ \A e \in DOMAIN got'[q] : events'[e] # None
        BY <1>1, <2>8, RequestKept DEF SlotOnly
  <2> QED BY <2>5, <2>7, <2>9 DEF RequestInv
<1>4. SnapshotInv'
      BY <1>0, <1>1 DEF IInv, SnapshotInv, SlotOnly
<1>5. RepeatImportSkips'
      BY <1>1, FreshKept
<1>6. LinksExist(campaigns)' /\ LinkMatchesStatus' /\ (serial' => UniqueLinks')
      BY <1>1, RowsKept DEF Called
<1>7. Live' = Live
      BY <1>1 DEF Live, Exists
<1>8. \A q \in Requests \ {r} : (Creating(q)' <=> Creating(q)) /\ (Unlinking(q)' <=> Unlinking(q))
      BY <1>0, <1>1 DEF Creating, Unlinking, SlotOnly
<1>9. ~Creating(r) /\ ~Unlinking(r)
      BY DEF Called, Creating, Unlinking
<1>10. ASSUME NEW e \in EventIds, NEW S \in SUBSET Requests, Explained(e, S)
       PROVE  Explained(e, S)'
  <2>1. CASE e \in gone \union stray
        BY <1>1, <2>1 DEF Explained
  <2>2. ASSUME NEW q \in Requests \ S, req[q].kind = "unlink", req[q].event = e
        PROVE  Explained(e, S)'
    <3>1. q # r
          BY <1>0, <2>2, NoneFacts
    <3>2. req'[q] = req[q]
          BY <1>0, <3>1 DEF SlotOnly
    <3> QED BY <2>2, <3>2 DEF Explained
  <2> QED BY <1>10, <2>1, <2>2 DEF Explained
<1> QED BY <1>2, <1>3, <1>4, <1>5, <1>6, <1>7, <1>8, <1>9, <1>10

LEMMA CallPushInv ==
    ASSUME IInv, NEW r \in Requests, CallPush(r)
    PROVE  IInv'
<1> DEFINE row == view[r][req[r].camp]
           event == PushTarget(r)
           payload == BuildCampaignEvent(row, req[r].user, today)
<1>1. /\ req[r].kind = "push" /\ req[r].pc = "calling"
      /\ event \in EventIds
      /\ payload.end \in Days /\ payload.start < payload.end
      /\ row.link # None => InCalendar(req[r].user, event)
      /\ events' = [events EXCEPT ![event] = payload]
      /\ pushed' = IF row.link = None THEN pushed \union {event} ELSE pushed
      /\ req' = [req EXCEPT ![r].pc = "saving", ![r].event = event]
      /\ UNCHANGED <<campaigns, today, view, got, steps, stale, serial, manual,
                     stray, gone>>
      /\ KeepFresh({})
      BY DEF CallPush
<1>2. event = IF row.link = None THEN Made + 1 ELSE row.link
      BY DEF PushTarget
<1>3. /\ RequestOK(r) /\ row \in Campaign
      /\ req[r].user \in Users
  <2>1. req[r] # Idle
        BY <1>1 DEF Idle
  <2>2. RequestOK(r)
        BY <2>1 DEF IInv, RequestInv
  <2> QED BY <1>1, <2>2 DEF RequestOK, Writing, IInv, TypeOK, Table
<1>4. row.link # None => events[event] # None
  <2>1. row.link # None => row.link \in EventIds /\ events[row.link] # None
        BY <1>1, <1>3 DEF RequestOK, LinksExist, Campaign, Writing
  <2> QED BY <1>2, <2>1
<1>5. /\ Made \in 0 .. MaxEvents
      /\ \A f \in EventIds : events[f] # None <=> f <= Made
      BY UsedFacts
<1>6. row.link = None => events[event] = None
      BY <1>1, <1>2, <1>5
<1>7. event <= Made + 1
      BY <1>1, <1>2, <1>4, <1>5 DEF EventIds
<1>8. payload \in Event /\ payload.live
  <2>1. today \in Days
        BY CalendarAssumption, LinkAssumption DEF IInv, TypeOK, Days
  <2>2. payload.start \in Days
        BY <1>3, <2>1 DEF BuildCampaignEvent, Campaign, Date
  <2> QED BY <1>1, <1>3, <2>2 DEF BuildCampaignEvent, Event, Campaign
<1> HIDE DEF row, event, payload
<1>9. /\ events' \in [EventIds -> Event \union {None}]
      /\ \A f \in EventIds : events[f] # None => events'[f] # None
      /\ events'[event] = payload /\ payload # None
      /\ \A f \in EventIds \ {event} : events'[f] = events[f]
      /\ SpanInv'
      /\ \E n \in 0 .. MaxEvents : \A f \in EventIds : events'[f] # None <=> f <= n
      BY <1>1, <1>7, <1>8, EventWritten
<1>10. events[event] # None => events[event].live
      BY <1>1, <1>6 DEF InCalendar
<1>11. Called(r, event)
      BY <1>1, <1>9, <1>10 DEF Called, Writing
<1>12. DenseInv'
      BY <1>1, <1>9 DEF IInv, DenseInv
<1>13. /\ view[r][req[r].camp].link \in {None, event}
       /\ pushed' \subseteq EventIds /\ stray' \subseteq EventIds
       /\ stray \subseteq stray'
  <2>1. row.link \in {None, event}
        BY <1>2
  <2> QED BY <1>1, <2>1 DEF row, IInv, TypeOK
<1>14. /\ TypeOK' /\ RequestInv' /\ SnapshotInv' /\ RepeatImportSkips'
       /\ LinksExist(campaigns)' /\ LinkMatchesStatus'
       /\ serial' => UniqueLinks'
       /\ Live' = Live
       /\ \A q \in Requests \ {r} : /\ Creating(q)' <=> Creating(q)
                                    /\ Unlinking(q)' <=> Unlinking(q)
       /\ ~Creating(r) /\ ~Unlinking(r)
       /\ \A e \in EventIds, S \in SUBSET Requests : Explained(e, S) => Explained(e, S)'
      BY <1>1, <1>9, <1>11, <1>13, CalledInv
<1>15. /\ SlotOnly(r) /\ req'[r].event = event /\ req'[r].camp = req[r].camp
       /\ req'[r].kind = "push" /\ req'[r].pc = "saving"
      BY <1>1, <1>11, CalledFacts
<1>16. Creating(r)' <=> row.link = None
      BY <1>1, <1>15 DEF Creating, row
<1>17. CreatingInv'
  <2> SUFFICES ASSUME NEW q \in Requests, Creating(q)', q \notin stale,
                      NEW c \in Ids, campaigns[c] # None
               PROVE  campaigns[c].link # req'[q].event
      BY <1>1 DEF CreatingInv
  <2>1. CASE q = r
    <3>1. events[event] = None
          BY <1>6, <1>16, <2>1
    <3> QED BY <1>1, <1>15, <2>1, <3>1, LinkFacts, NoneFacts
  <2>2. CASE q # r
        BY <1>14, <1>15, <2>2 DEF IInv, CreatingInv, SlotOnly
  <2> QED BY <2>1, <2>2
<1>18. UnlinkInv'
  <2> SUFFICES ASSUME NEW q \in Requests, Unlinking(q)'
               PROVE  ~events'[req'[q].event].live \/ req'[q].event \in stray
      BY <1>1 DEF UnlinkInv
  <2>1. q # r /\ Unlinking(q) /\ req'[q] = req[q]
        BY <1>14, <1>15 DEF Unlinking, SlotOnly
  <2>2. ~events[req[q].event].live \/ req[q].event \in stray
        BY <2>1 DEF IInv, UnlinkInv
  <2>3. req[q].event \in EventIds /\ events[req[q].event] # None
        BY <2>1, IdleFacts, NoneFacts
        DEF IInv, RequestInv, TypeOK, Request, RequestOK, Writing, Unlinking
  <2> QED BY <1>9, <1>10, <2>1, <2>2, <2>3
<1>19. HistoryInv'
  <2>1. \A e \in pushed' : events'[e] # None
        BY <1>1, <1>9, LinkFacts
  <2>2. serial' => KnownInv'
    <3> SUFFICES ASSUME serial, NEW e \in pushed' \ stray, events'[e].live
                 PROVE  \/ \E c \in Ids : campaigns[c] # None /\ campaigns[c].link = e
                        \/ \E q \in Requests : Creating(q)' /\ req'[q].event = e
        BY <1>1 DEF KnownInv
    <3>1. CASE row.link = None /\ e = event
          BY <1>15, <1>16, <3>1
    <3>2. CASE ~(row.link = None /\ e = event)
      <4>1. e \in pushed \ stray /\ events[e] # None /\ e \in EventIds
            BY <1>1, <3>2, LinkFacts
      <4>2. events[e].live
            BY <1>9, <1>10, <4>1
      <4>3. CASE \E c \in Ids : campaigns[c] # None /\ campaigns[c].link = e
            BY <4>3
      <4>4. CASE \E q \in Requests : Creating(q) /\ req[q].event = e
            BY <1>14, <1>15, <4>4 DEF SlotOnly
      <4> QED BY <4>1, <4>2, <4>3, <4>4 DEF IInv, HistoryInv, KnownInv
    <3> QED BY <3>1, <3>2
  <2>3. serial' => DanglingLinkExplained'
    <3> SUFFICES ASSUME serial, NEW c \in Live \ manual,
                        campaigns[c].link # None, ~events'[campaigns[c].link].live
                 PROVE  Explained(campaigns[c].link, {})'
        BY <1>1, <1>14, DanglingForm
    <3>1. campaigns[c].link \in EventIds /\ events[campaigns[c].link] # None
          BY LinkFacts
    <3>2. ~events[campaigns[c].link].live
          BY <1>8, <1>9, <3>1
    <3>3. Explained(campaigns[c].link, {})
          BY <3>2, DanglingForm DEF IInv, HistoryInv
    <3>4. \A e \in EventIds : Explained(e, {}) => Explained(e, {})'
          BY <1>14
    <3>5. campaigns' = campaigns
          BY <1>1
    <3> QED BY <3>1, <3>3, <3>4, <3>5 DEF Explained
  <2>4. serial' => OthersInv'
    <3> SUFFICES ASSUME serial, NEW q \in Requests, Unlinking(q)', q \notin stale,
                        NEW c \in (Live \ manual) \ {req'[q].camp},
                        campaigns[c].link = req'[q].event
                 PROVE  Explained(req[q].event, {q})'
        BY <1>1, <1>14 DEF OthersInv
    <3>1. q # r /\ Unlinking(q) /\ req'[q] = req[q]
          BY <1>14, <1>15 DEF Unlinking, SlotOnly
    <3>2. Explained(req[q].event, {q})
          BY <3>1 DEF IInv, HistoryInv, OthersInv
    <3>3. req[q].event \in EventIds
          BY <3>1, IdleFacts
          DEF IInv, RequestInv, TypeOK, Request, RequestOK, Writing, Unlinking
    <3>4. \A e \in EventIds : Explained(e, {q}) => Explained(e, {q})'
          BY <1>14
    <3> QED BY <3>1, <3>2, <3>3, <3>4 DEF Explained
  <2>5. LostInv'
    <3> SUFFICES ASSUME NEW q \in Requests, q \notin stale, NEW e \in Linking(q)',
                        ~events'[e].live
                 PROVE  Explained(e, {})'
        BY <1>1 DEF LostInv
    <3>1. q # r
      <4>1. Linking(r)' \subseteq {event}
            BY <1>15 DEF Linking, Importing
      <4> QED BY <1>8, <1>9, <4>1
    <3>2. e \in Linking(q)
          BY <1>1, <1>14, <1>15, <3>1 DEF Linking, Importing, SlotOnly
    <3>3. ~events[e].live
          BY <1>8, <1>9, <3>2, LinkingFacts
    <3>4. Explained(e, {}) /\ e \in EventIds
          BY <3>2, <3>3, LinkingFacts DEF IInv, HistoryInv, LostInv
    <3> QED BY <1>14, <3>4
  <2> QED BY <1>14, <2>1, <2>2, <2>3, <2>4, <2>5 DEF HistoryInv
<1> QED BY <1>9, <1>12, <1>14, <1>17, <1>18, <1>19 DEF IInv

LEMMA CallUnlinkInv ==
    ASSUME IInv, NEW r \in Requests, CallUnlink(r)
    PROVE  IInv'
<1> DEFINE event == view[r][req[r].camp].link
           mine == InCalendar(req[r].user, event)
           others == {c \in Ids \ {req[r].camp} :
                        campaigns[c] # None /\ campaigns[c].link = event}
<1>1. /\ req[r].kind = "unlink" /\ req[r].pc = "calling"
      /\ events' = IF mine THEN [events EXCEPT ![event].live = FALSE] ELSE events
      /\ req' = [req EXCEPT ![r].pc = "saving", ![r].event = event]
      /\ stray' = IF (mine /\ others # {}) \/ (events[event].live /\ ~mine)
                  THEN stray \union {event} ELSE stray
      /\ UNCHANGED <<campaigns, today, view, got, steps, stale, serial, manual,
                     pushed, gone>>
      /\ KeepFresh({})
      BY DEF CallUnlink
<1>2. event \in EventIds /\ events[event] # None /\ events[event] \in Event
  <2>0. req[r].kind = "unlink"
        BY DEF CallUnlink
  <2>1. req[r] # Idle
        BY <2>0 DEF Idle
  <2>2. RequestOK(r) /\ view[r] \in Table
        BY <2>1 DEF IInv, RequestInv, RequestOK, TypeOK
  <2>3. event \in EventIds /\ events[event] # None
        BY <2>0, <2>2 DEF RequestOK, LinksExist, Campaign, Writing, Table
  <2> QED BY <2>3, LinkFacts
<1>3. mine => events[event].live
      BY DEF InCalendar
<1>4. view[r][req[r].camp].link \in {None, event}
      OBVIOUS
<1> HIDE DEF event, mine
<1>5. /\ events' \in [EventIds -> Event \union {None}]
      /\ \A f \in EventIds : events[f] # None => events'[f] # None
      /\ \A f \in EventIds \ {event} : events'[f] = events[f]
      /\ mine => ~events'[event].live
      /\ ~mine => events' = events
      /\ SpanInv'
      /\ DenseInv'
  <2>1. CASE mine
    <3> DEFINE new == [events[event] EXCEPT !.live = FALSE]
    <3>1. new \in Event /\ new.start < new.end /\ ~new.live
          BY <1>2 DEF Event, IInv, SpanInv
    <3>2. events' = [events EXCEPT ![event] = new]
          BY <1>1, <2>1
    <3>3. event <= Made + 1
          BY <1>2, UsedFacts DEF EventIds
    <3> HIDE DEF new
    <3>4. /\ events' \in [EventIds -> Event \union {None}]
          /\ \A f \in EventIds : events[f] # None => events'[f] # None
          /\ events'[event] = new
          /\ \A f \in EventIds \ {event} : events'[f] = events[f]
          /\ SpanInv'
          /\ \E n \in 0 .. MaxEvents : \A f \in EventIds : events'[f] # None <=> f <= n
          BY <1>2, <3>1, <3>2, <3>3, EventWritten
    <3> QED BY <1>1, <2>1, <3>1, <3>4 DEF IInv, DenseInv
  <2>2. CASE ~mine
        BY <1>1, <2>2 DEF IInv, TypeOK, SpanInv, DenseInv
  <2> QED BY <2>1, <2>2
<1>6. \A f \in EventIds : events[f] # None /\ events'[f].live => events[f].live
      BY <1>3, <1>5
<1>7. Called(r, event)
      BY <1>1, <1>5, <1>6 DEF Called, Writing
<1>8. /\ view[r][req[r].camp].link \in {None, event}
      /\ pushed' \subseteq EventIds /\ stray' \subseteq EventIds
      /\ stray \subseteq stray' /\ events'[event] # None
      BY <1>1, <1>2, <1>4, <1>5 DEF IInv, TypeOK
<1>9. /\ TypeOK' /\ RequestInv' /\ SnapshotInv' /\ RepeatImportSkips'
      /\ LinksExist(campaigns)' /\ LinkMatchesStatus'
      /\ serial' => UniqueLinks'
      /\ Live' = Live
      /\ \A q \in Requests \ {r} : /\ Creating(q)' <=> Creating(q)
                                   /\ Unlinking(q)' <=> Unlinking(q)
      /\ ~Creating(r) /\ ~Unlinking(r)
      /\ \A e \in EventIds, S \in SUBSET Requests : Explained(e, S) => Explained(e, S)'
      BY <1>2, <1>5, <1>7, <1>8, CalledInv
<1>10. /\ SlotOnly(r) /\ req'[r].event = event /\ req'[r].camp = req[r].camp
       /\ req'[r].kind = "unlink" /\ req'[r].pc = "saving"
       /\ req[r].event = None
      BY <1>1, <1>2, <1>7, CalledFacts
<1>11. CreatingInv'
  <2>1. \A q \in Requests : Creating(q)' => q # r /\ Creating(q) /\ req'[q] = req[q]
        BY <1>9, <1>10 DEF Creating, SlotOnly
  <2> QED BY <1>1, <2>1 DEF IInv, CreatingInv
<1>12. \A q \in Requests \ {r} : Unlinking(q)' =>
          /\ Unlinking(q) /\ req'[q] = req[q]
          /\ req[q].event \in EventIds /\ events[req[q].event] # None
  <2> SUFFICES ASSUME NEW q \in Requests \ {r}, Unlinking(q)'
               PROVE  /\ Unlinking(q) /\ req'[q] = req[q]
                      /\ req[q].event \in EventIds /\ events[req[q].event] # None
      OBVIOUS
  <2>1. Unlinking(q) /\ req'[q] = req[q]
        BY <1>9, <1>10 DEF SlotOnly
  <2> QED BY <2>1, IdleFacts, NoneFacts
      DEF IInv, RequestInv, TypeOK, Request, RequestOK, Writing, Unlinking
<1>13. mine \/ ~events[event].live \/ event \in stray'
      BY <1>1
<1>14. UnlinkInv'
  <2> SUFFICES ASSUME NEW q \in Requests, Unlinking(q)'
               PROVE  ~events'[req'[q].event].live \/ req'[q].event \in stray'
      BY DEF UnlinkInv
  <2>1. CASE q = r
        BY <1>5, <1>10, <1>13, <2>1
  <2>2. CASE q # r
        BY <1>6, <1>8, <1>12, <2>2 DEF IInv, UnlinkInv
  <2> QED BY <2>1, <2>2
<1>15. HistoryInv'
  <2>1. \A e \in pushed' : events'[e] # None
        BY <1>1, <1>5, LinkFacts
  <2>2. serial' => KnownInv'
    <3> SUFFICES ASSUME serial, NEW e \in pushed \ stray', events'[e].live
                 PROVE  \/ \E c \in Ids : campaigns[c] # None /\ campaigns[c].link = e
                        \/ \E q \in Requests : Creating(q)' /\ req'[q].event = e
        BY <1>1 DEF KnownInv
    <3>1. e \in pushed \ stray /\ events[e].live
          BY <1>6, <1>8, LinkFacts
    <3>2. CASE \E c \in Ids : campaigns[c] # None /\ campaigns[c].link = e
          BY <3>2
    <3>3. CASE \E q \in Requests : Creating(q) /\ req[q].event = e
          BY <1>9, <1>10, <3>3 DEF SlotOnly
    <3> QED BY <1>1, <3>1, <3>2, <3>3 DEF IInv, HistoryInv, KnownInv
  <2>3. serial' => DanglingLinkExplained'
    <3> SUFFICES ASSUME serial, NEW c \in Live \ manual,
                        campaigns[c].link # None, ~events'[campaigns[c].link].live
                 PROVE  Explained(campaigns[c].link, {})'
        BY <1>1, <1>9, DanglingForm
    <3> DEFINE e == campaigns[c].link
    <3>1. e \in EventIds /\ campaigns' = campaigns
          BY <1>1, LinkFacts
    <3>2. CASE ~events[e].live
      <4>1. Explained(e, {})
            BY <3>2, DanglingForm DEF IInv, HistoryInv
      <4>2. \A f \in EventIds : Explained(f, {}) => Explained(f, {})'
            BY <1>9
      <4> QED BY <3>1, <4>1, <4>2 DEF Explained
    <3>3. CASE events[e].live
      <4>1. e = event
            BY <1>5, <3>1, <3>3
      <4> QED BY <1>10, <3>1, <4>1 DEF Explained
    <3> QED BY <3>2, <3>3
  <2>4. serial' => OthersInv'
    <3> SUFFICES ASSUME serial, NEW q \in Requests, Unlinking(q)', q \notin stale,
                        NEW c \in (Live \ manual) \ {req'[q].camp},
                        campaigns[c].link = req'[q].event
                 PROVE  Explained(req[q].event, {q})'
        BY <1>1, <1>9 DEF OthersInv
    <3>0. \A e \in EventIds : Explained(e, {q}) => Explained(e, {q})'
          BY <1>9
    <3>1. CASE q # r
      <4>1. Unlinking(q) /\ req'[q] = req[q] /\ req[q].event \in EventIds
            BY <1>12, <3>1
      <4>2. Explained(req[q].event, {q})
            BY <4>1 DEF IInv, HistoryInv, OthersInv
      <4> QED BY <3>0, <4>1, <4>2 DEF Explained
    <3>2. CASE q = r
      <4>1. c \in others /\ c \in Live \ manual /\ campaigns[c].link = event
            BY <1>10, <3>2, LinkFacts
      <4>2. CASE event \in stray'
            BY <1>10, <3>2, <4>2 DEF Explained
      <4>3. CASE event \notin stray'
        <5>1. ~mine /\ ~events[event].live
              BY <1>1, <4>1, <4>3
        <5>2. Explained(event, {})
              BY <1>2, <4>1, <5>1, DanglingForm, NoneFacts DEF IInv, HistoryInv
        <5>3. Explained(event, {r})
              BY <1>2, <1>10, <5>2, NoneFacts DEF Explained
        <5> QED BY <1>2, <1>10, <3>0, <3>2, <5>3 DEF Explained
      <4> QED BY <4>2, <4>3
    <3> QED BY <3>1, <3>2
  <2>5. LostInv'
    <3> SUFFICES ASSUME NEW q \in Requests, q \notin stale, NEW e \in Linking(q)',
                        ~events'[e].live
                 PROVE  Explained(e, {})'
        BY <1>1 DEF LostInv
    <3>1. e \in Linking(q)
      <4>1. Linking(r)' = {}
            BY <1>10 DEF Linking, Creating, Importing
      <4> QED BY <1>1, <1>9, <1>10, <4>1 DEF Linking, Importing, SlotOnly
    <3>2. e \in EventIds /\ events[e] # None
          BY <3>1, LinkingFacts
    <3>3. CASE ~events[e].live
      <4>1. Explained(e, {})
            BY <3>1, <3>3 DEF IInv, HistoryInv, LostInv
      <4> QED BY <1>9, <3>2, <4>1
    <3>4. CASE events[e].live
      <4>1. e = event
            BY <1>5, <3>2, <3>4
      <4> QED BY <1>10, <4>1 DEF Explained
    <3> QED BY <3>3, <3>4
  <2> QED BY <1>9, <2>1, <2>2, <2>3, <2>4, <2>5 DEF HistoryInv
<1> QED BY <1>5, <1>9, <1>11, <1>14, <1>15 DEF IInv
-------------------------------------------------------------------------------
(* A commit: rows are only made and changed, events are left alone, and every *)
(* request but the writers is overtaken.                                      *)
LEMMA CommitInv ==
    ASSUME IInv, NEW S, Overtake(S), \A r \in Requests \intersect S : req'[r] = Idle,
           \A r \in Requests :
              \/ req'[r] = Idle /\ got'[r] = <<>>
              \/ req'[r] = req[r] /\ view'[r] = view[r] /\ got'[r] = got[r],
           events' = events, stray \subseteq stray',
           \A c \in Ids : campaigns[c] # None => campaigns'[c] # None,
           \E n \in 0 .. MaxCampaigns : \A c \in Ids : campaigns'[c] # None <=> c <= n
    PROVE  /\ RequestInv' /\ SnapshotInv' /\ CreatingInv' /\ OthersInv' /\ LostInv'
           /\ UnlinkInv' /\ DenseInv' /\ SpanInv'
<1>1. SnapshotInv' /\ CreatingInv' /\ OthersInv' /\ LostInv'
      BY AllOvertaken
<1>2. RequestInv'
  <2> SUFFICES ASSUME NEW r \in Requests
               PROVE  /\ req'[r] # Idle => RequestOK(r)'
                      /\ \A e \in DOMAIN got'[r] : events'[e] # None
      BY DEF RequestInv, Idle
  <2>1. CASE req'[r] = Idle /\ got'[r] = <<>>
        BY <2>1
  <2>2. CASE req'[r] = req[r] /\ view'[r] = view[r] /\ got'[r] = got[r]
        BY <2>2, RequestKept
  <2> QED BY <2>1, <2>2
<1>3. UnlinkInv'
  <2> SUFFICES ASSUME NEW r \in Requests, Unlinking(r)'
               PROVE  ~events'[req'[r].event].live \/ req'[r].event \in stray'
      BY DEF UnlinkInv
  <2>1. req'[r] # Idle
        BY DEF Unlinking, Idle
  <2>2. req'[r] = req[r] /\ Unlinking(r)
        BY <2>1 DEF Unlinking
  <2> QED BY <2>2 DEF IInv, UnlinkInv
<1>4. DenseInv' /\ SpanInv'
      BY DEF IInv, DenseInv, SpanInv
<1> QED BY <1>1, <1>2, <1>3, <1>4

(* The table after one row is made or written.                                *)
LEMMA RowWritten ==
    ASSUME IInv, NEW c \in Ids, NEW row \in Campaign, c <= Used + 1,
           row.link # None => events[row.link] # None,
           campaigns' = [campaigns EXCEPT ![c] = row], events' = events
    PROVE  /\ campaigns' \in Table
           /\ \A d \in Ids : campaigns[d] # None => campaigns'[d] # None
           /\ campaigns'[c] = row /\ row # None
           /\ \A d \in Ids \ {c} : campaigns'[d] = campaigns[d]
           /\ LinksExist(campaigns)'
           /\ \E n \in 0 .. MaxCampaigns : \A d \in Ids : campaigns'[d] # None <=> d <= n
<1>1. campaigns \in Table /\ row # None
      BY NoneFacts DEF IInv, TypeOK
<1>2. /\ campaigns'[c] = row
      /\ \A d \in Ids \ {c} : campaigns'[d] = campaigns[d]
      /\ campaigns' \in Table
      BY <1>1 DEF Table
<1>3. /\ Used \in 0 .. MaxCampaigns /\ MaxCampaigns \in Nat
      /\ \A d \in Ids : campaigns[d] # None <=> d <= Used
      BY UsedFacts, LinkAssumption
<1>4. \E n \in 0 .. MaxCampaigns : \A d \in Ids : campaigns'[d] # None <=> d <= n
  <2> DEFINE n == IF c <= Used THEN Used ELSE Used + 1
  <2>1. n \in 0 .. MaxCampaigns
        BY <1>3 DEF Ids
  <2>2. \A d \in Ids : d <= n <=> d <= Used \/ d = c
        BY <1>3 DEF Ids
  <2>3. \A d \in Ids : campaigns'[d] # None <=> d <= Used \/ d = c
        BY <1>1, <1>2, <1>3
  <2> HIDE DEF n
  <2> QED BY <2>1, <2>2, <2>3
<1>5. LinksExist(campaigns)'
      BY <1>2 DEF IInv, LinksExist
<1>6. \A d \in Ids : campaigns[d] # None => campaigns'[d] # None
      BY <1>1, <1>2
<1> QED BY <1>1, <1>2, <1>4, <1>5, <1>6

(* The UPDATE of a push or an unlink, whatever it writes.                     *)
LEMMA SaveRowFacts ==
    ASSUME IInv, NEW r \in Requests, NEW row \in Campaign,
           Writing(r), req[r].pc = "saving", SaveRow(r, row),
           row.link # None => events[row.link] # None,
           manual' \subseteq manual
    PROVE  /\ RequestOK(r) /\ req[r].camp \in Ids /\ campaigns[req[r].camp] \in Campaign
           /\ TypeOK' /\ RequestInv' /\ SnapshotInv' /\ CreatingInv' /\ OthersInv'
           /\ LostInv' /\ UnlinkInv' /\ DenseInv' /\ SpanInv' /\ LinksExist(campaigns)'
           /\ RepeatImportSkips'
           /\ \A d \in Ids \ {req[r].camp} : campaigns'[d] = campaigns[d]
           /\ SlotOnly(r)
           /\ UNCHANGED <<events, pushed, stray, gone>>
           /\ serial' => /\ serial /\ r \notin stale
                         /\ view[r] = campaigns
                         /\ ~campaigns[req[r].camp].deleted
                         /\ campaigns'[req[r].camp] = row
<1> DEFINE c == req[r].camp
<1>1. /\ campaigns' = IF Exists(c) THEN [campaigns EXCEPT ![c] = row] ELSE campaigns
      /\ End(r)
      /\ UNCHANGED <<events, today, steps, pushed, stray, gone>>
      /\ Overtake({r})
      /\ serial' = (serial /\ r \notin stale)
      /\ KeepFresh({})
      BY DEF SaveRow
<1>2. req[r] # Idle /\ RequestOK(r)
      BY IdleFacts DEF Writing, IInv, RequestInv, Idle
<1>3. c \in Ids /\ campaigns[c] # None /\ view[r][c] # None /\ ~view[r][c].deleted
      BY <1>2 DEF RequestOK
<1>4. campaigns[c] \in Campaign
      BY <1>3, LinkFacts
<1>5. c <= Used + 1
      BY <1>3, UsedFacts DEF Ids
<1> HIDE DEF c
<1>6. /\ campaigns' \in Table
      /\ \A d \in Ids : campaigns[d] # None => campaigns'[d] # None
      /\ \A d \in Ids \ {c} : campaigns'[d] = campaigns[d]
      /\ LinksExist(campaigns)'
      /\ \E n \in 0 .. MaxCampaigns : \A d \in Ids : campaigns'[d] # None <=> d <= n
      /\ ~campaigns[c].deleted => campaigns'[c] = row
  <2>1. CASE Exists(c)
        BY <1>1, <1>3, <1>5, <2>1, RowWritten
  <2>2. CASE ~Exists(c)
        BY <1>1, <1>3, <2>2 DEF Exists, IInv, TypeOK, LinksExist, DenseInv
  <2> QED BY <2>1, <2>2
<1>7. /\ req'[r] = Idle /\ view'[r] = None /\ got'[r] = <<>>
      /\ SlotOnly(r)
      /\ req' \in [Requests -> Request]
      /\ view' \in [Requests -> Table \union {None}]
      /\ DOMAIN got' = Requests
      /\ \A q \in Requests :
           \E given \in SUBSET EventIds : got'[q] \in [given -> Event]
      BY <1>1, EndFacts DEF IInv
<1>8. TypeOK'
  <2>1. fresh' \subseteq Ids
        BY <1>1, FreshType DEF IInv
  <2>2. stale' \subseteq Requests /\ serial' \in BOOLEAN
        BY <1>1 DEF Overtake
  <2> QED BY <1>1, <1>6, <1>7, <2>1, <2>2 DEF IInv, TypeOK
<1>9. \A q \in Requests :
        \/ req'[q] = Idle /\ got'[q] = <<>>
        \/ req'[q] = req[q] /\ view'[q] = view[q] /\ got'[q] = got[q]
      BY <1>7 DEF SlotOnly
<1>10. /\ RequestInv' /\ SnapshotInv' /\ CreatingInv' /\ OthersInv' /\ LostInv'
       /\ UnlinkInv' /\ DenseInv' /\ SpanInv'
      BY <1>1, <1>6, <1>7, <1>9, CommitInv
<1>11. RepeatImportSkips'
      BY <1>1, FreshKept
<1>12. serial' => /\ serial /\ r \notin stale
                  /\ view[r] = campaigns
                  /\ ~campaigns[c].deleted
                  /\ campaigns'[c] = row
      BY <1>1, <1>2, <1>3, <1>6 DEF IInv, SnapshotInv
<1> QED BY <1>1, <1>2, <1>3, <1>4, <1>6, <1>7, <1>8, <1>10, <1>11, <1>12 DEF c

LEMMA SavePushInv ==
    ASSUME IInv, NEW r \in Requests, SavePush(r)
    PROVE  IInv'
<1> DEFINE c == req[r].camp
           e == req[r].event
           old == view[r][c]
           row == [campaigns[c] EXCEPT
                     !.link = e, !.sync = "synced",
                     !.hash = BuildSyncHash(old.name, old.start, old.end)]
<1>1. /\ req[r].kind = "push" /\ req[r].pc = "saving"
      /\ SaveRow(r, row) /\ manual' = manual
      BY DEF SavePush
<1>2. req[r] # Idle /\ RequestOK(r)
      BY <1>1, IdleFacts DEF IInv, RequestInv
<1>3. /\ c \in Ids /\ campaigns[c] \in Campaign /\ old \in Campaign
      /\ old.link \in {None, e}
      /\ e \in EventIds /\ events[e] # None
  <2>1. c \in Ids /\ old # None /\ campaigns[c] # None /\ old.link \in {None, e}
        BY <1>1, <1>2 DEF RequestOK, Writing
  <2>2. view[r] \in Table
        BY <1>2 DEF IInv, TypeOK, RequestOK
  <2>3. old \in Campaign
        BY <2>1, <2>2 DEF Table
  <2>4. e # None /\ events[e] # None
        BY <1>1, <1>2 DEF RequestOK, Writing
  <2>5. e \in EventIds
        BY <2>4 DEF IInv, TypeOK, Request
  <2> QED BY <2>1, <2>3, <2>4, <2>5, LinkFacts
<1>4. /\ row \in Campaign
      /\ row.link = e /\ row.sync = "synced" /\ row.hash # None
      /\ row.owner = campaigns[c].owner /\ row.deleted = campaigns[c].deleted
  <2>1. BuildSyncHash(old.name, old.start, old.end) \in Hash
        BY <1>3 DEF BuildSyncHash, Hash, Campaign
  <2> QED BY <1>3, <2>1, NoneFacts DEF Campaign, SyncStatus
<1>5. Creating(r) <=> old.link = None
      BY <1>1 DEF Creating
<1> HIDE DEF row, old
<1>6. /\ TypeOK' /\ RequestInv' /\ SnapshotInv' /\ CreatingInv' /\ OthersInv'
      /\ LostInv' /\ UnlinkInv' /\ DenseInv' /\ SpanInv' /\ LinksExist(campaigns)'
      /\ RepeatImportSkips'
      /\ \A d \in Ids \ {c} : campaigns'[d] = campaigns[d]
      /\ SlotOnly(r)
      /\ UNCHANGED <<events, pushed, stray, gone>>
      /\ serial' => /\ serial /\ r \notin stale
                    /\ view[r] = campaigns
                    /\ ~campaigns[c].deleted
                    /\ campaigns'[c] = row
      BY <1>1, <1>3, <1>4, SaveRowFacts DEF Writing
<1>7. ASSUME serial'
      PROVE  UniqueLinks' /\ KnownInv' /\ DanglingLinkExplained' /\ LinkMatchesStatus'
  <2>1. /\ serial /\ r \notin stale /\ ~campaigns[c].deleted
        /\ campaigns'[c] = row /\ old = campaigns[c]
        BY <1>6, <1>7 DEF old
  <2>2. Live' = Live /\ c \in Live
        BY <1>3, <1>4, <1>6, <2>1, NoneFacts DEF Live, Exists
  <2>3. CASE old.link = e
    <3>1. \A d \in Ids : campaigns[d] # None =>
             /\ campaigns'[d] # None /\ campaigns'[d].link = campaigns[d].link
             /\ campaigns'[d].owner = campaigns[d].owner
          BY <1>3, <1>4, <1>6, <2>1, <2>3, NoneFacts
    <3>2. UniqueLinks'
          BY <1>1, <2>1, <2>2, <3>1, LinkFacts DEF UniqueLinks, IInv, HistoryInv
    <3>3. \A q \in Requests : Creating(q) => Creating(q)' /\ req'[q] = req[q]
          BY <1>3, <1>5, <1>6, <2>3, NoneFacts DEF Creating, SlotOnly
    <3>4. KnownInv'
          BY <1>6, <2>1, <3>1, <3>3 DEF KnownInv, IInv, HistoryInv
    <3>5. \A q \in Requests : req[q].kind = "unlink" => req'[q] = req[q]
          BY <1>1, <1>6 DEF SlotOnly
    <3>6. DanglingLinkExplained'
          BY <1>1, <1>6, <2>1, <2>2, <3>1, <3>5, LinkFacts
          DEF DanglingLinkExplained, IInv, HistoryInv
    <3>7. LinkMatchesStatus'
          BY <1>1, <1>3, <1>4, <1>6, <2>1, <2>2, LinkFacts, NoneFacts
          DEF LinkMatchesStatus, IInv
    <3> QED BY <3>2, <3>4, <3>6, <3>7
  <2>4. CASE old.link = None
    <3>1. Creating(r)
          BY <1>5, <2>4
    <3>2. \A d \in Ids : campaigns[d] # None => campaigns[d].link # e
          BY <2>1, <3>1 DEF IInv, CreatingInv
    <3>3. UniqueLinks'
      <4> SUFFICES ASSUME NEW d \in Live \ manual, NEW f \in Live \ manual,
                          campaigns'[d].link = campaigns'[f].link,
                          campaigns'[d].link # None,
                          campaigns'[d].owner = campaigns'[f].owner
                   PROVE  d = f
          BY <1>1, <2>2 DEF UniqueLinks
      <4>1. CASE d = c \/ f = c
            BY <1>4, <1>6, <2>1, <3>2, <4>1, LinkFacts
      <4>2. CASE d # c /\ f # c
            BY <1>6, <2>1, <4>2, LinkFacts DEF UniqueLinks, IInv, HistoryInv
      <4> QED BY <4>1, <4>2
    <3>4. KnownInv'
      <4> SUFFICES ASSUME NEW f \in pushed \ stray, events[f].live
                   PROVE  \/ \E d \in Ids : campaigns'[d] # None /\ campaigns'[d].link = f
                          \/ \E q \in Requests : Creating(q)' /\ req'[q].event = f
          BY <1>6 DEF KnownInv
      <4>1. CASE f = e
            BY <1>3, <1>4, <2>1, <4>1, NoneFacts
      <4>2. CASE f # e /\ \E d \in Ids : campaigns[d] # None /\ campaigns[d].link = f
        <5>1. PICK d \in Ids : campaigns[d] # None /\ campaigns[d].link = f
              BY <4>2
        <5>2. d # c
              BY <2>1, <2>4, <5>1, LinkFacts, NoneFacts
        <5> QED BY <1>6, <5>1, <5>2
      <4>3. CASE f # e /\ \E q \in Requests : Creating(q) /\ req[q].event = f
            BY <1>6, <4>3 DEF Creating, SlotOnly
      <4> QED BY <2>1, <4>1, <4>2, <4>3 DEF KnownInv, IInv, HistoryInv
    <3>5. DanglingLinkExplained'
      <4> SUFFICES ASSUME NEW d \in Live \ manual,
                          campaigns'[d].link # None, ~events[campaigns'[d].link].live
                   PROVE  Explained(campaigns[d].link, {})'
          BY <1>1, <1>6, <2>2, DanglingForm
      <4>2. CASE d = c
        <5>1. campaigns'[d].link = e
              BY <1>4, <2>1, <4>2
        <5>2. Explained(e, {})
              BY <1>3, <2>1, <3>1, <5>1 DEF IInv, HistoryInv, LostInv, Linking
        <5> QED BY <1>1, <1>6, <5>1, <5>2 DEF Explained, SlotOnly
      <4>3. CASE d # c
        <5>1. campaigns'[d] = campaigns[d]
              BY <1>6, <4>3, LinkFacts
        <5>2. Explained(campaigns[d].link, {})
              BY <2>1, <5>1, DanglingForm DEF IInv, HistoryInv
        <5> QED BY <1>1, <1>6, <5>1, <5>2 DEF Explained, SlotOnly
      <4> QED BY <4>2, <4>3
    <3>6. LinkMatchesStatus'
          BY <1>1, <1>3, <1>4, <1>6, <2>1, <2>2, LinkFacts, NoneFacts
          DEF LinkMatchesStatus, IInv
    <3> QED BY <3>3, <3>4, <3>5, <3>6
  <2> QED BY <1>3, <2>3, <2>4 DEF old
<1>8. LinkMatchesStatus'
      BY <1>7 DEF LinkMatchesStatus
<1>9. HistoryInv'
      BY <1>6, <1>7, LinkFacts DEF HistoryInv
<1> QED BY <1>6, <1>8, <1>9 DEF IInv

LEMMA SaveUnlinkInv ==
    ASSUME IInv, NEW r \in Requests, SaveUnlink(r)
    PROVE  IInv'
<1> DEFINE c == req[r].camp
           e == req[r].event
           old == view[r][c]
           row == [campaigns[c] EXCEPT !.link = None, !.sync = "removed", !.hash = None]
<1>1. /\ req[r].kind = "unlink" /\ req[r].pc = "saving"
      /\ SaveRow(r, row) /\ manual' = manual \ {c}
      BY DEF SaveUnlink
<1>2. Unlinking(r) /\ req[r] # Idle /\ RequestOK(r)
      BY <1>1, CreatingFacts DEF Unlinking
<1>3. c \in Ids /\ campaigns[c] \in Campaign /\ old.link = e /\ e \in EventIds
  <2>1. c \in Ids /\ campaigns[c] # None /\ old.link \in {None, e} /\ old.link # None
        BY <1>1, <1>2 DEF RequestOK, Writing
  <2> QED BY <1>2, <2>1, LinkFacts, CreatingFacts
<1>4. /\ row \in Campaign
      /\ row.link = None /\ row.sync # "synced" /\ row.hash = None
      /\ row.owner = campaigns[c].owner /\ row.deleted = campaigns[c].deleted
      BY <1>3 DEF Campaign, SyncStatus
<1> HIDE DEF row, old
<1>5. manual' \subseteq manual
      BY <1>1
<1>6. /\ TypeOK' /\ RequestInv' /\ SnapshotInv' /\ CreatingInv' /\ OthersInv'
      /\ LostInv' /\ UnlinkInv' /\ DenseInv' /\ SpanInv' /\ LinksExist(campaigns)'
      /\ RepeatImportSkips'
      /\ \A d \in Ids \ {c} : campaigns'[d] = campaigns[d]
      /\ SlotOnly(r)
      /\ UNCHANGED <<events, pushed, stray, gone>>
      /\ serial' => /\ serial /\ r \notin stale
                    /\ view[r] = campaigns
                    /\ ~campaigns[c].deleted
                    /\ campaigns'[c] = row
      BY <1>1, <1>4, <1>5, SaveRowFacts DEF Writing
<1>7. ASSUME serial'
      PROVE  UniqueLinks' /\ KnownInv' /\ DanglingLinkExplained' /\ LinkMatchesStatus'
  <2>1. /\ serial /\ r \notin stale /\ ~campaigns[c].deleted
        /\ campaigns'[c] = row /\ campaigns[c].link = e
        BY <1>3, <1>6, <1>7 DEF old
  <2>2. Live' = Live /\ c \in Live
        BY <1>3, <1>4, <1>6, <2>1, NoneFacts DEF Live, Exists
  <2>3. UniqueLinks'
    <3> SUFFICES ASSUME NEW d \in Live \ manual', NEW f \in Live \ manual',
                        campaigns'[d].link = campaigns'[f].link,
                        campaigns'[d].link # None,
                        campaigns'[d].owner = campaigns'[f].owner
                 PROVE  d = f
        BY <2>2 DEF UniqueLinks
    <3>1. d # c /\ f # c
          BY <1>4, <2>1
    <3> QED BY <1>1, <1>6, <2>1, <3>1, LinkFacts DEF UniqueLinks, IInv, HistoryInv
  <2>4. KnownInv'
    <3> SUFFICES ASSUME NEW f \in pushed \ stray, events[f].live
                 PROVE  \/ \E d \in Ids : campaigns'[d] # None /\ campaigns'[d].link = f
                        \/ \E q \in Requests : Creating(q)' /\ req'[q].event = f
        BY <1>6 DEF KnownInv
    <3>1. f # e
          BY <1>2 DEF IInv, UnlinkInv
    <3>2. CASE \E d \in Ids : campaigns[d] # None /\ campaigns[d].link = f
          BY <1>6, <2>1, <3>1, <3>2
    <3>3. CASE \E q \in Requests : Creating(q) /\ req[q].event = f
          BY <1>1, <1>6, <3>3 DEF Creating, SlotOnly
    <3> QED BY <2>1, <3>2, <3>3 DEF KnownInv, IInv, HistoryInv
  <2>5. DanglingLinkExplained'
    <3> SUFFICES ASSUME NEW d \in Live \ manual',
                        campaigns'[d].link # None, ~events[campaigns'[d].link].live
                 PROVE  Explained(campaigns[d].link, {})'
        BY <1>6, <2>2, DanglingForm
    <3>1. d # c
          BY <1>4, <2>1
    <3>2. d \in (Live \ manual) \ {c} /\ campaigns'[d] = campaigns[d]
          BY <1>1, <1>6, <3>1, LinkFacts
    <3>3. Explained(campaigns[d].link, {})
          BY <2>1, <3>2, DanglingForm DEF IInv, HistoryInv
    <3>4. campaigns[d].link = e => Explained(e, {r})
          BY <1>2, <2>1, <3>2 DEF IInv, HistoryInv, OthersInv
    <3>5. Explained(campaigns[d].link, {r})
          BY <3>3, <3>4 DEF Explained
    <3> QED BY <1>6, <3>2, <3>5 DEF Explained, SlotOnly
  <2>6. LinkMatchesStatus'
        BY <1>1, <1>3, <1>4, <1>6, <2>1, <2>2, LinkFacts, NoneFacts
        DEF LinkMatchesStatus, IInv
  <2> QED BY <2>3, <2>4, <2>5, <2>6
<1>8. LinkMatchesStatus'
      BY <1>7 DEF LinkMatchesStatus
<1>9. HistoryInv'
      BY <1>6, <1>7, LinkFacts DEF HistoryInv
<1> QED BY <1>6, <1>8, <1>9 DEF IInv
-------------------------------------------------------------------------------
(* A request that never waits for Google: one row is made or written.         *)
LEMMA WriteRowFacts ==
    ASSUME IInv, NEW c \in Ids, NEW row \in Campaign, WriteRow(c, row), c <= Used + 1,
           row.link # None => events[row.link] # None,
           stray \subseteq stray', stray' \subseteq EventIds, manual' \subseteq Ids
    PROVE  /\ TypeOK' /\ RequestInv' /\ SnapshotInv' /\ CreatingInv' /\ OthersInv'
           /\ LostInv' /\ UnlinkInv' /\ DenseInv' /\ SpanInv' /\ LinksExist(campaigns)'
           /\ RepeatImportSkips'
           /\ campaigns'[c] = row /\ row # None
           /\ \A d \in Ids \ {c} : campaigns'[d] = campaigns[d]
           /\ UNCHANGED <<events, requestVars, serial, pushed, gone>>
           /\ \A e, S : Explained(e, S) => Explained(e, S)'
           /\ \A q \in Requests : Creating(q) => Creating(q)'
<1>1. /\ campaigns' = [campaigns EXCEPT ![c] = row]
      /\ UNCHANGED <<events, today, requestVars, serial, pushed, gone>>
      /\ Overtake({})
      /\ KeepFresh({})
      /\ Step
      BY DEF WriteRow
<1>2. /\ campaigns' \in Table
      /\ \A d \in Ids : campaigns[d] # None => campaigns'[d] # None
      /\ campaigns'[c] = row /\ row # None
      /\ \A d \in Ids \ {c} : campaigns'[d] = campaigns[d]
      /\ LinksExist(campaigns)'
      /\ \E n \in 0 .. MaxCampaigns : \A d \in Ids : campaigns'[d] # None <=> d <= n
      BY <1>1, RowWritten
<1>3. TypeOK'
  <2>1. fresh' \subseteq Ids
        BY <1>1, FreshType DEF IInv
  <2>2. steps' \in 0 .. MaxSteps
        BY <1>1, LinkAssumption DEF Step, IInv, TypeOK
  <2>3. stale' \subseteq Requests
        BY <1>1 DEF Overtake
  <2> QED BY <1>1, <1>2, <2>1, <2>2, <2>3 DEF IInv, TypeOK, requestVars
<1>4. /\ RequestInv' /\ SnapshotInv' /\ CreatingInv' /\ OthersInv' /\ LostInv'
      /\ UnlinkInv' /\ DenseInv' /\ SpanInv'
  <2>1. \A q \in Requests : req'[q] = req[q] /\ view'[q] = view[q] /\ got'[q] = got[q]
        BY <1>1 DEF requestVars
  <2> QED BY <1>1, <1>2, <2>1, CommitInv
<1>5. RepeatImportSkips'
      BY <1>1, FreshKept
<1>6. \A e, S : Explained(e, S) => Explained(e, S)'
      BY <1>1 DEF Explained, requestVars
<1>7. \A q \in Requests : Creating(q) => Creating(q)'
      BY <1>1 DEF Creating, requestVars
<1> QED BY <1>1, <1>2, <1>3, <1>4, <1>5, <1>6, <1>7

LEMMA CreateCampaignInv ==
    ASSUME IInv, NEW u \in Users, NEW owner \in Users, CreateCampaign(u, owner)
    PROVE  IInv'
<1> DEFINE c == Used + 1
<1>1. PICK t \in Titles, s \in Spans :
        WriteRow(c, [NewCampaign(owner, t) EXCEPT !.start = s[1], !.end = s[2]])
      BY DEF CreateCampaign
<1> DEFINE row == [NewCampaign(owner, t) EXCEPT !.start = s[1], !.end = s[2]]
<1>2. /\ row \in Campaign
      /\ row.link = None /\ row.sync # "synced" /\ row.hash = None /\ ~row.deleted
  <2>1. s[1] \in Date /\ s[2] \in Date
        BY LinkAssumption, CalendarAssumption DEF Date, Days
  <2> QED BY <2>1 DEF NewCampaign, Campaign, Status, SyncStatus, Date
<1>3. c \in Ids /\ campaigns[c] = None
  <2>1. Used < MaxCampaigns /\ MaxCampaigns \in Nat
        BY LinkAssumption DEF CreateCampaign
  <2> QED BY <2>1, UsedFacts DEF Ids
<1>4. /\ manual' = manual /\ stray' = stray
      /\ manual \subseteq Ids /\ stray \subseteq EventIds
      BY DEF CreateCampaign, IInv, TypeOK
<1>5. c <= Used + 1
      BY UsedFacts
<1> HIDE DEF c, row
<1>6. WriteRow(c, row)
      BY <1>1 DEF row
<1>7. /\ TypeOK' /\ RequestInv' /\ SnapshotInv' /\ CreatingInv' /\ OthersInv'
      /\ LostInv' /\ UnlinkInv' /\ DenseInv' /\ SpanInv' /\ LinksExist(campaigns)'
      /\ RepeatImportSkips'
      /\ campaigns'[c] = row /\ row # None
      /\ \A d \in Ids \ {c} : campaigns'[d] = campaigns[d]
      /\ UNCHANGED <<events, requestVars, serial, pushed, gone>>
      /\ \A e, S : Explained(e, S) => Explained(e, S)'
      /\ \A q \in Requests : Creating(q) => Creating(q)'
      BY <1>2, <1>3, <1>4, <1>5, <1>6, WriteRowFacts
<1>8. \A d \in Live' : d = c \/ (d \in Live /\ d # c /\ campaigns'[d] = campaigns[d])
      BY <1>3, <1>7 DEF Live, Exists
<1>9. LinkMatchesStatus'
      BY <1>2, <1>4, <1>7, <1>8 DEF LinkMatchesStatus, IInv
<1>10. ASSUME serial
       PROVE  UniqueLinks' /\ KnownInv' /\ DanglingLinkExplained'
  <2>1. UniqueLinks'
        BY <1>2, <1>4, <1>7, <1>8, <1>10 DEF UniqueLinks, IInv, HistoryInv
  <2>2. KnownInv'
    <3>1. \A d \in Ids : campaigns[d] # None => campaigns'[d] = campaigns[d]
          BY <1>3, <1>7
    <3>2. req' = req
          BY <1>7 DEF requestVars
    <3> QED BY <1>4, <1>7, <1>10, <3>1, <3>2 DEF KnownInv, IInv, HistoryInv
  <2>3. DanglingLinkExplained'
    <3> SUFFICES ASSUME NEW d \in Live' \ manual,
                        campaigns'[d].link # None, ~events[campaigns'[d].link].live
                 PROVE  Explained(campaigns[d].link, {})'
        BY <1>4, <1>7, DanglingForm
    <3>1. d \in Live \ manual /\ campaigns'[d] = campaigns[d]
          BY <1>2, <1>7, <1>8
    <3>2. Explained(campaigns[d].link, {})
          BY <1>10, <3>1, DanglingForm DEF IInv, HistoryInv
    <3> QED BY <1>4, <1>7, <3>1, <3>2 DEF Explained, requestVars
  <2> QED BY <2>1, <2>2, <2>3
<1>11. HistoryInv'
      BY <1>7, <1>10, LinkFacts DEF HistoryInv
<1> QED BY <1>7, <1>9, <1>11 DEF IInv

(* The fields a client sends are of their types; the others stay.             *)
LEMMA PatchedFacts ==
    ASSUME NEW row \in Campaign, NEW patch \in Patches
    PROVE  /\ Patched(row, patch) \in Campaign
           /\ Patched(row, patch).owner = row.owner
           /\ Patched(row, patch).deleted = row.deleted
           /\ DOMAIN patch \intersect {"link", "sync", "hash"} = {} =>
                /\ Patched(row, patch).link = row.link
                /\ Patched(row, patch).sync = row.sync
                /\ Patched(row, patch).hash = row.hash
<1>1. /\ DOMAIN patch \subseteq {"name", "start", "end", "status", "link", "sync", "hash"}
      /\ \A f \in DOMAIN patch : patch[f] \in Patchable[f]
      BY PatchAssumption DEF Patchable
<1>2. /\ "name" \in DOMAIN patch => patch["name"] \in Titles
      /\ "start" \in DOMAIN patch => patch["start"] \in Date
      /\ "end" \in DOMAIN patch => patch["end"] \in Date
      /\ "status" \in DOMAIN patch => patch["status"] \in Status
      /\ "link" \in DOMAIN patch => patch["link"] \in EventIds \union {None}
      /\ "sync" \in DOMAIN patch => patch["sync"] \in SyncStatus
      /\ "hash" \in DOMAIN patch => patch["hash"] \in Hash \union {None}
      BY <1>1 DEF Patchable
<1>3. DOMAIN row = {"owner", "name", "start", "end", "status", "link", "sync", "hash",
                    "deleted"}
      BY DEF Campaign
<1>4. Patched(row, patch) \in Campaign
  <2> DEFINE P == Patched(row, patch)
  <2>1. P = [f \in {"owner", "name", "start", "end", "status", "link", "sync", "hash",
                    "deleted"} |-> IF f \in DOMAIN patch THEN patch[f] ELSE row[f]]
        BY <1>3 DEF Patched
  <2>2. /\ P["owner"] \in Users /\ P["name"] \in Titles /\ P["start"] \in Date
        /\ P["end"] \in Date /\ P["status"] \in Status
        /\ P["link"] \in EventIds \union {None} /\ P["sync"] \in SyncStatus
        /\ P["hash"] \in Hash \union {None} /\ P["deleted"] \in BOOLEAN
    <3> HIDE DEF P
    <3> QED BY <1>1, <1>2, <2>1 DEF Campaign
  <2>3. P = [owner |-> P["owner"], name |-> P["name"], start |-> P["start"],
             end |-> P["end"], status |-> P["status"], link |-> P["link"],
             sync |-> P["sync"], hash |-> P["hash"], deleted |-> P["deleted"]]
    <3> HIDE DEF P
    <3> QED BY <2>1
  <2> HIDE DEF P
  <2>4. [owner |-> P["owner"], name |-> P["name"], start |-> P["start"],
         end |-> P["end"], status |-> P["status"], link |-> P["link"],
         sync |-> P["sync"], hash |-> P["hash"], deleted |-> P["deleted"]] \in Campaign
        BY <2>2 DEF Campaign
  <2>5. P \in Campaign
        BY <2>3, <2>4
  <2> QED BY <2>5 DEF P
<1>5. /\ Patched(row, patch)["owner"] = row["owner"]
      /\ Patched(row, patch)["deleted"] = row["deleted"]
      BY <1>1, <1>3 DEF Patched
<1>6. ASSUME DOMAIN patch \intersect {"link", "sync", "hash"} = {}
      PROVE  /\ Patched(row, patch)["link"] = row["link"]
             /\ Patched(row, patch)["sync"] = row["sync"]
             /\ Patched(row, patch)["hash"] = row["hash"]
      BY <1>3, <1>6 DEF Patched
<1> QED BY <1>4, <1>5, <1>6

LEMMA PatchCampaignInv ==
    ASSUME IInv, NEW u \in Users, NEW c \in Ids, PatchCampaign(u, c)
    PROVE  IInv'
<1>1. PICK patch \in Patches :
        LET row == Patched(campaigns[c], patch)
        IN  /\ row.link # None => events[row.link] # None
            /\ WriteRow(c, row)
            /\ manual' = IF DOMAIN patch \intersect {"link", "sync", "hash"} = {}
                         THEN manual ELSE manual \union {c}
            /\ stray' = stray \union ({campaigns[c].link} \ {row.link, None})
      BY DEF PatchCampaign
<1>2. campaigns[c] \in Campaign /\ campaigns[c] # None /\ ~campaigns[c].deleted
      BY LinkFacts DEF PatchCampaign, Exists
<1> DEFINE row == Patched(campaigns[c], patch)
<1>3. /\ row \in Campaign
      /\ row.owner = campaigns[c].owner /\ row.deleted = campaigns[c].deleted
      /\ DOMAIN patch \intersect {"link", "sync", "hash"} = {} =>
            /\ row.link = campaigns[c].link /\ row.sync = campaigns[c].sync
            /\ row.hash = campaigns[c].hash
      BY <1>2, PatchedFacts
<1>4. /\ row.link # None => events[row.link] # None
      /\ WriteRow(c, row)
      /\ stray' = stray \union ({campaigns[c].link} \ {row.link, None})
      BY <1>1
<1> HIDE DEF row
<1>5. /\ stray \subseteq stray' /\ stray' \subseteq EventIds
      /\ manual \subseteq manual' /\ manual' \subseteq Ids /\ manual' \subseteq manual \union {c}
      BY <1>1, <1>2, <1>4, LinkFacts DEF IInv, TypeOK
<1>6. c \in manual' \/ /\ row.link = campaigns[c].link /\ row.sync = campaigns[c].sync
                       /\ row.hash = campaigns[c].hash
      BY <1>1, <1>3
<1>7. c <= Used + 1
      BY <1>2, UsedFacts DEF Ids
<1>8. /\ TypeOK' /\ RequestInv' /\ SnapshotInv' /\ CreatingInv' /\ OthersInv'
      /\ LostInv' /\ UnlinkInv' /\ DenseInv' /\ SpanInv' /\ LinksExist(campaigns)'
      /\ RepeatImportSkips'
      /\ campaigns'[c] = row /\ row # None
      /\ \A d \in Ids \ {c} : campaigns'[d] = campaigns[d]
      /\ UNCHANGED <<events, requestVars, serial, pushed, gone>>
      /\ \A e, S : Explained(e, S) => Explained(e, S)'
      /\ \A q \in Requests : Creating(q) => Creating(q)'
      BY <1>3, <1>4, <1>5, <1>7, WriteRowFacts
<1>9. \A d \in Live' \ manual' :
         /\ d \in Live \ manual
         /\ campaigns'[d].link = campaigns[d].link /\ campaigns'[d].sync = campaigns[d].sync
         /\ campaigns'[d].hash = campaigns[d].hash /\ campaigns'[d].owner = campaigns[d].owner
      BY <1>2, <1>3, <1>5, <1>6, <1>8 DEF Live, Exists
<1>10. LinkMatchesStatus'
      BY <1>8, <1>9 DEF LinkMatchesStatus, IInv
<1>11. ASSUME serial
       PROVE  UniqueLinks' /\ KnownInv' /\ DanglingLinkExplained'
  <2>1. UniqueLinks'
        BY <1>9, <1>11 DEF UniqueLinks, IInv, HistoryInv
  <2>2. KnownInv'
    <3> SUFFICES ASSUME NEW e \in pushed \ stray', events[e].live
                 PROVE  \/ \E d \in Ids : campaigns'[d] # None /\ campaigns'[d].link = e
                        \/ \E q \in Requests : Creating(q)' /\ req'[q].event = e
        BY <1>8 DEF KnownInv
    <3>1. CASE \E d \in Ids : campaigns[d] # None /\ campaigns[d].link = e
      <4>1. PICK d \in Ids : campaigns[d] # None /\ campaigns[d].link = e
            BY <3>1
      <4>2. e # None
            BY LinkFacts, NoneFacts
      <4>3. campaigns'[d] # None /\ campaigns'[d].link = e
            BY <1>4, <1>8, <4>1, <4>2
      <4> QED BY <4>3
    <3>2. CASE \E q \in Requests : Creating(q) /\ req[q].event = e
          BY <1>8, <3>2 DEF requestVars
    <3> QED BY <1>5, <1>11, <3>1, <3>2 DEF KnownInv, IInv, HistoryInv
  <2>3. DanglingLinkExplained'
    <3> SUFFICES ASSUME NEW d \in Live' \ manual',
                        campaigns'[d].link # None, ~events[campaigns'[d].link].live
                 PROVE  Explained(campaigns[d].link, {})'
        BY <1>8, DanglingForm
    <3>1. d \in Live \ manual /\ campaigns'[d].link = campaigns[d].link
          BY <1>9
    <3>2. Explained(campaigns[d].link, {})
          BY <1>11, <3>1, DanglingForm DEF IInv, HistoryInv
    <3> QED BY <1>5, <1>8, <3>1, <3>2 DEF Explained, requestVars
  <2> QED BY <2>1, <2>2, <2>3
<1>12. HistoryInv'
      BY <1>8, <1>11, LinkFacts DEF HistoryInv
<1> QED BY <1>8, <1>10, <1>12 DEF IInv

LEMMA DeleteCampaignInv ==
    ASSUME IInv, NEW u \in Users, NEW c \in Ids, DeleteCampaign(u, c)
    PROVE  IInv'
<1> DEFINE row == [campaigns[c] EXCEPT !.deleted = TRUE]
<1>1. campaigns[c] \in Campaign /\ campaigns[c] # None
      BY LinkFacts DEF DeleteCampaign, Exists
<1>2. row \in Campaign /\ row.deleted /\ row.link = campaigns[c].link
      BY <1>1 DEF Campaign
<1>3. WriteRow(c, row) /\ manual' = manual /\ stray' = stray
      BY DEF DeleteCampaign
<1>4. manual \subseteq Ids /\ stray \subseteq EventIds
      BY DEF IInv, TypeOK
<1>5. row.link # None => events[row.link] # None
      BY <1>1, <1>2, LinkFacts
<1>6. c <= Used + 1
      BY <1>1, UsedFacts DEF Ids
<1> HIDE DEF row
<1>7. /\ TypeOK' /\ RequestInv' /\ SnapshotInv' /\ CreatingInv' /\ OthersInv'
      /\ LostInv' /\ UnlinkInv' /\ DenseInv' /\ SpanInv' /\ LinksExist(campaigns)'
      /\ RepeatImportSkips'
      /\ campaigns'[c] = row /\ row # None
      /\ \A d \in Ids \ {c} : campaigns'[d] = campaigns[d]
      /\ UNCHANGED <<events, requestVars, serial, pushed, gone>>
      /\ \A e, S : Explained(e, S) => Explained(e, S)'
      /\ \A q \in Requests : Creating(q) => Creating(q)'
      BY <1>2, <1>3, <1>4, <1>5, <1>6, WriteRowFacts
<1>8. \A d \in Live' : d \in Live /\ campaigns'[d] = campaigns[d]
      BY <1>2, <1>7 DEF Live, Exists
<1>9. LinkMatchesStatus'
      BY <1>3, <1>7, <1>8 DEF LinkMatchesStatus, IInv
<1>10. ASSUME serial
       PROVE  UniqueLinks' /\ KnownInv' /\ DanglingLinkExplained'
  <2>1. UniqueLinks'
        BY <1>3, <1>8, <1>10 DEF UniqueLinks, IInv, HistoryInv
  <2>2. KnownInv'
    <3>1. \A d \in Ids : campaigns[d] # None =>
             campaigns'[d] # None /\ campaigns'[d].link = campaigns[d].link
          BY <1>2, <1>7
    <3>2. req' = req
          BY <1>7 DEF requestVars
    <3> QED BY <1>3, <1>7, <1>10, <3>1, <3>2 DEF KnownInv, IInv, HistoryInv
  <2>3. DanglingLinkExplained'
    <3> SUFFICES ASSUME NEW d \in Live' \ manual,
                        campaigns'[d].link # None, ~events[campaigns'[d].link].live
                 PROVE  Explained(campaigns[d].link, {})'
        BY <1>3, <1>7, DanglingForm
    <3>1. d \in Live \ manual /\ campaigns'[d] = campaigns[d]
          BY <1>8
    <3>2. Explained(campaigns[d].link, {})
          BY <1>10, <3>1, DanglingForm DEF IInv, HistoryInv
    <3> QED BY <1>3, <1>7, <3>1, <3>2 DEF Explained, requestVars
  <2> QED BY <2>1, <2>2, <2>3
<1>11. HistoryInv'
      BY <1>7, <1>10, LinkFacts DEF HistoryInv
<1> QED BY <1>7, <1>9, <1>11 DEF IInv
-------------------------------------------------------------------------------
(* The ranks of the members of a finite set of numbers: as many as members,   *)
(* from 1 on, each given once.                                                *)
LEMMA RankFacts ==
    ASSUME NEW S \in SUBSET Nat, IsFiniteSet(S)
    PROVE  LET Rank(e) == Cardinality({f \in S : f <= e})
           IN  /\ Cardinality(S) \in Nat
               /\ \A e \in S : Rank(e) \in 1 .. Cardinality(S)
               /\ \A e, g \in S : Rank(e) = Rank(g) => e = g
               /\ \A i \in 1 .. Cardinality(S) : \E e \in S : Rank(e) = i
<1> DEFINE Below(e) == {f \in S : f <= e}
           rank == [e \in S |-> Cardinality(Below(e))]
           n == Cardinality(S)
<1>1. n \in Nat
      BY FS_CardinalityType
<1>2. ASSUME NEW e \in S
      PROVE  IsFiniteSet(Below(e)) /\ Cardinality(Below(e)) \in 1 .. n
  <2>1. Below(e) \in SUBSET S /\ e \in Below(e)
        OBVIOUS
  <2>2. IsFiniteSet(Below(e)) /\ Cardinality(Below(e)) <= n
        BY <2>1, FS_Subset
  <2>3. Cardinality(Below(e)) \in Nat /\ Cardinality(Below(e)) # 0
        BY <2>1, <2>2, FS_CardinalityType, FS_EmptySet
  <2> QED BY <1>1, <2>2, <2>3
<1>3. ASSUME NEW e \in S, NEW g \in S, e < g
      PROVE  Cardinality(Below(e)) # Cardinality(Below(g))
  <2>0. e \in Nat /\ g \in Nat /\ g <= g /\ ~(g <= e)
        BY <1>3
  <2>1. g \in Below(g) /\ g \notin Below(e)
        BY <2>0
  <2>2. Below(e) \in SUBSET Below(g)
    <3>1. \A f \in S : f <= e => f <= g
          BY <1>3, <2>0
    <3> QED BY <3>1
  <2> HIDE DEF Below
  <2> QED BY <1>2, <2>1, <2>2, FS_Subset
<1>4. \A e, g \in S : Cardinality(Below(e)) = Cardinality(Below(g)) => e = g
  <2> TAKE e, g \in S
  <2>1. e \in Nat /\ g \in Nat
        OBVIOUS
  <2> HIDE DEF Below
  <2> QED BY <1>3, <2>1
<1>5. IsFiniteSet(1 .. n) /\ Cardinality(1 .. n) = n
  <2>1. 1 \in Int /\ n \in Int /\ n - 1 + 1 = n /\ (1 > n => n = 0)
        BY <1>1
  <2> HIDE DEF n
  <2> QED BY <2>1, FS_Interval
<1> HIDE DEF Below, n
<1>6. rank \in Injection(S, 1 .. n)
      BY <1>2, <1>4 DEF Injection, IsInjective
<1>7. rank \in Surjection(S, 1 .. n)
      BY <1>5, <1>6, FS_Injection DEF n
<1>8. \A i \in 1 .. n : \E e \in S : Cardinality(Below(e)) = i
      BY <1>7 DEF Surjection
<1> QED BY <1>1, <1>2, <1>4, <1>8 DEF Below, n

(* What an import that is about to save has been given.                       *)
LEMMA GivenFacts ==
    ASSUME IInv, NEW r \in Requests, Importing(r)
    PROVE  /\ RequestOK(r) /\ req[r] # Idle /\ req[r].user \in Users /\ view[r] \in Table
           /\ DOMAIN got[r] \subseteq EventIds
           /\ \A e \in DOMAIN got[r] : got[r][e] \in Event /\ events[e] # None
<1>1. req[r] # Idle /\ RequestOK(r)
      BY IdleFacts DEF IInv, RequestInv, Importing
<1>2. view[r] \in Table /\ req[r].user \in Users
      BY <1>1 DEF IInv, TypeOK, RequestOK
<1>3. \E given \in SUBSET EventIds : got[r] \in [given -> Event]
      BY DEF IInv, TypeOK
<1> QED BY <1>1, <1>2, <1>3 DEF IInv, RequestInv

(* What the lookups of an import have found, and what they have not.          *)
LEMMA LookupFacts ==
    ASSUME NEW r, NEW found \in Lookups(r)
    PROVE  /\ Created(r, found) \subseteq DOMAIN got[r]
           /\ \A e \in Created(r, found) : Matches(r, e) = {}
           /\ \A e \in DOMAIN got[r] \ Created(r, found) :
                found[e] \in Ids /\ found[e] \in Matches(r, e)
<1>1. \A e : Matches(r, e) \subseteq Ids
      BY DEF Matches
<1> QED BY <1>1, NoneFacts DEF Lookups, Created

(* New rows get the ids after those in use, one each.                         *)
LEMMA NewIdFacts ==
    ASSUME IInv, NEW r \in Requests, Importing(r), NEW found \in Lookups(r)
    PROVE  LET N == Created(r, found)
           IN  /\ Cardinality(N) \in Nat
               /\ \A e \in N : /\ NewId(r, found, e) \in Nat
                               /\ NewId(r, found, e) > Used
                               /\ NewId(r, found, e) <= Used + Cardinality(N)
               /\ \A e, g \in N : NewId(r, found, e) = NewId(r, found, g) => e = g
               /\ \A c \in Ids : c > Used /\ c <= Used + Cardinality(N) =>
                     \E e \in N : NewId(r, found, e) = c
<1> DEFINE N == Created(r, found)
           n == Cardinality(N)
           Rank(e) == Cardinality({f \in N : f <= e})
<1>1. N \subseteq EventIds
      BY GivenFacts, LookupFacts
<1> HIDE DEF N
<1>2. N \in SUBSET Nat /\ IsFiniteSet(N)
  <2>1. IsFiniteSet(EventIds)
        BY FS_Interval, LinkAssumption DEF EventIds
  <2>2. EventIds \subseteq Nat
        BY DEF EventIds
  <2> QED BY <1>1, <2>1, <2>2, FS_Subset
<1>3. /\ n \in Nat
      /\ \A e \in N : Rank(e) \in 1 .. n
      /\ \A e, g \in N : Rank(e) = Rank(g) => e = g
      /\ \A i \in 1 .. n : \E e \in N : Rank(e) = i
      BY <1>2, RankFacts
<1>4. \A e : NewId(r, found, e) = Used + Rank(e)
      BY DEF NewId, N
<1>5. Used \in Nat
      BY UsedFacts, LinkAssumption
<1> HIDE DEF n, Rank
<1>6. \A e \in N : /\ NewId(r, found, e) \in Nat
                   /\ NewId(r, found, e) > Used
                   /\ NewId(r, found, e) <= Used + n
      BY <1>3, <1>4, <1>5
<1>7. \A e, g \in N : NewId(r, found, e) = NewId(r, found, g) => e = g
  <2> TAKE e, g \in N
  <2>1. Rank(e) \in Nat /\ Rank(g) \in Nat
        BY <1>3
  <2>2. Used + Rank(e) = Used + Rank(g) => Rank(e) = Rank(g)
        BY <1>5, <2>1
  <2> QED BY <1>3, <1>4, <2>2
<1>8. \A c \in Ids : c > Used /\ c <= Used + n => \E e \in N : NewId(r, found, e) = c
  <2> SUFFICES ASSUME NEW c \in Ids, c > Used, c <= Used + n
               PROVE  \E e \in N : NewId(r, found, e) = c
      OBVIOUS
  <2>1. c - Used \in 1 .. n /\ Used + (c - Used) = c
        BY <1>3, <1>5 DEF Ids
  <2>2. PICK e \in N : Rank(e) = c - Used
        BY <1>3, <2>1
  <2> QED BY <1>4, <2>1, <2>2
<1> QED BY <1>3, <1>6, <1>7, <1>8 DEF N, n

(* Each row after an import: made, found, or left alone.                      *)
LEMMA ImportedRowCases ==
    ASSUME IInv, NEW r \in Requests, Importing(r), NEW found \in Lookups(r)
    PROVE  /\ \A e \in Created(r, found) :
                ImportedRow(r, found, NewId(r, found, e)) = CreateImported(r, e)
           /\ \A e \in DOMAIN got[r] \ Created(r, found) :
                /\ campaigns[found[e]] # None
                /\ view[r][found[e]] # None /\ view[r][found[e]].link = e
                /\ ~view[r][found[e]].deleted
                /\ ImportedRow(r, found, found[e])
                       = UpdateImported(r, found[e], got[r][e])
           /\ \A c \in Ids :
                \/ \E e \in Created(r, found) : c = NewId(r, found, e)
                \/ \E e \in DOMAIN got[r] \ Created(r, found) : c = found[e]
                \/ ImportedRow(r, found, c) = campaigns[c]
<1> DEFINE N == Created(r, found)
           D == DOMAIN got[r]
<1>1. /\ \A e \in N : NewId(r, found, e) > Used /\ NewId(r, found, e) \in Nat
      /\ \A e, g \in N : NewId(r, found, e) = NewId(r, found, g) => e = g
      BY NewIdFacts
<1>2. /\ N \subseteq D
      /\ \A e \in D \ N : found[e] \in Ids /\ found[e] \in Matches(r, e)
      BY LookupFacts
<1>3. \A e \in N : found[e] = None
      BY DEF Created
<1>4. ASSUME NEW e \in N
      PROVE  ImportedRow(r, found, NewId(r, found, e)) = CreateImported(r, e)
  <2> DEFINE c == NewId(r, found, e)
             g == CHOOSE f \in Created(r, found) : NewId(r, found, f) = c
  <2>1. g \in N /\ NewId(r, found, g) = c
        OBVIOUS
  <2>2. g = e
        BY <1>1, <2>1
  <2>3. ImportedRow(r, found, c) = CreateImported(r, g)
        BY DEF ImportedRow
  <2> QED BY <2>2, <2>3
<1>5. ASSUME NEW e \in D \ N
      PROVE  /\ campaigns[found[e]] # None
             /\ view[r][found[e]] # None /\ view[r][found[e]].link = e
             /\ ~view[r][found[e]].deleted
             /\ ImportedRow(r, found, found[e]) = UpdateImported(r, found[e], got[r][e])
  <2> DEFINE c == found[e]
             g == CHOOSE f \in DOMAIN got[r] : found[f] = c
  <2>1. /\ c \in Ids /\ view[r][c] # None /\ view[r][c].link = e
        /\ ~view[r][c].deleted
        BY <1>2 DEF Matches
  <2>2. campaigns[c] # None
        BY <2>1, GivenFacts DEF RequestOK
  <2>3. ~\E f \in Created(r, found) : NewId(r, found, f) = c
    <3>1. c <= Used /\ c \in Nat
          BY <2>1, <2>2, UsedFacts DEF Ids
    <3>2. Used \in Nat
          BY UsedFacts, LinkAssumption
    <3>3. \A f \in N : NewId(r, found, f) # c
          BY <1>1, <3>1, <3>2
    <3> QED BY <3>3
  <2>4. g \in D /\ found[g] = c
        OBVIOUS
  <2>5. g \in D \ N
        BY <1>3, <2>1, <2>4, NoneFacts
  <2>6. view[r][c].link = g
        BY <1>2, <2>4, <2>5 DEF Matches
  <2>7. g = e
        BY <2>1, <2>6
  <2>8. ImportedRow(r, found, c) = UpdateImported(r, c, got[r][g])
        BY <2>3 DEF ImportedRow
  <2> QED BY <2>1, <2>2, <2>7, <2>8
<1>6. ASSUME NEW c \in Ids
      PROVE  \/ \E e \in N : c = NewId(r, found, e)
             \/ \E e \in D \ N : c = found[e]
             \/ ImportedRow(r, found, c) = campaigns[c]
  <2>1. CASE \E e \in D : found[e] = c
        BY <1>3, <2>1, NoneFacts
  <2>2. CASE ~\E e \in D : found[e] = c
        BY <2>2 DEF ImportedRow
  <2> QED BY <2>1, <2>2
<1> QED BY <1>4, <1>5, <1>6

(* A campaign is what its event says after its import.                        *)
LEMMA SyncedFacts ==
    ASSUME NEW c, NEW event \in Event, NEW day, IsAlreadySynced(c, event, day)
    PROVE  c.sync = "synced" /\ c.hash # None
<1>1. BuildSyncHash(event.title, event.start, event.end) \in Hash
      BY DEF BuildSyncHash, Hash, Event, Date
<1> QED BY <1>1, NoneFacts DEF IsAlreadySynced

LEMMA CreateImportedFacts ==
    ASSUME IInv, NEW r \in Requests, Importing(r), NEW e \in DOMAIN got[r]
    PROVE  /\ CreateImported(r, e) \in Campaign
           /\ CreateImported(r, e).link = e
           /\ CreateImported(r, e).owner = req[r].user
           /\ ~CreateImported(r, e).deleted
           /\ IsAlreadySynced(CreateImported(r, e), got[r][e], today)
<1>1. got[r][e] \in Event /\ req[r].user \in Users /\ e \in EventIds
      BY GivenFacts
<1> DEFINE new == NewCampaign(req[r].user, got[r][e].title)
           row == ImportInto(new, got[r][e], today)
<1>2. new \in Campaign /\ new.owner = req[r].user /\ ~new.deleted
      BY <1>1 DEF NewCampaign, Campaign, Status, SyncStatus, Event, Date
<1> HIDE DEF new
<1>3. /\ row \in Campaign /\ row.owner = req[r].user /\ ~row.deleted
      /\ IsAlreadySynced(row, got[r][e], today)
      BY <1>1, <1>2, ImportType
<1> HIDE DEF row
<1>4. CreateImported(r, e) = [row EXCEPT !.link = e]
      BY DEF CreateImported, row, new
<1> QED BY <1>1, <1>3, <1>4 DEF Campaign, IsAlreadySynced

LEMMA UpdateImportedFacts ==
    ASSUME IInv, NEW r \in Requests, Importing(r), NEW e \in DOMAIN got[r],
           NEW c \in Ids, campaigns[c] \in Campaign
    PROVE  /\ UpdateImported(r, c, got[r][e]) \in Campaign
           /\ UpdateImported(r, c, got[r][e]).link = campaigns[c].link
           /\ UpdateImported(r, c, got[r][e]).owner = campaigns[c].owner
           /\ UpdateImported(r, c, got[r][e]).deleted = campaigns[c].deleted
           /\ view[r] = campaigns /\ ~campaigns[c].deleted =>
                IsAlreadySynced(UpdateImported(r, c, got[r][e]), got[r][e], today)
<1>1. got[r][e] \in Event
      BY GivenFacts
<1>2. CASE IsAlreadySynced(view[r][c], got[r][e], today) \/ campaigns[c].deleted
      BY <1>2 DEF UpdateImported
<1>3. CASE ~(IsAlreadySynced(view[r][c], got[r][e], today) \/ campaigns[c].deleted)
  <2>1. UpdateImported(r, c, got[r][e]) = ImportInto(campaigns[c], got[r][e], today)
        BY <1>3 DEF UpdateImported
  <2> QED BY <1>1, <2>1, ImportType
<1> QED BY <1>2, <1>3

LEMMA SaveImportInv ==
    ASSUME IInv, NEW r \in Requests, SaveImport(r)
    PROVE  IInv'
<1>1. PICK found \in Lookups(r) :
        /\ Used + Cardinality(Created(r, found)) <= MaxCampaigns
        /\ campaigns' = [c \in Ids |-> ImportedRow(r, found, c)]
        /\ End(r)
        /\ UNCHANGED <<events, today, steps, manual, pushed, stray, gone>>
        /\ Overtake({r})
        /\ serial' = (serial /\ r \notin stale)
        /\ KeepFresh(Imported(r, found))
      BY DEF SaveImport
<1> DEFINE N == Created(r, found)
           D == DOMAIN got[r]
           Id(e) == NewId(r, found, e)
<1>2. Importing(r)
      BY DEF SaveImport, Importing
<1>3. /\ RequestOK(r) /\ req[r] # Idle /\ req[r].user \in Users
      /\ D \subseteq EventIds
      /\ \A e \in D : got[r][e] \in Event /\ events[e] # None
      BY <1>2, GivenFacts
<1>4. /\ N \subseteq D
      /\ \A e \in N : Matches(r, e) = {}
      /\ \A e \in D \ N : found[e] \in Ids
      BY LookupFacts
<1>5. /\ Cardinality(N) \in Nat
      /\ \A e \in N : Id(e) \in Nat /\ Id(e) > Used /\ Id(e) <= Used + Cardinality(N)
      /\ \A e, g \in N : Id(e) = Id(g) => e = g
      /\ \A c \in Ids : c > Used /\ c <= Used + Cardinality(N) => \E e \in N : Id(e) = c
      BY <1>2, NewIdFacts
<1>6. /\ Used \in 0 .. MaxCampaigns /\ MaxCampaigns \in Nat
      /\ \A c \in Ids : campaigns[c] # None <=> c <= Used
      BY UsedFacts, LinkAssumption
<1>7. \A e \in N : Id(e) \in Ids /\ campaigns[Id(e)] = None
  <2> TAKE e \in N
  <2>1. Id(e) \in Nat /\ Id(e) > Used /\ Id(e) <= MaxCampaigns
        BY <1>1, <1>5, <1>6
  <2> QED BY <1>6, <2>1 DEF Ids
<1>8. /\ \A e \in N : campaigns'[Id(e)] = CreateImported(r, e)
      /\ \A e \in D \ N :
           /\ campaigns[found[e]] \in Campaign /\ campaigns[found[e]] # None
           /\ view[r][found[e]].link = e /\ ~view[r][found[e]].deleted
           /\ campaigns'[found[e]] = UpdateImported(r, found[e], got[r][e])
      /\ \A c \in Ids : \/ \E e \in N : c = Id(e)
                        \/ \E e \in D \ N : c = found[e]
                        \/ campaigns'[c] = campaigns[c]
      BY <1>1, <1>2, <1>4, <1>7, ImportedRowCases, LinkFacts
<1>9. \A e \in N :
        /\ campaigns'[Id(e)] \in Campaign
        /\ campaigns'[Id(e)].link = e
        /\ campaigns'[Id(e)].owner = req[r].user
        /\ ~campaigns'[Id(e)].deleted
        /\ IsAlreadySynced(campaigns'[Id(e)], got[r][e], today)
      BY <1>2, <1>4, <1>8, CreateImportedFacts
<1>10. \A e \in D \ N :
        /\ campaigns'[found[e]] \in Campaign
        /\ campaigns'[found[e]].link = campaigns[found[e]].link
        /\ campaigns'[found[e]].owner = campaigns[found[e]].owner
        /\ campaigns'[found[e]].deleted = campaigns[found[e]].deleted
        /\ view[r] = campaigns =>
             IsAlreadySynced(campaigns'[found[e]], got[r][e], today)
      BY <1>2, <1>4, <1>8, UpdateImportedFacts
<1> HIDE DEF N, D, Id
<1>11. \A c \in Ids : campaigns[c] # None =>
        /\ campaigns'[c] # None
        /\ campaigns'[c].link = campaigns[c].link
        /\ campaigns'[c].owner = campaigns[c].owner
        /\ campaigns'[c].deleted = campaigns[c].deleted
  <2> TAKE c \in Ids
  <2>1. CASE \E e \in N : c = Id(e)
        BY <1>7, <2>1
  <2>2. CASE \E e \in D \ N : c = found[e]
        BY <1>10, <2>2, NoneFacts
  <2>3. CASE campaigns'[c] = campaigns[c]
        BY <2>3
  <2> QED BY <1>8, <2>1, <2>2, <2>3
<1>12. \A c \in Ids : campaigns[c] = None =>
         campaigns'[c] = None \/ \E e \in N : c = Id(e)
      BY <1>8
<1>13. campaigns' \in Table
  <2>1. \A c \in Ids : campaigns'[c] \in Campaign \union {None}
        BY <1>8, <1>9, <1>10 DEF IInv, TypeOK, Table
  <2> QED BY <1>1, <2>1 DEF Table
<1>14. \E n \in 0 .. MaxCampaigns : \A c \in Ids : campaigns'[c] # None <=> c <= n
  <2> DEFINE n == Used + Cardinality(N)
  <2>1. n \in 0 .. MaxCampaigns
        BY <1>1, <1>5, <1>6 DEF N
  <2>2. \A c \in Ids : campaigns'[c] # None <=> c <= n
    <3> TAKE c \in Ids
    <3>1. CASE c <= Used
      <4>1. c <= n
            BY <1>5, <1>6, <3>1 DEF Ids
      <4> QED BY <1>6, <1>11, <3>1, <4>1
    <3>2. CASE ~(c <= Used)
      <4>1. campaigns[c] = None /\ c > Used
            BY <1>6, <3>2 DEF Ids
      <4>2. c <= n => campaigns'[c] # None
            BY <1>5, <1>9, <4>1, NoneFacts
      <4>3. campaigns'[c] # None => c <= n
            BY <1>5, <1>12, <4>1
      <4> QED BY <4>2, <4>3
    <3> QED BY <3>1, <3>2
  <2> QED BY <2>1, <2>2
<1>15. LinksExist(campaigns)'
  <2> SUFFICES ASSUME NEW c \in Ids, campaigns'[c] # None, campaigns'[c].link # None
               PROVE  events[campaigns'[c].link] # None
      BY <1>1 DEF LinksExist
  <2>1. CASE campaigns[c] # None
        BY <1>11, <2>1, LinkFacts
  <2>2. CASE \E e \in N : c = Id(e)
        BY <1>3, <1>4, <1>9, <2>2 DEF N, D
  <2> QED BY <1>12, <2>1, <2>2
<1>16. /\ req'[r] = Idle /\ view'[r] = None /\ got'[r] = <<>>
       /\ SlotOnly(r)
       /\ req' \in [Requests -> Request]
       /\ view' \in [Requests -> Table \union {None}]
       /\ DOMAIN got' = Requests
       /\ \A q \in Requests :
            \E given \in SUBSET EventIds : got'[q] \in [given -> Event]
      BY <1>1, EndFacts DEF IInv
<1>17. TypeOK'
  <2>1. fresh' \subseteq Ids
        BY <1>1, FreshType DEF IInv, Imported
  <2>2. stale' \subseteq Requests /\ serial' \in BOOLEAN
        BY <1>1 DEF Overtake
  <2> QED BY <1>1, <1>13, <1>16, <2>1, <2>2 DEF IInv, TypeOK
<1>18. /\ RequestInv' /\ SnapshotInv' /\ CreatingInv' /\ OthersInv' /\ LostInv'
       /\ UnlinkInv' /\ DenseInv' /\ SpanInv'
  <2>1. \A q \in Requests :
          \/ req'[q] = Idle /\ got'[q] = <<>>
          \/ req'[q] = req[q] /\ view'[q] = view[q] /\ got'[q] = got[q]
        BY <1>16 DEF SlotOnly
  <2> QED BY <1>1, <1>11, <1>14, <1>16, <2>1, CommitInv
<1>19. r \notin stale => view[r] = campaigns
      BY <1>3 DEF IInv, SnapshotInv
<1>20. RepeatImportSkips'
  <2> SUFFICES ASSUME NEW c \in Imported(r, found)
               PROVE  IsAlreadySynced(campaigns[c], events[campaigns[c].link], today)'
      BY <1>1, FreshKept
  <2>1. PICK e \in D : /\ got[r][e] = events[e]
                       /\ c = IF e \in N THEN Id(e) ELSE found[e]
        BY DEF Imported, D, N, Id
  <2>2. view[r] = campaigns
        BY <1>19 DEF Imported
  <2>3. campaigns'[c].link = e /\ IsAlreadySynced(campaigns'[c], got[r][e], today)
    <3>1. CASE e \in N
          BY <1>9, <2>1, <3>1
    <3>2. CASE e \notin N
          BY <1>8, <1>10, <2>1, <2>2, <3>2
    <3> QED BY <3>1, <3>2
  <2> QED BY <1>1, <2>1, <2>3 DEF IsAlreadySynced
<1>21. ASSUME serial'
       PROVE  LinkMatchesStatus' /\ UniqueLinks' /\ KnownInv' /\ DanglingLinkExplained'
  <2>1. serial /\ r \notin stale /\ view[r] = campaigns
        BY <1>1, <1>19, <1>21
  <2>2. \A c \in Live' : \/ c \in Live
                         \/ \E e \in N : c = Id(e)
        BY <1>11, <1>12 DEF Live, Exists
  <2>3. LinkMatchesStatus'
    <3> SUFFICES ASSUME NEW c \in Live' \ manual
                 PROVE  /\ (campaigns'[c].link # None) = (campaigns'[c].sync = "synced")
                        /\ (campaigns'[c].link # None) = (campaigns'[c].hash # None)
        BY <1>1 DEF LinkMatchesStatus
    <3>1. CASE \E e \in N : c = Id(e)
      <4>1. PICK e \in N : c = Id(e)
            BY <3>1
      <4>2. e \in D /\ e \in EventIds /\ got[r][e] \in Event
            BY <1>3, <1>4 DEF N, D
      <4> QED BY <1>9, <4>1, <4>2, SyncedFacts, NoneFacts
    <3>2. CASE \E e \in D \ N : c = found[e]
      <4>1. PICK e \in D \ N : c = found[e]
            BY <3>2
      <4>2. e \in EventIds /\ got[r][e] \in Event
            BY <1>3 DEF D
      <4>3. campaigns'[c].link = e
            BY <1>8, <1>10, <2>1, <4>1
      <4> QED BY <1>10, <2>1, <4>1, <4>2, <4>3, SyncedFacts, NoneFacts
    <3>3. CASE campaigns'[c] = campaigns[c]
      <4>1. c \in Live \ manual
            BY <3>3 DEF Live, Exists
      <4> QED BY <2>1, <3>3, <4>1 DEF IInv, LinkMatchesStatus
    <3> QED BY <1>8, <3>1, <3>2, <3>3 DEF Live
  <2>4. UniqueLinks'
    <3> DEFINE Old(c) == c \in Live \ manual /\ campaigns'[c].link = campaigns[c].link
                         /\ campaigns'[c].owner = campaigns[c].owner
               Same(c, d) == /\ campaigns'[c].link = campaigns'[d].link
                             /\ campaigns'[c].link # None
                             /\ campaigns'[c].owner = campaigns'[d].owner
    <3>1. \A c \in Live' \ manual : Old(c) \/ \E e \in N : c = Id(e)
          BY <1>11, <2>2, LinkFacts
    <3>2. \A c, d : Old(c) /\ Old(d) /\ Same(c, d) => c = d
          BY <2>1 DEF UniqueLinks, IInv, HistoryInv
    <3>3. \A c, d : Old(c) /\ (\E e \in N : d = Id(e)) /\ Same(c, d) => FALSE
      <4> SUFFICES ASSUME NEW c, Old(c), NEW e \in N, Same(c, Id(e))
                   PROVE  FALSE
          OBVIOUS
      <4>1. campaigns[c].link = e /\ campaigns[c].owner = req[r].user
            BY <1>9
      <4>2. c \in Matches(r, e)
            BY <2>1, <4>1, LinkFacts DEF Matches
      <4> QED BY <1>4, <4>2 DEF N
    <3>4. \A c, d : (\E e \in N : c = Id(e)) /\ (\E e \in N : d = Id(e)) /\ Same(c, d) => c = d
          BY <1>9
    <3>5. \A c, d : Same(c, d) => Same(d, c)
          OBVIOUS
    <3> HIDE DEF Old, Same
    <3>6. \A c, d \in Live' \ manual : Same(c, d) => c = d
          BY <3>1, <3>2, <3>3, <3>4, <3>5
    <3> QED BY <1>1, <3>6 DEF UniqueLinks, Same
  <2>5. KnownInv'
    <3> SUFFICES ASSUME NEW f \in pushed \ stray, events[f].live
                 PROVE  \/ \E d \in Ids : campaigns'[d] # None /\ campaigns'[d].link = f
                        \/ \E q \in Requests : Creating(q)' /\ req'[q].event = f
        BY <1>1 DEF KnownInv
    <3>1. CASE \E d \in Ids : campaigns[d] # None /\ campaigns[d].link = f
          BY <1>11, <3>1
    <3>2. CASE \E q \in Requests : Creating(q) /\ req[q].event = f
          BY <1>2, <1>16, <3>2 DEF Creating, SlotOnly, Importing
    <3> QED BY <2>1, <3>1, <3>2 DEF KnownInv, IInv, HistoryInv
  <2>6. DanglingLinkExplained'
    <3> SUFFICES ASSUME NEW d \in Live' \ manual,
                        campaigns'[d].link # None, ~events[campaigns'[d].link].live
                 PROVE  Explained(campaigns[d].link, {})'
        BY <1>1, DanglingForm
    <3>1. Explained(campaigns'[d].link, {})
      <4>1. CASE d \in Live
        <5>1. campaigns'[d].link = campaigns[d].link
              BY <1>11, <4>1, LinkFacts
        <5> QED BY <2>1, <4>1, <5>1, DanglingForm DEF IInv, HistoryInv
      <4>2. CASE \E e \in N : d = Id(e)
        <5>1. PICK e \in N : d = Id(e)
              BY <4>2
        <5>2. campaigns'[d].link = e
              BY <1>9, <5>1
        <5>3. e \in Linking(r)
              BY <1>2, <1>3, <1>4 DEF Linking, N, D
        <5> QED BY <2>1, <5>2, <5>3 DEF IInv, HistoryInv, LostInv
      <4> QED BY <2>2, <4>1, <4>2
    <3> QED BY <1>1, <1>2, <1>16, <3>1 DEF Explained, SlotOnly, Importing
  <2> QED BY <2>3, <2>4, <2>5, <2>6
<1>22. LinkMatchesStatus'
      BY <1>21 DEF LinkMatchesStatus
<1>23. HistoryInv'
      BY <1>1, <1>18, <1>21, LinkFacts DEF HistoryInv
<1> QED BY <1>15, <1>17, <1>18, <1>20, <1>22, <1>23 DEF IInv
-------------------------------------------------------------------------------
LEMMA StutterInv ==
    ASSUME IInv, UNCHANGED vars
    PROVE  IInv'
<1>1. UNCHANGED <<campaigns, events, today, req, view, got, steps, stale, serial,
                  manual, pushed, stray, gone, fresh>>
      BY DEF vars, requestVars, historyVars
<1>2. TypeOK'
      BY <1>1 DEF IInv, TypeOK
<1>3. RequestInv' /\ SnapshotInv' /\ CreatingInv' /\ UnlinkInv'
      BY <1>1 DEF IInv, RequestInv, RequestOK, Writing, LinksExist, SnapshotInv,
                  CreatingInv, Creating, UnlinkInv, Unlinking
<1>4. DenseInv' /\ SpanInv' /\ LinksExist(campaigns)' /\ RepeatImportSkips'
      BY <1>1 DEF IInv, DenseInv, SpanInv, LinksExist, RepeatImportSkips
<1>5. LinkMatchesStatus' /\ (serial => UniqueLinks' /\ KnownInv')
      BY <1>1 DEF IInv, HistoryInv, LinkMatchesStatus, UniqueLinks, KnownInv, Creating,
                  Live, Exists
<1>6. serial => DanglingLinkExplained' /\ OthersInv'
      BY <1>1 DEF IInv, HistoryInv, DanglingLinkExplained, OthersInv, Explained,
                  Unlinking, Live, Exists
<1>7. LostInv'
      BY <1>1 DEF IInv, HistoryInv, LostInv, Linking, Creating, Importing, Explained
<1>8. HistoryInv'
      BY <1>1, <1>5, <1>6, <1>7 DEF IInv, HistoryInv
<1> QED BY <1>2, <1>3, <1>4, <1>5, <1>8 DEF IInv

LEMMA NextInv == IInv /\ [Next]_vars => IInv'
<1> SUFFICES ASSUME IInv, [Next]_vars
             PROVE  IInv'
    OBVIOUS
<1>1. ASSUME NEW r \in Requests, NEW u \in Users, StartImport(r, u)
      PROVE  IInv'
      BY <1>1, StartImportInv
<1>2. ASSUME NEW r \in Requests, NEW u \in Users, NEW c \in Ids,
             StartPush(r, u, c) \/ StartUnlink(r, u, c)
      PROVE  IInv'
      BY <1>2, StartPushInv, StartUnlinkInv
<1>3. ASSUME NEW r \in Requests, FetchEvents(r) \/ SaveImport(r)
      PROVE  IInv'
      BY <1>3, FetchEventsInv, SaveImportInv
<1>4. ASSUME NEW r \in Requests, CallPush(r) \/ SavePush(r)
      PROVE  IInv'
      BY <1>4, CallPushInv, SavePushInv
<1>5. ASSUME NEW r \in Requests, CallUnlink(r) \/ SaveUnlink(r) \/ Abort(r)
      PROVE  IInv'
      BY <1>5, CallUnlinkInv, SaveUnlinkInv, AbortInv
<1>6. ASSUME NEW u \in Users, NEW owner \in Users, CreateCampaign(u, owner)
      PROVE  IInv'
      BY <1>6, CreateCampaignInv
<1>7. ASSUME NEW u \in Users, NEW c \in Ids, PatchCampaign(u, c) \/ DeleteCampaign(u, c)
      PROVE  IInv'
      BY <1>7, PatchCampaignInv, DeleteCampaignInv
<1>8. ASSUME NEW u \in Users, GoogleCreate(u)
      PROVE  IInv'
      BY <1>8, GoogleCreateInv
<1>9. ASSUME NEW e \in EventIds, GoogleChange(e) \/ GoogleDelete(e)
      PROVE  IInv'
      BY <1>9, GoogleChangeInv, GoogleDeleteInv
<1>10. CASE Tick
      BY <1>10, TickInv
<1>11. CASE UNCHANGED vars
      BY <1>11, StutterInv
<1> QED BY <1>1, <1>2, <1>3, <1>4, <1>5, <1>6, <1>7, <1>8, <1>9, <1>10, <1>11 DEF Next

LEMMA Invariance == Spec => []IInv
BY InitInv, NextInv, PTL DEF Spec

(* Rows, snapshots and requests keep their types, whatever clients patch and  *)
(* whatever Google holds.                                                     *)
THEOREM TypeCorrect == Spec => []TypeOK
<1>1. IInv => TypeOK
      BY DEF IInv
<1> QED BY <1>1, Invariance, PTL

(* For any requests at once: until an overtaken one has written, no two       *)
(* campaigns of one owner have one event, unless a client set a link itself.  *)
THEOREM OneCampaign == Spec => []OneCampaignPerEvent
<1>1. IInv => OneCampaignPerEvent
      BY DEF IInv, HistoryInv, OneCampaignPerEvent
<1> QED BY <1>1, Invariance, PTL

(* Link, status and hash of a campaign change together: import, push and      *)
(* unlink write all three, whatever they interrupt.                           *)
THEOREM LinkStatus == Spec => []LinkMatchesStatus
<1>1. IInv => LinkMatchesStatus
      BY DEF IInv
<1> QED BY <1>1, Invariance, PTL

(* Neither store keeps anything of the other's without a cause: a push writes *)
(* Google first and the row last, an unlink too, and a crash is the cause.    *)
THEOREM EventsAccounted == Spec => []EventsAccountedFor
<1>1. ASSUME IInv, serial
      PROVE  NoOrphanEvent
  <2>1. KnownInv
        BY <1>1 DEF IInv, HistoryInv
  <2> QED BY <2>1 DEF KnownInv, NoOrphanEvent
<1>2. IInv => EventsAccountedFor
      BY <1>1 DEF IInv, HistoryInv, EventsAccountedFor
<1> QED BY <1>2, Invariance, PTL

(* A repeated import writes nothing while campaign, event and day are as the  *)
(* first one left them.                                                       *)
THEOREM ImportSkips == Spec => []RepeatImportSkips
<1>1. IInv => RepeatImportSkips
      BY DEF IInv
<1> QED BY <1>1, Invariance, PTL
-------------------------------------------------------------------------------
(* Where the months of the year begin.                                        *)
LEMMA MonthStarts ==
    ASSUME NEW m \in Months
    PROVE  /\ (m - 1) * MonthLength \in Nat
           /\ m * MonthLength = (m - 1) * MonthLength + MonthLength
           /\ (m + 1) * MonthLength = m * MonthLength + MonthLength
           /\ m * MonthLength <= 12 * MonthLength
<1>1. MonthLength \in Nat
      BY CalendarAssumption
<1>2. \A n \in Nat : \A k \in Nat : n * k \in Nat /\ (n + 1) * k = n * k + k
      OBVIOUS
<1>3. m \in Nat /\ m - 1 \in Nat /\ (m - 1) + 1 = m
      BY DEF Months
<1>4. m * MonthLength <= 12 * MonthLength
      BY <1>1 DEF Months
<1> QED BY <1>1, <1>2, <1>3, <1>4

(* Every day of the year is in a month.                                       *)
LEMMA MonthOf ==
    ASSUME NEW day \in Nat, day < 12 * MonthLength
    PROVE  \E m \in Months :
              (m - 1) * MonthLength <= day /\ day < m * MonthLength
<1> DEFINE In(m) == (m - 1) * MonthLength <= day /\ day < m * MonthLength
<1>1. MonthLength \in Nat
      BY CalendarAssumption
<1>2. \/ In(1) \/ In(2) \/ In(3) \/ In(4) \/ In(5) \/ In(6)
      \/ In(7) \/ In(8) \/ In(9) \/ In(10) \/ In(11) \/ In(12)
      BY <1>1
<1> HIDE DEF In
<1>3. \E m \in Months : In(m)
      BY <1>2 DEF Months
<1> QED BY <1>3 DEF In

(* A year lists what its months list, and two months what each of them does:  *)
(* no day between two bounds is lost, given that events are not empty.        *)
THEOREM PeriodsAdd == Spec => []PeriodsAgree
<1>1. ASSUME IInv
      PROVE  PeriodsAgree
  <2> SUFFICES ASSUME NEW u \in Users
               PROVE  LET Listed(range, m, from, to) ==
                              Overlapping(events, u, ResolvePeriodBounds(range, m, from, to))
                          month == [m \in Months |-> Listed("month", m, None, None)]
                      IN  /\ Listed("year", None, None, None) = UNION {month[m] : m \in Months}
                          /\ \A m \in Months \ {12} :
                               Listed("month", None, m, m + 1) = month[m] \union month[m + 1]
      BY DEF PeriodsAgree
  <2> DEFINE Mine == {e \in EventIds : events[e] # None /\ events[e].live
                                          /\ events[e].cal = u}
             Meets(e, min, max) == events[e].start < max /\ events[e].end > min
             Listed(range, m, from, to) ==
                 Overlapping(events, u, ResolvePeriodBounds(range, m, from, to))
             month == [m \in Months |-> Listed("month", m, None, None)]
  <2>1. /\ MonthLength \in Nat
        /\ \A e \in Mine : /\ events[e].start \in Nat /\ events[e].end \in Nat
                           /\ events[e].start < events[e].end
        BY <1>1, CalendarAssumption, LinkFacts DEF IInv, SpanInv, Event, Days
  <2>2. \A from, to : Overlapping(events, u, Span(from, to)) =
            {e \in Mine : Meets(e, (from - 1) * MonthLength, to * MonthLength)}
        BY <1>1 DEF Overlapping, Span, IInv, TypeOK
  <2>3. Listed("year", None, None, None) = {e \in Mine : Meets(e, 0, 12 * MonthLength)}
    <3>1. ResolvePeriodBounds("year", None, None, None) = Span(1, 12)
          BY DEF ResolvePeriodBounds
    <3>2. (1 - 1) * MonthLength = 0
          BY <2>1
    <3> QED BY <2>2, <3>1, <3>2
  <2>4. ASSUME NEW m \in Months
        PROVE  month[m] = {e \in Mine : Meets(e, (m - 1) * MonthLength, m * MonthLength)}
    <3>1. ResolvePeriodBounds("month", m, None, None) = Span(m, m)
          BY NoneAssumption DEF ResolvePeriodBounds, Months
    <3> QED BY <2>2, <3>1
  <2>5. ASSUME NEW m \in Months \ {12}
        PROVE  /\ m + 1 \in Months
               /\ Listed("month", None, m, m + 1) =
                    {e \in Mine : Meets(e, (m - 1) * MonthLength, (m + 1) * MonthLength)}
    <3>1. m \in Months /\ m + 1 \in Months /\ m <= m + 1
          BY DEF Months
    <3>2. ResolvePeriodBounds("month", None, m, m + 1) = Span(m, m + 1)
          BY <3>1 DEF ResolvePeriodBounds
    <3> QED BY <2>2, <3>1, <3>2
  <2> HIDE DEF Mine, Listed, month
  <2>6. Listed("year", None, None, None) = UNION {month[m] : m \in Months}
    <3>1. ASSUME NEW e \in Mine, Meets(e, 0, 12 * MonthLength)
          PROVE  \E m \in Months : e \in month[m]
      <4>1. PICK m \in Months : /\ (m - 1) * MonthLength <= events[e].start
                                /\ events[e].start < m * MonthLength
            BY <2>1, <3>1, MonthOf
      <4>2. events[e].end > (m - 1) * MonthLength
            BY <2>1, <4>1, MonthStarts
      <4> QED BY <2>4, <4>1, <4>2
    <3>2. ASSUME NEW m \in Months, NEW e \in month[m]
          PROVE  e \in Mine /\ Meets(e, 0, 12 * MonthLength)
      <4>1. /\ e \in Mine /\ events[e].start < m * MonthLength
            /\ events[e].end > (m - 1) * MonthLength
            BY <2>4, <3>2
      <4>2. /\ (m - 1) * MonthLength \in Nat /\ m * MonthLength <= 12 * MonthLength
            /\ m * MonthLength = (m - 1) * MonthLength + MonthLength
            BY MonthStarts
      <4>3. 12 * MonthLength \in Nat
            BY <2>1
      <4> QED BY <2>1, <4>1, <4>2, <4>3
    <3> QED BY <2>3, <3>1, <3>2
  <2>7. ASSUME NEW m \in Months \ {12}
        PROVE  Listed("month", None, m, m + 1) = month[m] \union month[m + 1]
    <3>1. /\ (m - 1) * MonthLength \in Nat
          /\ m * MonthLength = (m - 1) * MonthLength + MonthLength
          /\ (m + 1) * MonthLength = m * MonthLength + MonthLength
          BY MonthStarts
    <3>2. month[m + 1] = {e \in Mine : Meets(e, m * MonthLength, (m + 1) * MonthLength)}
      <4>1. (m + 1) - 1 = m
            BY DEF Months
      <4> QED BY <2>4, <2>5, <4>1
    <3>3. ASSUME NEW e \in Mine
          PROVE  Meets(e, (m - 1) * MonthLength, (m + 1) * MonthLength) <=>
                    \/ Meets(e, (m - 1) * MonthLength, m * MonthLength)
                    \/ Meets(e, m * MonthLength, (m + 1) * MonthLength)
          BY <2>1, <3>1, <3>3
    <3> HIDE DEF Meets
    <3> QED BY <2>4, <2>5, <3>2, <3>3
  <2> QED BY <2>6, <2>7 DEF Listed, month
<1> QED BY <1>1, Invariance, PTL
===============================================================================
