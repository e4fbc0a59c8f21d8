-------------------------------- MODULE Catalog -------------------------------
(* QR codes and the campaigns they belong to: creation with a generated short *)
(* code, PATCH, soft deletion, and the hard deletion of users, campaigns and  *)
(* codes, against the keys of the schema and the short-code cache.            *)
(*                                                                            *)
(* A creation is a transaction that waits for Redis at every probe; its       *)
(* SELECTs see the snapshot of the first one.  The INSERT sees the committed  *)
(* rows, and commits.  Requests that only read, check and write are one step. *)
(* A redirect is one step too: ShortCodeCache takes it and the writes apart.  *)
EXTENDS AccessControl, Naturals

CONSTANTS
    Principals,    \* one for each user: the claims of their access token
    Codes,         \* the short codes there are
    MaxAttempts,   \* max_attempts of generate_unique_base62_code
    Requests,      \* slots of creations under way
    MaxQrs,        \* bound on QR rows ever created
    MaxCampaigns   \* bound on campaigns ever created

ASSUME CatalogAssumption ==
    /\ Principals \subseteq Principal
    /\ MaxAttempts \in Nat \ {0}
    /\ MaxQrs \in Nat /\ MaxCampaigns \in Nat

QrIds == 1 .. MaxQrs

CampaignIds == 1 .. MaxCampaigns

Qr == [owner : Users, campaign : CampaignIds \union {None}, code : Codes,
       deleted : BOOLEAN]

Campaign == [owner : Users, deleted : BOOLEAN]

(* What a probe selects of a row.                                             *)
Found == [code : Codes, deleted : BOOLEAN]

View == [QrIds -> Found \union {None}]

Creation ==
    [pc : {"probing", "fetching", "inserting"}, owner : Users,
     campaign : CampaignIds \union {None}, code : Codes \union {None},
     attempt : 1 .. MaxAttempts, view : View \union {None}]

ASSUME NoneAssumption ==
    /\ None \notin Nat \union Codes
    /\ None \notin Qr /\ None \notin Campaign /\ None \notin Found
    /\ None \notin View /\ None \notin Creation

VARIABLES
    users,       \* the users that have a row
    campaigns,   \* campaigns, by id; None before they are made and once purged
    qrs,         \* qr_codes, by id
    inserted,    \* how many QR rows, and campaigns, ids have been given to
    started,
    scanned,     \* the QR codes that scan_logs rows refer to
    cache,       \* the QR code that Redis has for each short code, or None
    req,         \* the creation in each slot, or None
    claims,      \* history: every <<code, id>> there has been
    purged,      \* history: the QR codes deleted for good
    moved        \* history: the QR codes that a PATCH put into a campaign

rows == <<users, campaigns, qrs, inserted, started, scanned>>
vars == <<rows, cache, req, claims, purged, moved>>

TypeOK ==
    /\ users \subseteq Users
    /\ campaigns \in [CampaignIds -> Campaign \union {None}]
    /\ qrs \in [QrIds -> Qr \union {None}]
    /\ inserted \in 0 .. MaxQrs
    /\ started \in 0 .. MaxCampaigns
    /\ scanned \subseteq QrIds
    /\ cache \in [Codes -> QrIds \union {None}]
    /\ req \in [Requests -> Creation \union {None}]
    /\ claims \subseteq Codes \X QrIds
    /\ purged \subseteq QrIds
    /\ moved \subseteq QrIds

Init ==
    /\ users = Users
    /\ campaigns = [c \in CampaignIds |-> None]
    /\ qrs = [q \in QrIds |-> None]
    /\ inserted = 0 /\ started = 0
    /\ scanned = {}
    /\ cache = [c \in Codes |-> None]
    /\ req = [r \in Requests |-> None]
    /\ claims = {} /\ purged = {} /\ moved = {}
-------------------------------------------------------------------------------
(* Every endpoint checks with no company: no resolver is configured.          *)
MayAccess(p, owner) == ScopeAccess(p, owner, None)

Live(table, id) == table[id] # None /\ ~table[id].deleted

(* Mutant: any campaign that is not deleted will do.                          *)
CampaignExists(owner, c) == c # None => Live(campaigns, c)

(* _ensure_campaign_in_owner_scope, if a campaign is asked for.               *)
CampaignInOwnerScope(owner, c) ==
    c # None => Live(campaigns, c) /\ campaigns[c].owner = owner

(* A snapshot of qr_codes, as far as probes look at it.                       *)
Snapshot ==
    [q \in QrIds |-> IF qrs[q] = None THEN None
                     ELSE [code |-> qrs[q].code, deleted |-> qrs[q].deleted]]

(* create_qr up to the first candidate.  The campaign check is the first read *)
(* of the transaction, if there is one.                                       *)
StartCreate(r, p, owner, c) ==
    /\ req[r] = None
    /\ MayAccess(p, owner)
    /\ CampaignInOwnerScope(owner, c)
    /\ req' = [req EXCEPT ![r] =
         [pc |-> "probing", owner |-> owner, campaign |-> c, code |-> None,
          attempt |-> 1, view |-> IF c = None THEN None ELSE Snapshot]]
    /\ UNCHANGED <<rows, cache, claims, purged, moved>>

(* Mutant: every candidate is the first.                                      *)
RetryUncounted(r, view) ==
    req' = [req EXCEPT ![r].pc = "probing", ![r].view = view, ![r].code = None]

(* Mutant: one candidate too many.                                            *)
CollideOneMore(r, view) ==
    req' = IF req[r].attempt <= MaxAttempts
           THEN [req EXCEPT ![r].pc = "probing", ![r].view = view,
                            ![r].code = None, ![r].attempt = @ + 1]
           ELSE [req EXCEPT ![r] = None]

(* A collision: the next candidate, or RuntimeError after max_attempts.       *)
Collide(r, view) ==
    req' = IF req[r].attempt < MaxAttempts
           THEN [req EXCEPT ![r].pc = "probing", ![r].view = view,
                            ![r].code = None, ![r].attempt = @ + 1]
           ELSE [req EXCEPT ![r] = None]

(* A random candidate, looked up in the cache.                                *)
Probe(r) ==
    /\ req[r] # None /\ req[r].pc = "probing"
    /\ \E code \in Codes :
         IF cache[code] # None
         THEN Collide(r, req[r].view)
         ELSE req' = [req EXCEPT ![r].pc = "fetching", ![r].code = code]
    /\ UNCHANGED <<rows, cache, claims, purged, moved>>

(* Mutant: rows that are deleted are not found.                               *)
UndeletedHolders(table, code) ==
    {q \in QrIds : Live(table, q) /\ table[q].code = code}

(* _fetch_redirect_payload finds deleted rows too.                            *)
Holders(table, code) ==
    {q \in QrIds : table[q] # None /\ table[q].code = code}

(* What is found is cached, except deleted rows: their deleted_at does not    *)
(* pass json.dumps.                                                           *)
StoreFound(table, code) ==
    cache' = [cache EXCEPT ![code] =
        IF \E q \in Holders(table, code) : ~table[q].deleted
        THEN CHOOSE q \in Holders(table, code) : ~table[q].deleted
        ELSE @]

(* The lookup in MySQL after a miss.                                          *)
FetchCode(r) ==
    LET view == IF req[r].view = None THEN Snapshot ELSE req[r].view
    IN  /\ req[r] # None /\ req[r].pc = "fetching"
        /\ IF Holders(view, req[r].code) # {}
           THEN Collide(r, view) /\ StoreFound(view, req[r].code)
           ELSE /\ req' = [req EXCEPT ![r].pc = "inserting", ![r].view = view]
                /\ UNCHANGED cache
        /\ UNCHANGED <<rows, claims, purged, moved>>

(* Mutant: there is no unique key.                                            *)
KeyFreeUnchecked(code) == TRUE

KeyFree(code) == Holders(qrs, code) = {}

ReferencesExist(owner, c) ==
    owner \in users /\ (c # None => campaigns[c] # None)

(* INSERT and commit: the unique key and the foreign keys hold.               *)
Insert(r) ==
    LET id == inserted + 1
    IN  /\ req[r] # None /\ req[r].pc = "inserting"
        /\ KeyFree(req[r].code)
        /\ ReferencesExist(req[r].owner, req[r].campaign)
        /\ id \in QrIds
        /\ inserted' = id
        /\ qrs' = [qrs EXCEPT ![id] =
             [owner |-> req[r].owner, campaign |-> req[r].campaign,
              code |-> req[r].code, deleted |-> FALSE]]
        /\ claims' = claims \union {<<req[r].code, id>>}
        /\ req' = [req EXCEPT ![r] = None]
        /\ UNCHANGED <<users, campaigns, started, scanned, cache, purged, moved>>

(* The INSERT violates a key, or the process dies, or MySQL fails.  There is  *)
(* no retry: the request is answered with a 500.                              *)
CreateFails(r) ==
    /\ req[r] # None
    /\ req' = [req EXCEPT ![r] = None]
    /\ UNCHANGED <<rows, cache, claims, purged, moved>>
-------------------------------------------------------------------------------
(* resolve_by_short_code for a visitor.                                       *)
Redirect(code) ==
    /\ cache[code] = None
    /\ StoreFound(qrs, code)
    /\ UNCHANGED <<rows, req, claims, purged, moved>>

(* A scan is logged by a worker, long after the redirect; the code must have  *)
(* its row still.                                                             *)
LogScan(q) ==
    /\ qrs[q] # None
    /\ q \notin scanned
    /\ scanned' = scanned \union {q}
    /\ UNCHANGED <<users, campaigns, qrs, inserted, started, cache, req, claims,
                   purged, moved>>

Expire(code) ==
    /\ cache[code] # None
    /\ cache' = [cache EXCEPT ![code] = None]
    /\ UNCHANGED <<rows, req, claims, purged, moved>>

(* An UPDATE of a row that is not deleted; its cache entry is removed.        *)
WriteQr(p, q, row) ==
    /\ Live(qrs, q)
    /\ MayAccess(p, qrs[q].owner)
    /\ qrs' = [qrs EXCEPT ![q] = row]
    /\ cache' = [cache EXCEPT ![qrs[q].code] = None]
    /\ UNCHANGED <<users, campaigns, inserted, started, scanned, req, claims, purged>>

(* PATCH may name any campaign that has a row; none cannot be asked for.      *)
UpdateQr(p, q) ==
    /\ \E c \in {d \in CampaignIds : campaigns[d] # None} :
         WriteQr(p, q, [qrs[q] EXCEPT !.campaign = c])
    /\ moved' = moved \union {q}

DeleteQr(p, q) ==
    /\ WriteQr(p, q, [qrs[q] EXCEPT !.deleted = TRUE])
    /\ UNCHANGED moved

CreateCampaign(p, owner) ==
    /\ MayAccess(p, owner)
    /\ owner \in users
    /\ started < MaxCampaigns
    /\ started' = started + 1
    /\ campaigns' = [campaigns EXCEPT ![started'] =
                        [owner |-> owner, deleted |-> FALSE]]
    /\ UNCHANGED <<users, qrs, inserted, scanned, cache, req, claims, purged, moved>>

DeleteCampaign(p, c) ==
    /\ Live(campaigns, c)
    /\ MayAccess(p, campaigns[c].owner)
    /\ campaigns' = [campaigns EXCEPT ![c].deleted = TRUE]
    /\ UNCHANGED <<users, qrs, inserted, started, scanned, cache, req, claims,
                   purged, moved>>
-------------------------------------------------------------------------------
(* _hard_delete by an admin who confirms and gives a reason: a deleted row,   *)
(* or any with allow_active_delete.  The cache is left as it is.              *)
MayPurge(p, table, id, override) ==
    /\ p.role = "admin"
    /\ table[id] # None
    /\ table[id].deleted \/ override

(* Rows that refer to the code (scan_logs, the daily summary, event details)  *)
(* keep it from being deleted.                                                *)
PurgeQr(p, q, override) ==
    /\ MayPurge(p, qrs, q, override)
    /\ q \notin scanned
    /\ qrs' = [qrs EXCEPT ![q] = None]
    /\ purged' = purged \union {q}
    /\ UNCHANGED <<users, campaigns, inserted, started, scanned, cache, req,
                   claims, moved>>

(* Mutant: the codes of a campaign that goes keep their reference to it.      *)
DropNothing(gone) == UNCHANGED qrs

(* ON DELETE SET NULL of qr_codes.campaign_id.                                *)
DropReferences(gone) ==
    qrs' = [q \in QrIds |->
        IF qrs[q] # None /\ qrs[q].campaign \in gone
        THEN [qrs[q] EXCEPT !.campaign = None] ELSE qrs[q]]

PurgeCampaign(p, c, override) ==
    /\ MayPurge(p, campaigns, c, override)
    /\ campaigns' = [campaigns EXCEPT ![c] = None]
    /\ DropReferences({c})
    /\ UNCHANGED <<users, inserted, started, scanned, cache, req, claims, purged,
                   moved>>

(* The campaigns of a user go with the user (ON DELETE CASCADE), deleted or   *)
(* not, while QR codes keep the user; so do connections, which no user has    *)
(* here.  Nothing marks users as deleted: only the override works.            *)
PurgeUser(p, u) ==
    LET gone == {c \in CampaignIds : campaigns[c] # None /\ campaigns[c].owner = u}
    IN  /\ p.role = "admin"
        /\ u \in users
        /\ \A q \in QrIds : qrs[q] # None => qrs[q].owner # u
        /\ users' = users \ {u}
        /\ campaigns' = [c \in CampaignIds |-> IF c \in gone THEN None ELSE campaigns[c]]
        /\ DropReferences(gone)
        /\ UNCHANGED <<inserted, started, scanned, cache, req, claims, purged, moved>>

CreateStep(r) == Probe(r) \/ FetchCode(r) \/ Insert(r) \/ CreateFails(r)

Next ==
    \/ \E r \in Requests :
        \/ \E p \in Principals, owner \in Users, c \in CampaignIds \union {None} :
             StartCreate(r, p, owner, c)
        \/ CreateStep(r)
    \/ \E code \in Codes : Redirect(code) \/ Expire(code)
    \/ \E q \in QrIds : LogScan(q)
    \/ \E p \in Principals, q \in QrIds : UpdateQr(p, q) \/ DeleteQr(p, q)
    \/ \E p \in Principals, owner \in Users : CreateCampaign(p, owner)
    \/ \E p \in Principals, c \in CampaignIds : DeleteCampaign(p, c)
    \/ \E p \in Principals, override \in BOOLEAN :
        \/ \E q \in QrIds : PurgeQr(p, q, override)
        \/ \E c \in CampaignIds : PurgeCampaign(p, c, override)
    \/ \E p \in Principals, u \in Users : PurgeUser(p, u)

Spec == Init /\ [][Next]_vars
-------------------------------------------------------------------------------
(* A short code is one QR code's for good, on every row and every cache entry *)
(* there has been, as it is printed; two creations that draw the same code in *)
(* the same moment included.  Only hard deletion gives a code away.           *)
CodeKeepsItsQr ==
    /\ \A a, b \in claims :
        a[1] = b[1] /\ a[2] # b[2] => {a[2], b[2]} \intersect purged # {}
    /\ \A code \in Codes : cache[code] # None => <<code, cache[code]>> \in claims

(* An INSERT can fail on the unique key only because another creation has     *)
(* committed the code since this one first read: the probes find every other  *)
(* (generate_unique_base62_code retries on collisions, the INSERT does not).  *)
LosesCodeOnlyByRace ==
    \A r \in Requests, q \in QrIds :
        /\ req[r] # None /\ req[r].pc = "inserting"
        /\ qrs[q] # None /\ qrs[q].code = req[r].code
        => req[r].view[q] = None

(* A QR code is in a campaign of its owner, or in none, whatever is deleted   *)
(* between the check and the INSERT and afterwards; PATCH does not check.     *)
InOwnCampaign ==
    \A q \in QrIds :
        qrs[q] # None /\ qrs[q].campaign # None =>
            /\ campaigns[qrs[q].campaign] # None
            /\ q \notin moved => campaigns[qrs[q].campaign].owner = qrs[q].owner

(* What a creation has still before it, at most.                              *)
Remaining(creation) ==
    3 * (MaxAttempts - creation.attempt)
        + [probing |-> 2, fetching |-> 1, inserting |-> 0][creation.pc]

(* Every step of a creation brings it nearer to its end, so that it does not  *)
(* go on drawing codes when all of them are taken or Redis holds entries of   *)
(* codes that are gone.                                                       *)
CreationAdvances ==
    [][\A r \in Requests :
        req[r] # None /\ req'[r] # None /\ req'[r] # req[r]
            => Remaining(req'[r]) < Remaining(req[r])]_vars
===============================================================================
