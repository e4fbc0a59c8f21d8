----------------------------- MODULE CatalogProofs -----------------------------
(* Proofs, for any users, codes, campaigns and bounds, of the safety          *)
(* properties of Catalog, and of the agreement of checks and filters in       *)
(* AccessControl.                                                             *)
EXTENDS Catalog, TLAPS

(* An id is given out once, with one code; a row has the code that was        *)
(* claimed for it, and only hard deletion parts the two; no two rows share    *)
(* one (uq_qr_codes_short_code).                                              *)
ClaimsInv ==
    /\ \A a \in claims : a[2] <= inserted
    /\ \A a, b \in claims : a[2] = b[2] => a = b
    /\ \A a \in claims : a[2] \notin purged => qrs[a[2]] # None
    /\ \A code \in Codes : cache[code] # None => <<code, cache[code]>> \in claims

RowsInv ==
    /\ \A q \in QrIds : qrs[q] # None => <<qrs[q].code, q>> \in claims
    /\ \A p, q \in QrIds :
          qrs[p] # None /\ qrs[q] # None /\ qrs[p].code = qrs[q].code => p = q

(* What a creation has seen was claimed, and its own code was free in that.   *)
SeenOK(creation) ==
    /\ creation.view # None =>
          \A q \in QrIds :
            creation.view[q] # None => <<creation.view[q].code, q>> \in claims
    /\ creation.pc # "probing" => creation.code \in Codes
    /\ creation.pc = "inserting" =>
          creation.view # None /\ Holders(creation.view, creation.code) = {}

(* The campaign of a creation is its owner's, if it is there still.           *)
CampaignOK(creation) ==
    creation.campaign # None =>
        /\ creation.campaign <= started
        /\ campaigns[creation.campaign] # None =>
              campaigns[creation.campaign].owner = creation.owner

RequestsInv ==
    \A r \in Requests : req[r] # None => SeenOK(req[r]) /\ CampaignOK(req[r])

CampaignsInv ==
    /\ \A c \in CampaignIds : campaigns[c] # None => c <= started
    /\ InOwnCampaign

IInv == TypeOK /\ ClaimsInv /\ RowsInv /\ RequestsInv /\ CampaignsInv
-------------------------------------------------------------------------------
(* A filter that scope_filter does not refuse selects the rows that           *)
(* ensure_scope_access admits and no others, whatever the role and the owner, *)
(* for the company that a resolver would name.                                *)
THEOREM FilterAgrees ==
    ASSUME NEW p \in Principal, NEW owner \in Users, NEW company \in Names,
           ScopeFilter(p) # Refused
    PROVE  Selects(ScopeFilter(p), owner, company) <=> ScopeAccess(p, owner, company)
<1>1. p.role \in {"admin", "agency", "user"}
      BY DEF Principal, Roles
<1>2. CASE p.role = "admin"
      BY <1>2 DEF ScopeFilter, Selects, ScopeAccess
<1>3. CASE p.role = "user"
      BY <1>3 DEF ScopeFilter, Selects, ScopeAccess
<1>4. CASE p.role = "agency"
      BY <1>4 DEF ScopeFilter, Selects, ScopeAccess
<1> QED BY <1>1, <1>2, <1>3, <1>4

(* Where no company is known, as in every endpoint, an agency reaches nothing.*)
THEOREM AgencyReachesNothing ==
    ASSUME NEW p \in Principal, NEW owner \in Users, p.role = "agency"
    PROVE  ~ MayAccess(p, owner)
BY DEF MayAccess, ScopeAccess
-------------------------------------------------------------------------------
LEMMA InitInv == Init => IInv
<1> SUFFICES ASSUME Init
             PROVE  IInv
    OBVIOUS
<1>1. TypeOK
      BY CatalogAssumption DEF Init, TypeOK
<1> QED BY <1>1
        DEF Init, IInv, ClaimsInv, RowsInv, RequestsInv, CampaignsInv, InOwnCampaign

(* A lookup stores a row it has found, or nothing.                            *)
LEMMA StoreFoundFacts ==
    ASSUME cache \in [Codes -> QrIds \union {None}],
           NEW table, NEW code \in Codes, StoreFound(table, code)
    PROVE  /\ cache' \in [Codes -> QrIds \union {None}]
           /\ \A c \in Codes :
                 cache'[c] = cache[c] \/ (c = code /\ cache'[c] \in Holders(table, c))
<1>1. CASE \E q \in Holders(table, code) : ~table[q].deleted
  <2> DEFINE found == CHOOSE q \in Holders(table, code) : ~table[q].deleted
  <2>1. found \in Holders(table, code)
        BY <1>1
  <2>2. cache' = [cache EXCEPT ![code] = found]
        BY <1>1 DEF StoreFound
  <2> HIDE DEF found
  <2> QED BY <2>1, <2>2 DEF Holders
<1>2. CASE ~ \E q \in Holders(table, code) : ~table[q].deleted
      BY <1>2 DEF StoreFound
<1> QED BY <1>1, <1>2

(* A snapshot shows rows, and so codes that were claimed for them.            *)
LEMMA SnapshotFacts ==
    ASSUME TypeOK, RowsInv
    PROVE  /\ Snapshot \in View
           /\ \A q \in QrIds : Snapshot[q] # None => <<Snapshot[q].code, q>> \in claims
<1>1. Snapshot \in View
      BY DEF TypeOK, Snapshot, View, Found, Qr
<1> QED BY <1>1, NoneAssumption DEF TypeOK, RowsInv, Snapshot
-------------------------------------------------------------------------------
(* A request's step that leaves rows and history alone: what it is left with  *)
(* has to be in order, and what it may have cached.                           *)
LEMMA CreationStep ==
    ASSUME IInv, NEW r \in Requests, NEW creation \in Creation \union {None},
           req' = [req EXCEPT ![r] = creation],
           creation # None => SeenOK(creation) /\ CampaignOK(creation),
           cache' \in [Codes -> QrIds \union {None}],
           \A code \in Codes : cache'[code] # None => <<code, cache'[code]>> \in claims,
           UNCHANGED <<rows, claims, purged, moved>>
    PROVE  IInv'
<1> USE DEF IInv
<1>1. TypeOK'
      BY DEF TypeOK, rows
<1>2. \A q \in Requests : req'[q] = IF q = r THEN creation ELSE req[q]
      BY DEF TypeOK
<1>3. RequestsInv'
  <2> SUFFICES ASSUME NEW q \in Requests, (req[q] # None)'
               PROVE  SeenOK(req[q])' /\ CampaignOK(req[q])'
      BY DEF RequestsInv
  <2> QED BY <1>2 DEF RequestsInv, SeenOK, CampaignOK, Holders, rows
<1> QED BY <1>1, <1>3 DEF ClaimsInv, RowsInv, CampaignsInv, InOwnCampaign, rows

LEMMA StartCreateInv ==
    ASSUME IInv, NEW r \in Requests, NEW p \in Principals, NEW owner \in Users,
           NEW c \in CampaignIds \union {None}, StartCreate(r, p, owner, c)
    PROVE  IInv'
<1> USE DEF IInv
<1>v. PICK view : view = IF c = None THEN None ELSE Snapshot
      OBVIOUS
<1> DEFINE creation ==
             [pc |-> "probing", owner |-> owner, campaign |-> c, code |-> None,
              attempt |-> 1, view |-> view]
<1>1. /\ req' = [req EXCEPT ![r] = creation]
      /\ CampaignInOwnerScope(owner, c)
      /\ UNCHANGED <<rows, cache, claims, purged, moved>>
      BY <1>v DEF StartCreate
<1>2. creation \in Creation
      BY <1>v, SnapshotFacts, CatalogAssumption DEF Creation
<1>3. SeenOK(creation)
      BY <1>v, SnapshotFacts DEF SeenOK
<1>4. CampaignOK(creation)
      BY <1>1 DEF CampaignOK, CampaignInOwnerScope, Live, CampaignsInv
<1> HIDE DEF creation
<1> QED BY <1>1, <1>2, <1>3, <1>4, CreationStep DEF TypeOK, ClaimsInv

(* The next candidate, or none: both are in order.                            *)
LEMMA CollideFacts ==
    ASSUME IInv, NEW r \in Requests, req[r] # None,
           NEW view \in View \union {None},
           view # None => \A q \in QrIds : view[q] # None => <<view[q].code, q>> \in claims,
           Collide(r, view)
    PROVE  \E creation \in Creation \union {None} :
              /\ req' = [req EXCEPT ![r] = creation]
              /\ creation # None => SeenOK(creation) /\ CampaignOK(creation)
<1> USE DEF IInv
<1>1. req[r] \in Creation /\ CampaignOK(req[r])
      BY DEF TypeOK, RequestsInv
<1>2. CASE req[r].attempt < MaxAttempts
  <2> DEFINE creation == [req[r] EXCEPT !.pc = "probing", !.view = view,
                                        !.code = None, !.attempt = @ + 1]
  <2>1. req' = [req EXCEPT ![r] = creation]
        BY <1>2 DEF Collide, TypeOK
  <2>2. creation \in Creation
    <3>1. req[r].attempt \in 1 .. MaxAttempts
          BY <1>1 DEF Creation
    <3>2. req[r].attempt + 1 \in 1 .. MaxAttempts
          BY <1>2, <3>1, CatalogAssumption
    <3> QED BY <1>1, <3>2 DEF Creation
  <2>3. SeenOK(creation) /\ CampaignOK(creation)
        BY <1>1 DEF SeenOK, CampaignOK, Creation
  <2> QED BY <2>1, <2>2, <2>3
<1>3. CASE ~ (req[r].attempt < MaxAttempts)
      BY <1>3 DEF Collide
<1> QED BY <1>2, <1>3

LEMMA ProbeInv ==
    ASSUME IInv, NEW r \in Requests, Probe(r)
    PROVE  IInv'
<1> USE DEF IInv
<1>1. PICK code \in Codes :
          IF cache[code] # None THEN Collide(r, req[r].view)
          ELSE req' = [req EXCEPT ![r].pc = "fetching", ![r].code = code]
      BY DEF Probe
<1>2. /\ req[r] # None /\ req[r] \in Creation
      /\ SeenOK(req[r]) /\ CampaignOK(req[r])
      /\ UNCHANGED <<rows, cache, claims, purged, moved>>
      BY DEF Probe, TypeOK, RequestsInv
<1>3. PICK creation \in Creation \union {None} :
          /\ req' = [req EXCEPT ![r] = creation]
          /\ creation # None => SeenOK(creation) /\ CampaignOK(creation)
  <2>1. CASE cache[code] # None
    <3>1. req[r].view \in View \union {None}
          BY <1>2 DEF Creation
    <3> QED BY <1>1, <1>2, <2>1, <3>1, CollideFacts DEF SeenOK
  <2>2. CASE cache[code] = None
    <3> DEFINE next == [req[r] EXCEPT !.pc = "fetching", !.code = code]
    <3>1. req' = [req EXCEPT ![r] = next]
          BY <1>1, <2>2 DEF TypeOK
    <3>2. next \in Creation
          BY <1>2 DEF Creation
    <3>3. SeenOK(next) /\ CampaignOK(next)
          BY <1>2 DEF SeenOK, CampaignOK, Creation
    <3> QED BY <3>1, <3>2, <3>3
  <2> QED BY <2>1, <2>2
<1> QED BY <1>2, <1>3, CreationStep DEF TypeOK, ClaimsInv

LEMMA FetchCodeInv ==
    ASSUME IInv, NEW r \in Requests, FetchCode(r)
    PROVE  IInv'
<1> USE DEF IInv
<1>v. PICK view : view = IF req[r].view = None THEN Snapshot ELSE req[r].view
      OBVIOUS
<1>1. /\ req[r] # None /\ req[r] \in Creation
      /\ SeenOK(req[r]) /\ CampaignOK(req[r])
      /\ req[r].pc = "fetching"
      /\ UNCHANGED <<rows, claims, purged, moved>>
      BY DEF FetchCode, TypeOK, RequestsInv
<1>c. PICK code \in Codes : code = req[r].code
      BY <1>1 DEF SeenOK
<1>2. /\ view \in View
      /\ \A q \in QrIds : view[q] # None => <<view[q].code, q>> \in claims
      BY <1>1, <1>v, SnapshotFacts DEF Creation, SeenOK
<1>3. CASE Holders(view, code) # {}
  <2>1. Collide(r, view) /\ StoreFound(view, code)
        BY <1>3, <1>c, <1>v DEF FetchCode
  <2>2. PICK creation \in Creation \union {None} :
          /\ req' = [req EXCEPT ![r] = creation]
          /\ creation # None => SeenOK(creation) /\ CampaignOK(creation)
        BY <1>1, <1>2, <2>1, CollideFacts
  <2>3. /\ cache' \in [Codes -> QrIds \union {None}]
        /\ \A c \in Codes : cache'[c] # None => <<c, cache'[c]>> \in claims
        BY <1>2, <2>1, StoreFoundFacts DEF TypeOK, ClaimsInv, Holders
  <2> QED BY <1>1, <2>2, <2>3, CreationStep
<1>4. CASE Holders(view, code) = {}
  <2> DEFINE creation == [req[r] EXCEPT !.pc = "inserting", !.view = view]
  <2>1. req' = [req EXCEPT ![r] = creation] /\ UNCHANGED cache
        BY <1>4, <1>c, <1>v DEF FetchCode, TypeOK
  <2>2. creation \in Creation
        BY <1>1, <1>2 DEF Creation
  <2>3. SeenOK(creation) /\ CampaignOK(creation)
        BY <1>1, <1>2, <1>4, <1>c, NoneAssumption DEF SeenOK, CampaignOK, Creation
  <2> HIDE DEF creation
  <2> QED BY <1>1, <2>1, <2>2, <2>3, CreationStep DEF TypeOK, ClaimsInv
<1> QED BY <1>3, <1>4

LEMMA CreateFailsInv ==
    ASSUME IInv, NEW r \in Requests, CreateFails(r)
    PROVE  IInv'
BY CreationStep DEF CreateFails, IInv, TypeOK, ClaimsInv
-------------------------------------------------------------------------------
LEMMA InsertInv ==
    ASSUME IInv, NEW r \in Requests, Insert(r)
    PROVE  IInv'
<1> USE DEF IInv
<1>i. PICK id \in Nat : id = inserted + 1
      BY DEF TypeOK
<1>0. /\ req[r] # None /\ req[r] \in Creation /\ req[r].pc = "inserting"
      /\ SeenOK(req[r]) /\ CampaignOK(req[r])
      BY DEF Insert, TypeOK, RequestsInv
<1>c. PICK code \in Codes : code = req[r].code
      BY <1>0 DEF SeenOK
<1>d. PICK c \in CampaignIds \union {None} : c = req[r].campaign
      BY <1>0 DEF Creation
<1>o. PICK owner \in Users : owner = req[r].owner
      BY <1>0 DEF Creation
<1> DEFINE new == [owner |-> owner, campaign |-> c, code |-> code, deleted |-> FALSE]
<1>1. /\ KeyFree(code) /\ ReferencesExist(owner, c)
      /\ id \in QrIds /\ inserted' = id
      /\ qrs' = [qrs EXCEPT ![id] = new]
      /\ claims' = claims \union {<<code, id>>}
      /\ req' = [req EXCEPT ![r] = None]
      /\ UNCHANGED <<users, campaigns, started, scanned, cache, purged, moved>>
      BY <1>i, <1>c, <1>d, <1>o DEF Insert
<1>2. new \in Qr /\ new # None
  <2>1. new \in Qr
        BY DEF Qr
  <2> HIDE DEF new
  <2> QED BY <2>1, NoneAssumption
<1>3. \A q \in QrIds : qrs'[q] = IF q = id THEN new ELSE qrs[q]
      BY <1>1 DEF TypeOK
<1>4. new.code = code /\ new.owner = owner /\ new.campaign = c
      OBVIOUS
<1> HIDE DEF new
<1>5. TypeOK'
  <2>1. qrs' \in [QrIds -> Qr \union {None}]
        BY <1>1, <1>2 DEF TypeOK
  <2>2. req' \in [Requests -> Creation \union {None}]
        BY <1>1 DEF TypeOK
  <2>3. inserted' \in 0 .. MaxQrs
        BY <1>1, CatalogAssumption DEF QrIds
  <2>4. claims' \subseteq Codes \X QrIds
        BY <1>1 DEF TypeOK
  <2> QED BY <1>1, <2>1, <2>2, <2>3, <2>4 DEF TypeOK
<1>6. \A a \in claims : a[2] # id /\ a[2] <= id /\ a[2] \in QrIds
      BY <1>i DEF ClaimsInv, TypeOK, QrIds
<1>7. ClaimsInv'
  <2>1. \A a \in claims' : a[2] <= inserted'
        BY <1>1, <1>6
  <2>2. \A a, b \in claims' : a[2] = b[2] => a = b
        BY <1>1, <1>6 DEF ClaimsInv
  <2>3. \A a \in claims' : a[2] \notin purged' => qrs'[a[2]] # None
        BY <1>1, <1>2, <1>3, <1>6 DEF ClaimsInv
  <2> QED BY <1>1, <2>1, <2>2, <2>3 DEF ClaimsInv
<1>8. RowsInv'
  <2>1. \A q \in QrIds : qrs[q] # None => qrs[q].code # code
        BY <1>1 DEF KeyFree, Holders
  <2> QED BY <1>1, <1>3, <1>4, <2>1 DEF RowsInv
<1>9. RequestsInv'
  <2>1. \A q \in Requests : req'[q] = IF q = r THEN None ELSE req[q]
        BY <1>1 DEF TypeOK
  <2> QED BY <1>1, <2>1 DEF RequestsInv, SeenOK, CampaignOK, Holders
<1>10. CampaignsInv'
  <2>1. c # None => campaigns[c] # None /\ campaigns[c].owner = owner
        BY <1>0, <1>1, <1>d, <1>o DEF ReferencesExist, CampaignOK
  <2> QED BY <1>1, <1>3, <1>4, <2>1 DEF CampaignsInv, InOwnCampaign
<1> QED BY <1>5, <1>7, <1>8, <1>9, <1>10
-------------------------------------------------------------------------------
LEMMA RedirectInv ==
    ASSUME IInv, NEW code \in Codes, Redirect(code)
    PROVE  IInv'
<1> USE DEF IInv
<1>1. UNCHANGED <<rows, req, claims, purged, moved>> /\ StoreFound(qrs, code)
      BY DEF Redirect
<1>2. cache' \in [Codes -> QrIds \union {None}]
      BY <1>1, StoreFoundFacts DEF TypeOK
<1>3. \A c \in Codes : cache'[c] # None => <<c, cache'[c]>> \in claims
      BY <1>1, StoreFoundFacts DEF TypeOK, ClaimsInv, RowsInv, Holders
<1> QED BY <1>1, <1>2, <1>3
        DEF TypeOK, ClaimsInv, RowsInv, RequestsInv, SeenOK, CampaignOK, Holders,
            CampaignsInv, InOwnCampaign, rows

LEMMA ExpireInv ==
    ASSUME IInv, NEW code \in Codes, Expire(code)
    PROVE  IInv'
<1> USE DEF IInv
<1>1. UNCHANGED <<rows, req, claims, purged, moved>>
      BY DEF Expire
<1>2. TypeOK' /\ \A c \in Codes : cache'[c] \in {cache[c], None}
      BY DEF TypeOK, Expire, rows
<1> QED BY <1>1, <1>2
        DEF ClaimsInv, RowsInv, RequestsInv, SeenOK, CampaignOK, Holders,
            CampaignsInv, InOwnCampaign, rows

LEMMA LogScanInv ==
    ASSUME IInv, NEW q \in QrIds, LogScan(q)
    PROVE  IInv'
BY DEF IInv, LogScan, TypeOK, ClaimsInv, RowsInv, RequestsInv, SeenOK, CampaignOK,
       Holders, CampaignsInv, InOwnCampaign

(* PATCH and DELETE keep code and owner; the campaign is one that has a row,  *)
(* and the row's own or, where a PATCH has put it, anybody's.                 *)
LEMMA WriteQrInv ==
    ASSUME IInv, NEW p \in Principals, NEW q \in QrIds, NEW row \in Qr,
           WriteQr(p, q, row), row.code = qrs[q].code, row.owner = qrs[q].owner,
           row.campaign # None => campaigns[row.campaign] # None,
           moved \subseteq moved', moved' \subseteq QrIds,
           q \in moved' \/ row.campaign = qrs[q].campaign
    PROVE  IInv'
<1> USE DEF IInv
<1>1. /\ qrs[q] # None
      /\ qrs' = [qrs EXCEPT ![q] = row]
      /\ cache' = [cache EXCEPT ![qrs[q].code] = None]
      /\ UNCHANGED <<users, campaigns, inserted, started, scanned, req, claims, purged>>
      BY DEF WriteQr, Live
<1>2. TypeOK'
      BY <1>1 DEF TypeOK
<1>3. \A i \in QrIds : qrs'[i] = IF i = q THEN row ELSE qrs[i]
      BY <1>1 DEF TypeOK
<1>4. \A c \in Codes : cache'[c] \in {cache[c], None}
      BY <1>1 DEF TypeOK
<1>5. row # None
      BY NoneAssumption
<1>6. ClaimsInv'
  <2>1. \A a \in claims : a[2] \in QrIds
        BY DEF TypeOK
  <2> QED BY <1>1, <1>3, <1>4, <1>5, <2>1 DEF ClaimsInv
<1>7. RowsInv'
      BY <1>1, <1>3 DEF RowsInv
<1>8. RequestsInv'
      BY <1>1 DEF RequestsInv, SeenOK, CampaignOK, Holders
<1>9. CampaignsInv'
      BY <1>1, <1>3 DEF CampaignsInv, InOwnCampaign
<1> QED BY <1>2, <1>6, <1>7, <1>8, <1>9

LEMMA UpdateQrInv ==
    ASSUME IInv, NEW p \in Principals, NEW q \in QrIds, UpdateQr(p, q)
    PROVE  IInv'
<1>1. PICK c \in CampaignIds :
          campaigns[c] # None /\ WriteQr(p, q, [qrs[q] EXCEPT !.campaign = c])
      BY DEF UpdateQr
<1>2. qrs[q] \in Qr
      BY <1>1 DEF IInv, TypeOK, WriteQr, Live
<1>3. PICK row \in Qr : row = [qrs[q] EXCEPT !.campaign = c]
      BY <1>2 DEF Qr
<1>4. row.code = qrs[q].code /\ row.owner = qrs[q].owner /\ row.campaign = c
      BY <1>2, <1>3 DEF Qr
<1>5. moved' = moved \union {q} /\ moved \subseteq QrIds
      BY DEF UpdateQr, IInv, TypeOK
<1> QED BY <1>1, <1>3, <1>4, <1>5, WriteQrInv

LEMMA DeleteQrInv ==
    ASSUME IInv, NEW p \in Principals, NEW q \in QrIds, DeleteQr(p, q)
    PROVE  IInv'
<1>1. WriteQr(p, q, [qrs[q] EXCEPT !.deleted = TRUE]) /\ moved' = moved
      BY DEF DeleteQr
<1>2. qrs[q] \in Qr /\ qrs[q] # None
      BY <1>1 DEF IInv, TypeOK, WriteQr, Live
<1>3. PICK row \in Qr : row = [qrs[q] EXCEPT !.deleted = TRUE]
      BY <1>2 DEF Qr
<1>4. row.code = qrs[q].code /\ row.owner = qrs[q].owner /\ row.campaign = qrs[q].campaign
      BY <1>2, <1>3 DEF Qr
<1>5. row.campaign # None => campaigns[row.campaign] # None
      BY <1>2, <1>4 DEF IInv, CampaignsInv, InOwnCampaign
<1>6. moved \subseteq QrIds
      BY DEF IInv, TypeOK
<1> QED BY <1>1, <1>3, <1>4, <1>5, <1>6, WriteQrInv
-------------------------------------------------------------------------------
(* Ids of campaigns are given out once, so no creation and no code waits for  *)
(* the new one.                                                               *)
LEMMA CreateCampaignInv ==
    ASSUME IInv, NEW p \in Principals, NEW owner \in Users, CreateCampaign(p, owner)
    PROVE  IInv'
<1> USE DEF IInv
<1>n. PICK new : new = [owner |-> owner, deleted |-> FALSE]
      OBVIOUS
<1>1. /\ started < MaxCampaigns /\ started' = started + 1
      /\ campaigns' = [campaigns EXCEPT ![started'] = new]
      /\ UNCHANGED <<users, qrs, inserted, scanned, cache, req, claims, purged, moved>>
      BY <1>n DEF CreateCampaign
<1>2. new \in Campaign
      BY <1>n DEF Campaign
<1>3. new # None
      BY <1>2, NoneAssumption
<1>4. started' \in CampaignIds /\ started \in Nat
      BY <1>1, CatalogAssumption DEF TypeOK, CampaignIds
<1>5. \A c \in CampaignIds : campaigns'[c] = IF c = started' THEN new ELSE campaigns[c]
      BY <1>1 DEF TypeOK
<1>6. campaigns[started'] = None
      BY <1>1, <1>4 DEF CampaignsInv
<1>7. TypeOK'
      BY <1>1, <1>2, <1>4, CatalogAssumption DEF TypeOK, CampaignIds
<1>8. RequestsInv'
  <2> SUFFICES ASSUME NEW r \in Requests, req[r] # None
               PROVE  SeenOK(req[r])' /\ CampaignOK(req[r])'
      BY <1>1 DEF RequestsInv
  <2>1. req[r].campaign # None => req[r].campaign \in CampaignIds
        BY DEF TypeOK, Creation
  <2> QED BY <1>1, <1>4, <1>5, <2>1
          DEF RequestsInv, SeenOK, CampaignOK, Holders, CampaignIds
<1>9. CampaignsInv'
  <2>1. \A q \in QrIds : qrs[q] # None /\ qrs[q].campaign # None =>
           qrs[q].campaign \in CampaignIds
        BY DEF TypeOK, Qr
  <2> QED BY <1>1, <1>3, <1>4, <1>5, <1>6, <2>1 DEF CampaignsInv, InOwnCampaign, CampaignIds
<1> QED BY <1>1, <1>7, <1>8, <1>9 DEF ClaimsInv, RowsInv

LEMMA DeleteCampaignInv ==
    ASSUME IInv, NEW p \in Principals, NEW c \in CampaignIds, DeleteCampaign(p, c)
    PROVE  IInv'
<1> USE DEF IInv
<1>1. /\ campaigns[c] # None
      /\ campaigns' = [campaigns EXCEPT ![c].deleted = TRUE]
      /\ UNCHANGED <<users, qrs, inserted, started, scanned, cache, req, claims, purged, moved>>
      BY DEF DeleteCampaign, Live
<1>2. campaigns[c] \in Campaign
      BY <1>1 DEF TypeOK
<1>3. PICK row \in Campaign : row = [campaigns[c] EXCEPT !.deleted = TRUE]
      BY <1>2 DEF Campaign
<1>4. row # None /\ row.owner = campaigns[c].owner
      BY <1>2, <1>3, NoneAssumption DEF Campaign
<1>5. campaigns' = [campaigns EXCEPT ![c] = row]
      BY <1>1, <1>3 DEF TypeOK
<1>6. TypeOK'
      BY <1>1, <1>5 DEF TypeOK
<1>7. \A d \in CampaignIds : campaigns'[d] = IF d = c THEN row ELSE campaigns[d]
      BY <1>5 DEF TypeOK
<1>8. RequestsInv'
  <2> SUFFICES ASSUME NEW r \in Requests, req[r] # None
               PROVE  SeenOK(req[r])' /\ CampaignOK(req[r])'
      BY <1>1 DEF RequestsInv
  <2>1. req[r].campaign # None => req[r].campaign \in CampaignIds
        BY DEF TypeOK, Creation
  <2> QED BY <1>1, <1>4, <1>7, <2>1 DEF RequestsInv, SeenOK, CampaignOK, Holders
<1>9. CampaignsInv'
  <2>1. \A q \in QrIds : qrs[q] # None /\ qrs[q].campaign # None =>
           qrs[q].campaign \in CampaignIds
        BY DEF TypeOK, Qr
  <2>2. \A d \in CampaignIds :
           /\ (campaigns'[d] = None) = (campaigns[d] = None)
           /\ campaigns[d] # None => campaigns'[d].owner = campaigns[d].owner
        BY <1>1, <1>4, <1>7
  <2>3. \A d \in CampaignIds : campaigns'[d] # None => d <= started'
        BY <1>1, <2>2 DEF CampaignsInv
  <2>4. InOwnCampaign'
        BY <1>1, <2>1, <2>2 DEF CampaignsInv, InOwnCampaign
  <2> QED BY <2>3, <2>4 DEF CampaignsInv
<1> QED BY <1>1, <1>6, <1>8, <1>9 DEF ClaimsInv, RowsInv
-------------------------------------------------------------------------------
LEMMA PurgeQrInv ==
    ASSUME IInv, NEW p \in Principals, NEW q \in QrIds, NEW override \in BOOLEAN,
           PurgeQr(p, q, override)
    PROVE  IInv'
<1> USE DEF IInv
<1>1. /\ qrs' = [qrs EXCEPT ![q] = None]
      /\ purged' = purged \union {q}
      /\ UNCHANGED <<users, campaigns, inserted, started, scanned, cache, req, claims, moved>>
      BY DEF PurgeQr
<1>2. TypeOK'
      BY <1>1 DEF TypeOK
<1>3. \A i \in QrIds : qrs'[i] = IF i = q THEN None ELSE qrs[i]
      BY <1>1 DEF TypeOK
<1>4. ClaimsInv'
  <2>1. \A a \in claims : a[2] \in QrIds
        BY DEF TypeOK
  <2> QED BY <1>1, <1>3, <2>1 DEF ClaimsInv
<1>5. RequestsInv'
      BY <1>1 DEF RequestsInv, SeenOK, CampaignOK, Holders
<1> QED BY <1>1, <1>2, <1>3, <1>4, <1>5 DEF RowsInv, CampaignsInv, InOwnCampaign

(* Campaigns that go, one or all of a user, leave no reference behind: the    *)
(* codes are set to none, and creations find them missing.                    *)
LEMMA PurgedCampaigns ==
    ASSUME IInv, NEW gone \in SUBSET CampaignIds,
           campaigns' = [c \in CampaignIds |-> IF c \in gone THEN None ELSE campaigns[c]],
           DropReferences(gone), users' \subseteq users,
           UNCHANGED <<inserted, started, scanned, cache, req, claims, purged, moved>>
    PROVE  IInv'
<1> USE DEF IInv
<1>1. ASSUME NEW q \in QrIds
      PROVE  /\ qrs'[q] \in Qr \union {None}
             /\ (qrs'[q] = None) = (qrs[q] = None)
             /\ qrs[q] # None =>
                   /\ qrs'[q].code = qrs[q].code /\ qrs'[q].owner = qrs[q].owner
                   /\ qrs'[q].campaign = IF qrs[q].campaign \in gone THEN None
                                         ELSE qrs[q].campaign
  <2>1. qrs'[q] = IF qrs[q] # None /\ qrs[q].campaign \in gone
                  THEN [qrs[q] EXCEPT !.campaign = None] ELSE qrs[q]
        BY DEF DropReferences
  <2>2. CASE qrs[q] # None /\ qrs[q].campaign \in gone
    <3>1. qrs[q] \in Qr
          BY <2>2 DEF TypeOK
    <3>2. PICK row \in Qr : row = [qrs[q] EXCEPT !.campaign = None]
          BY <3>1 DEF Qr
    <3>3. row.code = qrs[q].code /\ row.owner = qrs[q].owner /\ row.campaign = None
          BY <3>1, <3>2 DEF Qr
    <3> QED BY <2>1, <2>2, <3>2, <3>3, NoneAssumption
  <2>3. CASE ~ (qrs[q] # None /\ qrs[q].campaign \in gone)
        BY <2>1, <2>3 DEF TypeOK
  <2> QED BY <2>2, <2>3
<1>2. TypeOK'
  <2>1. qrs' \in [QrIds -> Qr \union {None}]
        BY <1>1 DEF DropReferences
  <2> QED BY <2>1 DEF TypeOK
<1>3. \A c \in CampaignIds : campaigns'[c] = IF c \in gone THEN None ELSE campaigns[c]
      OBVIOUS
<1>4. ClaimsInv'
  <2>1. \A a \in claims : a[2] \in QrIds
        BY DEF TypeOK
  <2> QED BY <1>1, <2>1 DEF ClaimsInv
<1>5. RowsInv'
      BY <1>1 DEF RowsInv
<1>6. RequestsInv'
  <2> SUFFICES ASSUME NEW r \in Requests, req[r] # None
               PROVE  SeenOK(req[r])' /\ CampaignOK(req[r])'
      BY DEF RequestsInv
  <2>1. req[r].campaign # None => req[r].campaign \in CampaignIds
        BY DEF TypeOK, Creation
  <2> QED BY <1>3, <2>1 DEF RequestsInv, SeenOK, CampaignOK, Holders
<1>7. CampaignsInv'
  <2>1. \A q \in QrIds : qrs[q] # None /\ qrs[q].campaign # None =>
           qrs[q].campaign \in CampaignIds
        BY DEF TypeOK, Qr
  <2>2. InOwnCampaign'
    <3> SUFFICES ASSUME NEW q \in QrIds, (qrs[q] # None)', (qrs[q].campaign # None)'
                 PROVE  /\ (campaigns[qrs[q].campaign] # None)'
                        /\ q \notin moved =>
                              (campaigns[qrs[q].campaign].owner = qrs[q].owner)'
        BY DEF InOwnCampaign
    <3>1. /\ qrs[q] # None
          /\ qrs[q].campaign \notin gone /\ qrs[q].campaign # None
          /\ qrs'[q].campaign = qrs[q].campaign /\ qrs'[q].owner = qrs[q].owner
          BY <1>1
    <3>2. campaigns'[qrs'[q].campaign] = campaigns[qrs[q].campaign]
          BY <1>3, <2>1, <3>1
    <3> QED BY <3>1, <3>2 DEF CampaignsInv, InOwnCampaign
  <2> QED BY <1>3, <2>2 DEF CampaignsInv
<1> QED BY <1>2, <1>4, <1>5, <1>6, <1>7

LEMMA PurgeCampaignInv ==
    ASSUME IInv, NEW p \in Principals, NEW c \in CampaignIds, NEW override \in BOOLEAN,
           PurgeCampaign(p, c, override)
    PROVE  IInv'
<1>1. campaigns' = [d \in CampaignIds |-> IF d \in {c} THEN None ELSE campaigns[d]]
      BY DEF PurgeCampaign, IInv, TypeOK
<1> QED BY <1>1, PurgedCampaigns DEF PurgeCampaign

LEMMA PurgeUserInv ==
    ASSUME IInv, NEW p \in Principals, NEW u \in Users, PurgeUser(p, u)
    PROVE  IInv'
BY PurgedCampaigns DEF PurgeUser
-------------------------------------------------------------------------------
LEMMA NextInv == IInv /\ [Next]_vars => IInv'
<1> SUFFICES ASSUME IInv, [Next]_vars
             PROVE  IInv'
    OBVIOUS
<1>1. CASE UNCHANGED vars
      BY <1>1
      DEF vars, rows, IInv, TypeOK, ClaimsInv, RowsInv, RequestsInv, SeenOK, CampaignOK,
          Holders, CampaignsInv, InOwnCampaign
<1>2. CASE Next
      BY <1>2, StartCreateInv, ProbeInv, FetchCodeInv, InsertInv, CreateFailsInv,
         RedirectInv, ExpireInv, LogScanInv, UpdateQrInv, DeleteQrInv,
         CreateCampaignInv, DeleteCampaignInv, PurgeQrInv, PurgeCampaignInv, PurgeUserInv
      DEF Next, CreateStep
<1> QED BY <1>1, <1>2

LEMMA Invariance == Spec => []IInv
BY InitInv, NextInv, PTL DEF Spec

(* Rows, cache and creations have their types: no creation tries more often   *)
(* than max_attempts.                                                         *)
THEOREM TypeCorrect == Spec => []TypeOK
<1>1. IInv => TypeOK
      BY DEF IInv
<1> QED BY <1>1, Invariance, PTL

(* A short code is one QR code's until that is deleted for good.              *)
THEOREM CodeForGood == Spec => []CodeKeepsItsQr
<1>1. ASSUME IInv
      PROVE  CodeKeepsItsQr
  <2>1. ASSUME NEW a \in claims, NEW b \in claims, a[1] = b[1],
               a[2] \notin purged, b[2] \notin purged
        PROVE  a[2] = b[2]
    <3>1. /\ a[2] \in QrIds /\ b[2] \in QrIds
          /\ a = <<a[1], a[2]>> /\ b = <<b[1], b[2]>>
          BY <1>1 DEF IInv, TypeOK
    <3>2. qrs[a[2]] # None /\ qrs[b[2]] # None
          BY <1>1, <2>1 DEF IInv, ClaimsInv
    <3>3. <<qrs[a[2]].code, a[2]>> \in claims /\ <<qrs[b[2]].code, b[2]>> \in claims
          BY <1>1, <3>1, <3>2 DEF IInv, RowsInv
    <3>4. <<qrs[a[2]].code, a[2]>> = a /\ <<qrs[b[2]].code, b[2]>> = b
          BY <1>1, <3>3 DEF IInv, ClaimsInv
    <3>5. qrs[a[2]].code = a[1] /\ qrs[b[2]].code = b[1]
          BY <3>1, <3>4
    <3> QED BY <1>1, <2>1, <3>1, <3>2, <3>5 DEF IInv, RowsInv
  <2> QED BY <1>1, <2>1 DEF IInv, ClaimsInv, CodeKeepsItsQr
<1> QED BY <1>1, Invariance, PTL

(* The unique key turns a creation down only for a row that was committed     *)
(* after the creation's first read.                                           *)
THEOREM LosesCode == Spec => []LosesCodeOnlyByRace
<1>1. ASSUME IInv
      PROVE  LosesCodeOnlyByRace
  <2> SUFFICES ASSUME NEW r \in Requests, NEW q \in QrIds,
                      req[r] # None, req[r].pc = "inserting",
                      qrs[q] # None, qrs[q].code = req[r].code,
                      req[r].view[q] # None
               PROVE  FALSE
      BY DEF LosesCodeOnlyByRace
  <2>1. SeenOK(req[r])
        BY <1>1 DEF IInv, RequestsInv
  <2>2. /\ <<req[r].view[q].code, q>> \in claims
        /\ <<qrs[q].code, q>> \in claims
        BY <1>1, <2>1 DEF SeenOK, IInv, RowsInv
  <2>3. req[r].view[q].code = qrs[q].code
        BY <1>1, <2>2 DEF IInv, ClaimsInv
  <2> QED BY <2>1, <2>3 DEF SeenOK, Holders
<1> QED BY <1>1, Invariance, PTL

(* QR codes are in campaigns of their owners, save where a PATCH put them.    *)
THEOREM OwnCampaign == Spec => []InOwnCampaign
<1>1. IInv => InOwnCampaign
      BY DEF IInv, CampaignsInv
<1> QED BY <1>1, Invariance, PTL

(* Every step of a creation brings it nearer to its end.                      *)
THEOREM CreationEnds == Spec => CreationAdvances
<1>1. ASSUME IInv, [Next]_vars
      PROVE  [\A r \in Requests :
                req[r] # None /\ req'[r] # None /\ req'[r] # req[r]
                    => Remaining(req'[r]) < Remaining(req[r])]_vars
  <2> SUFFICES ASSUME NEW r \in Requests,
                      req[r] # None, req'[r] # None, req'[r] # req[r]
               PROVE  Remaining(req'[r]) < Remaining(req[r])
      OBVIOUS
  <2>1. /\ req[r] \in Creation /\ req[r].attempt \in Nat
        /\ req \in [Requests -> Creation \union {None}]
        BY <1>1, CatalogAssumption DEF IInv, TypeOK, Creation
  <2>2. Probe(r) \/ FetchCode(r)
    <3>1. req' # req
          OBVIOUS
    <3>2. \A q \in Requests, p \in Principals, owner \in Users, c \in CampaignIds \union {None} :
             ~ StartCreate(q, p, owner, c)
          BY <2>1 DEF StartCreate
    <3>3. \A q \in Requests : ~ Insert(q) /\ ~ CreateFails(q)
          BY <2>1 DEF Insert, CreateFails
    <3>4. \A q \in Requests : Probe(q) \/ FetchCode(q) => q = r
          BY <2>1 DEF Probe, FetchCode, Collide
    <3> QED BY <1>1, <3>1, <3>2, <3>3, <3>4
            DEF Next, CreateStep, vars, Redirect, Expire, LogScan, UpdateQr, DeleteQr, WriteQr,
                CreateCampaign, DeleteCampaign, PurgeQr, PurgeCampaign, PurgeUser
  <2>3. req[r].pc \in {"probing", "fetching"}
        BY <2>2 DEF Probe, FetchCode
  <2>4. ASSUME NEW view, Collide(r, view)
        PROVE  req'[r].pc = "probing" /\ req'[r].attempt = req[r].attempt + 1
        BY <2>1, <2>4 DEF Collide, Creation
  <2>5. CASE \E view : Collide(r, view)
        BY <2>1, <2>3, <2>4, <2>5, CatalogAssumption DEF Remaining
  <2>6. CASE Probe(r) /\ ~ \E view : Collide(r, view)
    <3>1. req'[r].pc = "fetching" /\ req'[r].attempt = req[r].attempt /\ req[r].pc = "probing"
          BY <2>1, <2>6 DEF Probe, Creation
    <3> QED BY <2>1, <3>1, CatalogAssumption DEF Remaining
  <2>7. CASE FetchCode(r) /\ ~ \E view : Collide(r, view)
    <3>1. req'[r].pc = "inserting" /\ req'[r].attempt = req[r].attempt /\ req[r].pc = "fetching"
          BY <2>1, <2>7 DEF FetchCode, Creation
    <3> QED BY <2>1, <3>1, CatalogAssumption DEF Remaining
  <2> QED BY <2>2, <2>5, <2>6, <2>7
<1> QED BY <1>1, Invariance, PTL DEF Spec, CreationAdvances
===============================================================================
