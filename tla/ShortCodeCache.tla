----------------------------- MODULE ShortCodeCache -----------------------------
(* One QR code's row and its entry in the Redis short-code cache.  Writers are *)
(* the PATCH, status and DELETE requests, each one database transaction that   *)
(* get_db_session commits after the handler; readers are                       *)
(* QRCodeRepository.resolve_by_short_code calls: the cache first, then the     *)
(* row, then the cache is filled.                                              *)
(*                                                                             *)
(* The database is external: an UPDATE works on the committed row and locks it *)
(* until the transaction ends, and a plain SELECT sees committed rows only.    *)
EXTENDS Naturals, FiniteSets

CONSTANTS
    Writers, Readers,
    MaxWrites,     \* bound on the requests the writers make
    RedisFails,    \* whether cache commands may fail
    None

ASSUME CacheAssumption ==
    /\ MaxWrites \in Nat
    /\ RedisFails \in BOOLEAN

Statuses == {"active", "paused"}

Row == [dest : 0 .. MaxWrites,          \* which destination_url
        status : Statuses,
        deleted : BOOLEAN]

ASSUME NoneAssumption == None \notin Row \union Writers

VARIABLES
    row,      \* the committed row
    lock,     \* the writer whose transaction locks the row
    wpc,      \* where each writer is
    op,       \* what each writer was asked to do
    draft,    \* the row as each writer's transaction will commit it
    cache,    \* the entry under the short code, or None
    rpc,      \* where each reader is
    got,      \* the row a reader fetched and has not stored yet
    writes,   \* how many requests have been made
    past,     \* history: every row ever committed
    raced,    \* history: the entry was stored behind a writer's back
    missed    \* history: an invalidation failed since the last one that did not

dbVars == <<row, lock, draft, past>>
writerVars == <<wpc, op, writes>>
readerVars == <<rpc, got>>
cacheVars == <<cache, raced, missed>>
vars == <<dbVars, writerVars, readerVars, cacheVars>>

Ops == [kind : {"update", "status", "delete"}, dest : 0 .. MaxWrites,
        status : Statuses]

TypeOK ==
    /\ row \in Row
    /\ lock \in Writers \union {None}
    /\ wpc \in [Writers -> {"idle", "checked", "written", "invalidated"}]
    /\ op \in [Writers -> Ops]
    /\ draft \in [Writers -> Row]
    /\ cache \in Row \union {None}
    /\ rpc \in [Readers -> {"idle", "missed", "fetched"}]
    /\ got \in [Readers -> Row]
    /\ writes \in 0 .. MaxWrites
    /\ past \in SUBSET Row
    /\ raced \in BOOLEAN /\ missed \in BOOLEAN

FirstRow == [dest |-> 0, status |-> "active", deleted |-> FALSE]

NoOp == [kind |-> "update", dest |-> 0, status |-> "active"]

Init ==
    /\ row = FirstRow
    /\ lock = None
    /\ wpc = [w \in Writers |-> "idle"]
    /\ op = [w \in Writers |-> NoOp]
    /\ draft = [w \in Writers |-> FirstRow]
    /\ cache = None
    /\ rpc = [r \in Readers |-> "idle"]
    /\ got = [r \in Readers |-> FirstRow]
    /\ writes = 0
    /\ past = {FirstRow}
    /\ raced = FALSE
    /\ missed = FALSE
-------------------------------------------------------------------------------
(* The service finds the row undeleted; otherwise the request is a 404.  The  *)
(* draft is the row of the transaction's snapshot until the UPDATE.           *)
Check(w) ==
    /\ wpc[w] = "idle"
    /\ writes < MaxWrites
    /\ ~row.deleted
    /\ \E o \in Ops :
        /\ o.dest = IF o.kind = "update" THEN writes + 1 ELSE 0
        /\ o.status = "active" \/ o.kind = "status"
        /\ op' = [op EXCEPT ![w] = o]
    /\ draft' = [draft EXCEPT ![w] = row]
    /\ writes' = writes + 1
    /\ wpc' = [wpc EXCEPT ![w] = "checked"]
    /\ UNCHANGED <<row, lock, past, readerVars, cacheVars>>

(* Only the column the request names is assigned; of the fields that PATCH    *)
(* may carry the destination stands for all.                                  *)
Assign(o, r) ==
    CASE o.kind = "update" -> [r EXCEPT !.dest = o.dest]
      [] o.kind = "status" -> [r EXCEPT !.status = o.status]
      [] o.kind = "delete" -> [r EXCEPT !.deleted = TRUE]

(* Mutant: the whole row the service has read is written back.                *)
WriteSnapshot(w) ==
    /\ wpc[w] = "checked"
    /\ lock = None
    /\ lock' = w
    /\ draft' = [draft EXCEPT ![w] =
                    IF row.deleted THEN row ELSE Assign(op[w], draft[w])]
    /\ wpc' = [wpc EXCEPT ![w] = "written"]
    /\ UNCHANGED <<row, past, op, writes, readerVars, cacheVars>>

(* Mutant: the statement relies on the service's check of deleted_at.         *)
WriteUnguarded(w) ==
    /\ wpc[w] = "checked"
    /\ lock = None
    /\ lock' = w
    /\ draft' = [draft EXCEPT ![w] = Assign(op[w], row)]
    /\ wpc' = [wpc EXCEPT ![w] = "written"]
    /\ UNCHANGED <<row, past, op, writes, readerVars, cacheVars>>

(* UPDATE ... WHERE deleted_at IS NULL: it matches nothing when the row was   *)
(* deleted since the check, and waits for the lock of another transaction.    *)
Write(w) ==
    /\ wpc[w] = "checked"
    /\ lock = None
    /\ lock' = w
    /\ draft' = [draft EXCEPT ![w] =
                    IF row.deleted THEN row ELSE Assign(op[w], row)]
    /\ wpc' = [wpc EXCEPT ![w] = "written"]
    /\ UNCHANGED <<row, past, op, writes, readerVars, cacheVars>>

(* Mutant: set_status does not invalidate.                                    *)
InvalidateUnlessStatus(w) ==
    /\ wpc[w] = "written"
    /\ IF op[w].kind = "status"
       THEN UNCHANGED cacheVars
       ELSE cache' = None /\ raced' = FALSE /\ missed' = FALSE
    /\ wpc' = [wpc EXCEPT ![w] = "invalidated"]
    /\ UNCHANGED <<dbVars, op, writes, readerVars>>

(* DEL of the entry, before the commit.  An update that matched nothing still *)
(* reads the row from its old snapshot and deletes the entry; a delete that   *)
(* matched nothing does not.  A RedisError is swallowed.                      *)
Invalidate(w) ==
    /\ wpc[w] = "written"
    /\ \/ /\ op[w].kind = "delete" /\ row.deleted
          /\ UNCHANGED cacheVars
       \/ /\ ~(op[w].kind = "delete" /\ row.deleted)
          /\ cache' = None
          /\ raced' = FALSE
          /\ missed' = FALSE
       \/ /\ ~(op[w].kind = "delete" /\ row.deleted)
          /\ RedisFails
          /\ missed' = TRUE
          /\ UNCHANGED <<cache, raced>>
    /\ wpc' = [wpc EXCEPT ![w] = "invalidated"]
    /\ UNCHANGED <<dbVars, op, writes, readerVars>>

(* The request is over; its draft and its operation are forgotten.            *)
Finish(w) ==
    /\ lock' = IF lock = w THEN None ELSE lock
    /\ wpc' = [wpc EXCEPT ![w] = "idle"]
    /\ draft' = [draft EXCEPT ![w] = FirstRow]
    /\ op' = [op EXCEPT ![w] = NoOp]
    /\ UNCHANGED <<writes, readerVars, cacheVars>>

Commit(w) ==
    /\ wpc[w] = "invalidated"
    /\ row' = draft[w]
    /\ past' = past \union {draft[w]}
    /\ Finish(w)

(* The request fails, its process dies or the commit is refused.              *)
Rollback(w) ==
    /\ wpc[w] # "idle"
    /\ Finish(w)
    /\ UNCHANGED <<row, past>>
-------------------------------------------------------------------------------
(* GET; an entry found is served and nothing else happens.                    *)
Lookup(r) ==
    /\ rpc[r] = "idle"
    /\ cache = None \/ RedisFails
    /\ rpc' = [rpc EXCEPT ![r] = "missed"]
    /\ UNCHANGED <<dbVars, writerVars, got, cacheVars>>

(* Mutant: the SELECT sees what a writer has not committed yet.               *)
FetchUncommitted(r) ==
    /\ rpc[r] = "missed"
    /\ got' = [got EXCEPT ![r] = IF lock = None THEN row ELSE draft[lock]]
    /\ rpc' = [rpc EXCEPT ![r] = "fetched"]
    /\ UNCHANGED <<dbVars, writerVars, cacheVars>>

(* Mutant: the SELECT leaves deleted rows out, and its None is stored.        *)
FetchFiltered(r) ==
    /\ rpc[r] = "missed"
    /\ got' = [got EXCEPT ![r] = IF row.deleted THEN None ELSE row]
    /\ rpc' = [rpc EXCEPT ![r] = "fetched"]
    /\ UNCHANGED <<dbVars, writerVars, cacheVars>>

Fetch(r) ==
    /\ rpc[r] = "missed"
    /\ got' = [got EXCEPT ![r] = row]
    /\ rpc' = [rpc EXCEPT ![r] = "fetched"]
    /\ UNCHANGED <<dbVars, writerVars, cacheVars>>

(* A writer is between its invalidation and its commit.                       *)
AboutToCommit == \E w \in Writers : wpc[w] = "invalidated"

(* SETEX of the payload.  json.dumps raises on the deleted_at of a deleted    *)
(* row, and set_cached_short_code swallows that as it does a RedisError.      *)
Store(r) ==
    /\ rpc[r] = "fetched"
    /\ \/ /\ ~got[r].deleted
          /\ cache' = got[r]
          /\ raced' = (got[r] # row \/ AboutToCommit)
          /\ UNCHANGED missed
       \/ /\ got[r].deleted \/ RedisFails
          /\ UNCHANGED cacheVars
    /\ rpc' = [rpc EXCEPT ![r] = "idle"]
    /\ got' = [got EXCEPT ![r] = FirstRow]
    /\ UNCHANGED <<dbVars, writerVars>>

(* Mutant: entries are stored without a TTL.                                  *)
ExpireNever ==
    /\ cache # None
    /\ FALSE
    /\ UNCHANGED vars

(* The TTL runs out.                                                          *)
Expire ==
    /\ cache # None
    /\ cache' = None
    /\ raced' = FALSE
    /\ UNCHANGED <<dbVars, writerVars, readerVars, missed>>

WriterStep(w) == Write(w) \/ Invalidate(w) \/ Commit(w)

ReaderStep(r) == Fetch(r) \/ Store(r)

Next ==
    \/ \E w \in Writers : Check(w) \/ WriterStep(w) \/ Rollback(w)
    \/ \E r \in Readers : Lookup(r) \/ ReaderStep(r)
    \/ Expire

Spec == Init /\ [][Next]_vars

(* A request that has been accepted goes on, and Redis expires entries.       *)
FairSpec ==
    /\ Spec
    /\ \A w \in Writers : WF_vars(WriterStep(w))
    /\ \A r \in Readers : WF_vars(ReaderStep(r))
    /\ WF_vars(Expire)
-------------------------------------------------------------------------------
Stale == cache # None /\ cache # row

(* The cache holds, and a reader is about to store, only what was committed   *)
(* at some time, and no entry is of a deleted row: a rolled back change is    *)
(* never served.                                                              *)
CacheSound ==
    /\ cache # None => cache \in past /\ ~cache.deleted
    /\ \A r \in Readers : rpc[r] = "fetched" => got[r] \in past

(* An entry differs from the row only if a reader stored it after the row had *)
(* changed or while a change was about to be committed, or an invalidation    *)
(* failed.  Invalidating before the commit is safe in every other order.      *)
StaleOnlyByRace == Stale => raced \/ missed

(* No transaction changes a deleted row, although update_qr decides that it   *)
(* may before it holds the lock.                                              *)
DeletedIsFinal == [][row.deleted => row' = row]_vars

(* A commit changes what its request named and nothing else: of two requests  *)
(* that change different columns at the same time neither undoes the other.   *)
OneColumnPerCommit ==
    [][row' # row =>
        Cardinality({c \in DOMAIN row : row'[c] # row[c]}) = 1]_vars

(* Once the writes are over, the cache agrees with the row from some time on. *)
EventuallyCoherent == <>[]~Stale

(* At rest - nobody between two steps - the cache agrees with the row.        *)
CoherentAtRest ==
    (\A w \in Writers : wpc[w] = "idle") /\ (\A r \in Readers : rpc[r] = "idle")
        => ~Stale
===============================================================================
