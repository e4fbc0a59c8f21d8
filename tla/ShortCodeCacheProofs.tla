-------------------------- MODULE ShortCodeCacheProofs --------------------------
(* Proofs, for any writers, readers and number of writes, whether Redis fails  *)
(* or not, of the safety properties of ShortCodeCache.                         *)
EXTENDS ShortCodeCache, FiniteSetTheorems, TLAPS

(* What a transaction that has run its UPDATE will commit.                     *)
Written(w) == IF row.deleted THEN row ELSE Assign(op[w], row)

(* Only the transaction that has the lock is past its UPDATE, and the row is   *)
(* still the one it worked on.                                                 *)
LockInv ==
    \A w \in Writers :
        wpc[w] \in {"written", "invalidated"} => lock = w /\ draft[w] = Written(w)

(* An entry that neither a race nor a failed invalidation has put there is of  *)
(* the committed row, and nobody is about to commit another.                   *)
FreshInv ==
    cache # None /\ ~raced /\ ~missed =>
        cache = row /\ \A w \in Writers : wpc[w] # "invalidated"

IInv == TypeOK /\ LockInv /\ FreshInv /\ row \in past /\ CacheSound
-------------------------------------------------------------------------------
(* An assignment changes a row into a row, in one column.                      *)
LEMMA AssignFacts ==
    ASSUME NEW o \in Ops, NEW r \in Row
    PROVE  /\ Assign(o, r) \in Row
           /\ Assign(o, r).deleted = (r.deleted \/ o.kind = "delete")
           /\ DOMAIN r = {"dest", "status", "deleted"}
           /\ \E column \in DOMAIN r :
                \A c \in DOMAIN r : c # column => Assign(o, r)[c] = r[c]
<1>1. /\ DOMAIN r = {"dest", "status", "deleted"}
      /\ r.dest \in 0 .. MaxWrites /\ r.status \in Statuses /\ r.deleted \in BOOLEAN
      /\ r = [dest |-> r.dest, status |-> r.status, deleted |-> r.deleted]
      BY DEF Row
<1>2. o.kind \in {"update", "status", "delete"} /\ o.dest \in 0 .. MaxWrites /\ o.status \in Statuses
      BY DEF Ops
<1>3. CASE o.kind = "update"
  <2>1. Assign(o, r) = [r EXCEPT !.dest = o.dest]
        BY <1>3 DEF Assign
  <2> QED BY <1>1, <1>2, <1>3, <2>1 DEF Row
<1>4. CASE o.kind = "status"
  <2>1. Assign(o, r) = [r EXCEPT !.status = o.status]
        BY <1>4 DEF Assign
  <2> QED BY <1>1, <1>2, <1>4, <2>1 DEF Row
<1>5. CASE o.kind = "delete"
  <2>1. Assign(o, r) = [r EXCEPT !.deleted = TRUE]
        BY <1>5 DEF Assign
  <2> QED BY <1>1, <1>2, <1>5, <2>1 DEF Row
<1> QED BY <1>2, <1>3, <1>4, <1>5

LEMMA InitInv == Init => IInv
<1>1. FirstRow \in Row /\ NoOp \in Ops
      BY CacheAssumption DEF FirstRow, NoOp, Row, Ops, Statuses
<1>2. ASSUME Init
      PROVE  TypeOK
  <2>1. /\ row \in Row /\ lock \in Writers \union {None} /\ cache \in Row \union {None}
        /\ writes \in 0 .. MaxWrites /\ past \in SUBSET Row
        BY <1>1, <1>2, CacheAssumption DEF Init
  <2>2. /\ op \in [Writers -> Ops] /\ draft \in [Writers -> Row]
        /\ got \in [Readers -> Row]
        BY <1>1, <1>2 DEF Init
  <2>3. /\ wpc \in [Writers -> {"idle", "checked", "written", "invalidated"}]
        /\ rpc \in [Readers -> {"idle", "missed", "fetched"}]
        BY <1>2 DEF Init
  <2>4. raced \in BOOLEAN /\ missed \in BOOLEAN
        BY <1>2 DEF Init
  <2> QED BY <2>1, <2>2, <2>3, <2>4 DEF TypeOK
<1>3. ASSUME Init
      PROVE  LockInv /\ FreshInv /\ row \in past /\ CacheSound
      BY <1>3 DEF Init, LockInv, FreshInv, CacheSound
<1> QED BY <1>2, <1>3 DEF IInv
-------------------------------------------------------------------------------
LEMMA CheckInv ==
    ASSUME IInv, NEW w \in Writers, Check(w)
    PROVE  IInv'
<1> USE DEF IInv
<1>1. PICK o \in Ops : op' = [op EXCEPT ![w] = o]
      BY DEF Check
<1>2. /\ wpc[w] = "idle" /\ writes < MaxWrites
      /\ draft' = [draft EXCEPT ![w] = row]
      /\ writes' = writes + 1
      /\ wpc' = [wpc EXCEPT ![w] = "checked"]
      /\ UNCHANGED <<row, lock, past, readerVars, cacheVars>>
      BY DEF Check
<1>3. TypeOK'
      BY <1>1, <1>2, CacheAssumption DEF TypeOK, readerVars, cacheVars
<1>4. LockInv'
      BY <1>1, <1>2 DEF TypeOK, LockInv, Written
<1>5. FreshInv' /\ CacheSound'
      BY <1>2 DEF TypeOK, FreshInv, CacheSound, readerVars, cacheVars
<1> QED BY <1>2, <1>3, <1>4, <1>5

LEMMA WriteInv ==
    ASSUME IInv, NEW w \in Writers, Write(w)
    PROVE  IInv'
<1> USE DEF IInv
<1>1. /\ wpc[w] = "checked" /\ lock = None /\ lock' = w
      /\ draft' = [draft EXCEPT ![w] = Written(w)]
      /\ wpc' = [wpc EXCEPT ![w] = "written"]
      /\ UNCHANGED <<row, past, op, writes, readerVars, cacheVars>>
      BY DEF Write, Written
<1>2. Written(w) \in Row
      BY AssignFacts DEF Written, TypeOK
<1>3. TypeOK'
      BY <1>1, <1>2 DEF TypeOK, readerVars, cacheVars
<1>4. LockInv'
  <2>1. \A v \in Writers : wpc[v] \notin {"written", "invalidated"}
        BY <1>1, NoneAssumption DEF LockInv
  <2> QED BY <1>1, <2>1 DEF TypeOK, LockInv, Written
<1>5. FreshInv' /\ CacheSound'
      BY <1>1 DEF TypeOK, FreshInv, CacheSound, readerVars, cacheVars
<1> QED BY <1>1, <1>3, <1>4, <1>5

(* The one case in which the entry stays is that of a row already deleted,    *)
(* of which there is no fresh entry.                                          *)
LEMMA InvalidateInv ==
    ASSUME IInv, NEW w \in Writers, Invalidate(w)
    PROVE  IInv'
<1> USE DEF IInv
<1>1. /\ wpc[w] = "written"
      /\ wpc' = [wpc EXCEPT ![w] = "invalidated"]
      /\ UNCHANGED <<dbVars, op, writes, readerVars>>
      BY DEF Invalidate
<1>2. \/ row.deleted /\ UNCHANGED cacheVars
      \/ cache' = None /\ raced' = FALSE /\ missed' = FALSE
      \/ missed' = TRUE /\ UNCHANGED <<cache, raced>>
      BY DEF Invalidate
<1>3. TypeOK'
      BY <1>1, <1>2 DEF TypeOK, dbVars, readerVars, cacheVars
<1>4. LockInv'
      BY <1>1 DEF TypeOK, LockInv, Written, dbVars
<1>5. CacheSound'
      BY <1>1, <1>2 DEF CacheSound, dbVars, readerVars, cacheVars
<1>6. FreshInv'
      BY <1>1, <1>2 DEF FreshInv, CacheSound, dbVars, cacheVars
<1> QED BY <1>1, <1>3, <1>4, <1>5, <1>6 DEF dbVars

(* The end of a request, however it ends.                                     *)
LEMMA FinishInv ==
    ASSUME IInv, NEW w \in Writers, Finish(w),
           \/ UNCHANGED <<row, past>>
           \/ /\ wpc[w] = "invalidated"
              /\ row' = draft[w] /\ past' = past \union {draft[w]}
    PROVE  IInv'
<1> USE DEF IInv
<1>1. /\ lock' = IF lock = w THEN None ELSE lock
      /\ wpc' = [wpc EXCEPT ![w] = "idle"]
      /\ draft' = [draft EXCEPT ![w] = FirstRow]
      /\ op' = [op EXCEPT ![w] = NoOp]
      /\ UNCHANGED <<writes, readerVars, cacheVars>>
      BY DEF Finish
<1>2. FirstRow \in Row /\ NoOp \in Ops
      BY CacheAssumption DEF FirstRow, NoOp, Row, Ops, Statuses
<1>3. row' \in Row /\ past' \in SUBSET Row /\ row' \in past' /\ past \subseteq past'
      BY DEF TypeOK
<1>4. TypeOK'
      BY <1>1, <1>2, <1>3 DEF TypeOK, readerVars, cacheVars
<1>5. CacheSound'
      BY <1>1, <1>3 DEF CacheSound, readerVars, cacheVars
<1>6. LockInv'
  <2> SUFFICES ASSUME NEW v \in Writers, wpc'[v] \in {"written", "invalidated"}
               PROVE  lock' = v /\ (draft[v] = Written(v))'
      BY DEF LockInv
  <2>1. /\ v # w /\ wpc[v] \in {"written", "invalidated"}
        /\ draft'[v] = draft[v] /\ op'[v] = op[v]
        BY <1>1 DEF TypeOK
  <2>2. lock = v /\ draft[v] = Written(v)
        BY <2>1 DEF LockInv
  <2>3. row' = row
        BY <2>1, <2>2 DEF LockInv
  <2> QED BY <1>1, <2>1, <2>2, <2>3 DEF Written
<1>7. FreshInv'
  <2>1. CASE UNCHANGED row
        BY <1>1, <2>1 DEF TypeOK, FreshInv, cacheVars
  <2>2. CASE wpc[w] = "invalidated"
        BY <1>1, <2>2 DEF FreshInv, cacheVars
  <2> QED BY <2>1, <2>2
<1> QED BY <1>3, <1>4, <1>5, <1>6, <1>7
-------------------------------------------------------------------------------
LEMMA LookupInv ==
    ASSUME IInv, NEW r \in Readers, Lookup(r)
    PROVE  IInv'
BY DEF Lookup, IInv, TypeOK, LockInv, Written, FreshInv, CacheSound, dbVars,
       writerVars, cacheVars

LEMMA FetchInv ==
    ASSUME IInv, NEW r \in Readers, Fetch(r)
    PROVE  IInv'
BY DEF Fetch, IInv, TypeOK, LockInv, Written, FreshInv, CacheSound, dbVars,
       writerVars, cacheVars

LEMMA StoreInv ==
    ASSUME IInv, NEW r \in Readers, Store(r)
    PROVE  IInv'
<1> USE DEF IInv
<1>1. /\ rpc[r] = "fetched"
      /\ rpc' = [rpc EXCEPT ![r] = "idle"]
      /\ got' = [got EXCEPT ![r] = FirstRow]
      /\ UNCHANGED <<dbVars, writerVars>>
      BY DEF Store
<1>2. \/ /\ ~got[r].deleted /\ cache' = got[r]
         /\ raced' = (got[r] # row \/ AboutToCommit)
         /\ missed' = missed
      \/ UNCHANGED cacheVars
      BY DEF Store
<1>3. FirstRow \in Row
      BY CacheAssumption DEF FirstRow, Row, Statuses
<1>4. TypeOK'
      BY <1>1, <1>2, <1>3 DEF TypeOK, dbVars, writerVars, cacheVars
<1>5. LockInv'
      BY <1>1 DEF LockInv, Written, dbVars, writerVars
<1>6. CacheSound'
      BY <1>1, <1>2 DEF TypeOK, CacheSound, dbVars, cacheVars
<1>7. FreshInv'
  <2>1. CASE UNCHANGED cacheVars
        BY <1>1, <2>1 DEF FreshInv, dbVars, writerVars, cacheVars
  <2>2. CASE cache' = got[r] /\ raced' = (got[r] # row \/ AboutToCommit)
    <3>1. ~raced' => cache' = row /\ \A w \in Writers : wpc[w] # "invalidated"
          BY <2>2 DEF AboutToCommit
    <3> QED BY <1>1, <3>1 DEF FreshInv, dbVars, writerVars
  <2> QED BY <1>2, <2>1, <2>2
<1> QED BY <1>1, <1>4, <1>5, <1>6, <1>7 DEF dbVars

LEMMA ExpireInv ==
    ASSUME IInv, Expire
    PROVE  IInv'
BY DEF Expire, IInv, TypeOK, LockInv, Written, FreshInv, CacheSound, dbVars,
       writerVars, readerVars
-------------------------------------------------------------------------------
LEMMA NextInv == IInv /\ [Next]_vars => IInv'
<1> SUFFICES ASSUME IInv, [Next]_vars
             PROVE  IInv'
    OBVIOUS
<1>1. CASE UNCHANGED vars
      BY <1>1 DEF vars, IInv, TypeOK, LockInv, Written, FreshInv, CacheSound, dbVars,
                  writerVars, readerVars, cacheVars
<1>2. ASSUME NEW w \in Writers, Commit(w) \/ Rollback(w)
      PROVE  IInv'
      BY <1>2, FinishInv DEF Commit, Rollback
<1>3. CASE Next
      BY <1>2, <1>3, CheckInv, WriteInv, InvalidateInv, LookupInv, FetchInv, StoreInv,
         ExpireInv DEF Next, WriterStep, ReaderStep
<1> QED BY <1>1, <1>3

LEMMA Invariance == Spec => []IInv
BY InitInv, NextInv, PTL DEF Spec

(* Only a commit changes the row, and to what its transaction has written.    *)
LEMMA RowStep ==
    ASSUME IInv, [Next]_vars, row' # row
    PROVE  \E w \in Writers : ~row.deleted /\ row' = Assign(op[w], row)
<1>1. PICK w \in Writers : Commit(w)
      BY DEF Next, WriterStep, ReaderStep, Check, Write, Invalidate, Rollback, Lookup,
             Fetch, Store, Expire, vars, dbVars
<1>2. row' = Written(w)
      BY <1>1 DEF Commit, IInv, LockInv
<1> QED BY <1>2 DEF Written

(* Row, transactions, readers and entry have their types.                     *)
THEOREM TypeCorrect == Spec => []TypeOK
<1>1. IInv => TypeOK
      BY DEF IInv
<1> QED BY <1>1, Invariance, PTL

(* Only committed, undeleted rows are ever cached.                            *)
THEOREM SoundCache == Spec => []CacheSound
<1>1. IInv => CacheSound
      BY DEF IInv
<1> QED BY <1>1, Invariance, PTL

(* Every stale entry was stored in a race or missed by an invalidation that   *)
(* failed.                                                                    *)
THEOREM StaleByRace == Spec => []StaleOnlyByRace
<1>1. IInv => StaleOnlyByRace
      BY DEF IInv, FreshInv, StaleOnlyByRace, Stale
<1> QED BY <1>1, Invariance, PTL

(* No request changes a deleted row, whenever it checked.                     *)
THEOREM DeletedStays == Spec => DeletedIsFinal
<1>1. IInv /\ [Next]_vars => [row.deleted => row' = row]_vars
      BY RowStep
<1> QED BY <1>1, Invariance, PTL DEF Spec, DeletedIsFinal

(* A commit changes one column.                                               *)
THEOREM OneColumn == Spec => OneColumnPerCommit
<1>1. ASSUME IInv, [Next]_vars
      PROVE  [row' # row =>
                Cardinality({c \in DOMAIN row : row'[c] # row[c]}) = 1]_vars
  <2> SUFFICES ASSUME row' # row
               PROVE  Cardinality({c \in DOMAIN row : row'[c] # row[c]}) = 1
      OBVIOUS
  <2>1. PICK w \in Writers : row' = Assign(op[w], row)
        BY <1>1, RowStep
  <2>2. /\ row \in Row /\ row' \in Row
        /\ DOMAIN row = {"dest", "status", "deleted"}
        /\ \E column \in DOMAIN row :
              \A c \in DOMAIN row : c # column => row'[c] = row[c]
        BY <1>1, <2>1, AssignFacts DEF IInv, TypeOK
  <2>3. PICK column \in DOMAIN row :
            \A c \in DOMAIN row : c # column => row'[c] = row[c]
        BY <2>2
  <2>4. row'[column] # row[column]
        BY <2>2, <2>3 DEF Row
  <2>5. {c \in DOMAIN row : row'[c] # row[c]} = {column}
        BY <2>3, <2>4
  <2> QED BY <2>5, FS_Singleton
<1> QED BY <1>1, Invariance, PTL DEF Spec, OneColumnPerCommit
================================================================================
