-------------------------- MODULE ScanPipelineProofs --------------------------
(* Proofs, for any scans, workers, retry limit and faults, of the safety      *)
(* properties of ScanPipeline.                                                *)
EXTENDS ScanPipeline, TLAPS


(* A scan that some copy may still change: nothing final has happened to it.  *)
Unsettled(s) ==
    /\ served[s] # "no"
    /\ rows[s] = unknown[s]
    /\ ~Buried(s)

(* A waiting message is of an unsettled scan, it carries the number of        *)
(* failures so far, and it is newer than every copy being processed.          *)
QueueInv ==
    \A i \in 1 .. Len(queue) :
        /\ Unsettled(queue[i].scan)
        /\ queue[i].attempt = failures[queue[i].scan]
        /\ \A m \in processing :
            m.scan = queue[i].scan => m.attempt < queue[i].attempt

FailuresAt(w) ==
    msg[w].attempt + IF pc[w] \in {"retrying", "burying"} THEN 1 ELSE 0

HoldOK(w) ==
    /\ Unsettled(msg[w].scan)
    /\ failures[msg[w].scan] = FailuresAt(w)
    /\ pc[w] = "retrying" => msg[w].attempt < MaxRetries
    /\ pc[w] = "burying" => msg[w].attempt = MaxRetries
    /\ pc[w] = "rejecting" => msg[w].attempt = 0
    /\ pc[w] # "rejecting" => msg[w].scan \notin InvalidScans
    /\ \A m \in processing :
        m.scan = msg[w].scan => m = msg[w] \/ m.attempt < msg[w].attempt

HoldInv == \A w \in Workers : pc[w] \in Undecided => HoldOK(w)

InvalidInv == \A s \in InvalidScans : failures[s] = 0

(* Every worker's message is in the processing list, and no two have the same.*)
OwnerInv ==
    /\ \A w \in Workers : pc[w] \in Busy => msg[w] \in processing
    /\ \A w, v \in Workers :
        pc[w] \in Busy /\ pc[v] \in Busy /\ msg[w] = msg[v] => w = v

FreshInv ==
    \A s \in Scans :
        served[s] = "no" =>
            /\ rows[s] = 0 /\ failures[s] = 0 /\ unknown[s] = 0
            /\ ~Processing(s) /\ ~Buried(s)

CountInv ==
    \A s \in Scans :
        /\ rows[s] \in {unknown[s], unknown[s] + 1}
        /\ Buried(s) => rows[s] = unknown[s]

(* What is acknowledged next has been handed over already.                    *)
AckOK(w) ==
    \/ rows[msg[w].scan] > 0
    \/ Buried(msg[w].scan)
    \/ Queued(msg[w].scan)
    \/ \E n \in processing :
        n.scan = msg[w].scan /\ n.attempt > msg[w].attempt

AckInv == \A w \in Workers : pc[w] = "acking" => AckOK(w)

IInv ==
    /\ TypeOK
    /\ OneLiveCopy
    /\ QueueInv
    /\ HoldInv
    /\ InvalidInv
    /\ OwnerInv
    /\ FreshInv
    /\ CountInv
    /\ ExhaustedAfterEveryTry
    /\ AckInv
    /\ NoScanVanishes
-------------------------------------------------------------------------------
(* What the two queue operations do to the positions of a sequence.           *)
LEMMA AppendFacts ==
    ASSUME NEW S, NEW q \in Seq(S), NEW e \in S
    PROVE  /\ Append(q, e) \in Seq(S)
           /\ Len(Append(q, e)) = Len(q) + 1
           /\ \A i \in 1 .. Len(q) : Append(q, e)[i] = q[i]
           /\ Append(q, e)[Len(q) + 1] = e
  OBVIOUS

LEMMA TailFacts ==
    ASSUME NEW S, NEW q \in Seq(S), q # <<>>
    PROVE  /\ Tail(q) \in Seq(S)
           /\ Len(q) \in Nat /\ Len(q) >= 1
           /\ Len(Tail(q)) = Len(q) - 1
           /\ \A i \in 1 .. Len(q) - 1 : Tail(q)[i] = q[i + 1]
           /\ Head(q) = q[1] /\ q[1] \in S
  OBVIOUS

LEMMA ElementFacts ==
    ASSUME QueueTypeOK
    PROVE  /\ \A i \in 1 .. Len(queue) : queue[i] \in Message
           /\ \A i \in 1 .. Len(queue) : queue[i].scan \in Scans
           /\ \A m \in processing : m \in Message /\ m.scan \in Scans
<1>1. \A i \in 1 .. Len(queue) : queue[i] \in Message
  BY DEF QueueTypeOK
<1>2. \A m \in Message : m.scan \in Scans
  BY DEF Message
<1>. QED  BY <1>1, <1>2 DEF QueueTypeOK

LEMMA InitInv == Init => IInv
  BY PipelineAssumption, MaxRetriesAssumption DEF Init, QueueInit, IInv, TypeOK, QueueTypeOK, OneLiveCopy,
     QueueInv, HoldInv, InvalidInv, OwnerInv, FreshInv, CountInv, WorkersOK,
     ExhaustedAfterEveryTry, AckInv, NoScanVanishes, Holds, Undecided, Busy,
     Labels, Processing, Buried, Queued, PipelineAssumption

(* The worker that moves is the only one that changes.                        *)
LEMMA MoveFacts ==
    ASSUME WorkersOK, NEW w \in Workers, NEW l \in Labels, NEW x,
           \/ l \in Busy /\ x \in Message
           \/ l \notin Busy /\ x = NoMsg,
           pc' = [pc EXCEPT ![w] = l], msg' = [msg EXCEPT ![w] = x]
    PROVE  /\ WorkersOK'
           /\ pc'[w] = l /\ msg'[w] = x
           /\ \A v \in Workers \ {w} : pc'[v] = pc[v] /\ msg'[v] = msg[v]
<1>1. NoMsg \notin Message
  BY PipelineAssumption DEF PipelineAssumption
<1>2. /\ pc'[w] = l /\ msg'[w] = x
      /\ \A v \in Workers \ {w} : pc'[v] = pc[v] /\ msg'[v] = msg[v]
  BY DEF WorkersOK
<1>3. pc' \in [Workers -> Labels] /\ msg' \in [Workers -> Message \union {NoMsg}]
  BY DEF WorkersOK
<1>4. pc'[w] \in Busy <=> msg'[w] # NoMsg
  BY <1>1, <1>2
<1>5. \A v \in Workers : pc'[v] \in Busy <=> msg'[v] # NoMsg
  BY <1>2, <1>4 DEF WorkersOK
<1>. QED  BY <1>2, <1>3, <1>5 DEF WorkersOK

LEMMA ProceedFacts ==
    ASSUME WorkersOK, NEW w \in Workers, NEW l \in Labels, NEW x,
           \/ l \in Busy /\ x \in Message
           \/ l \notin Busy /\ x = NoMsg,
           Proceed(w, l, x)
    PROVE  /\ WorkersOK'
           /\ \/ pc'[w] = l /\ msg'[w] = x
              \/ pc'[w] = "down" /\ msg'[w] = NoMsg
           /\ \A v \in Workers \ {w} : pc'[v] = pc[v] /\ msg'[v] = msg[v]
<1>1. CASE pc' = [pc EXCEPT ![w] = l] /\ msg' = [msg EXCEPT ![w] = x]
  <2>1. /\ WorkersOK'
        /\ pc'[w] = l /\ msg'[w] = x
        /\ \A v \in Workers \ {w} : pc'[v] = pc[v] /\ msg'[v] = msg[v]
    BY <1>1, MoveFacts
  <2>. QED  BY <2>1
<1>2. CASE pc' = [pc EXCEPT ![w] = "down"] /\ msg' = [msg EXCEPT ![w] = NoMsg]
  <2>1. "down" \in Labels /\ "down" \notin Busy
    BY DEF Labels, Busy, Undecided
  <2>2. /\ WorkersOK'
        /\ pc'[w] = "down" /\ msg'[w] = NoMsg
        /\ \A v \in Workers \ {w} : pc'[v] = pc[v] /\ msg'[v] = msg[v]
    BY <1>2, <2>1, MoveFacts
  <2>. QED  BY <2>2
<1>3. \/ pc' = [pc EXCEPT ![w] = l] /\ msg' = [msg EXCEPT ![w] = x]
      \/ pc' = [pc EXCEPT ![w] = "down"] /\ msg' = [msg EXCEPT ![w] = NoMsg]
  BY DEF Proceed
<1>. QED  BY <1>1, <1>2, <1>3

(* Taking the oldest message: its taker is the only one that can act on it.   *)
LEMMA ReceiveInv ==
    ASSUME IInv, NEW w \in Workers, Receive(w)
    PROVE  IInv'
<1>1. PICK m \in Message :
        /\ queue # <<>> /\ m = Head(queue)
        /\ queue' = Tail(queue)
        /\ processing' = processing \union {m}
        /\ Proceed(w, IF m.scan \in InvalidScans
                      THEN "rejecting" ELSE "persisting", m)
  BY DEF Receive, Dequeue
<1>2. /\ pc[w] = "idle" /\ deadLetters' = deadLetters
      /\ served' = served /\ rows' = rows
      /\ failures' = failures /\ unknown' = unknown
  BY DEF Receive, Dequeue, logVars
<1>3. TypeOK /\ WorkersOK /\ QueueTypeOK /\ m.scan \in Scans
  BY <1>1 DEF IInv, TypeOK, Message
<1>4. /\ WorkersOK'
      /\ \/ /\ pc'[w] = IF m.scan \in InvalidScans
                        THEN "rejecting" ELSE "persisting"
            /\ msg'[w] = m
         \/ pc'[w] = "down" /\ msg'[w] = NoMsg
      /\ \A v \in Workers \ {w} : pc'[v] = pc[v] /\ msg'[v] = msg[v]
  BY <1>1, <1>3, ProceedFacts DEF Labels, Busy, Undecided
<1>5. /\ queue' \in Seq(Message) /\ Len(queue) \in Nat /\ Len(queue) >= 1
      /\ Len(queue') = Len(queue) - 1
      /\ \A i \in 1 .. Len(queue') :
            i + 1 \in 1 .. Len(queue) /\ queue'[i] = queue[i + 1]
      /\ m = queue[1] /\ 1 \in 1 .. Len(queue)
  BY <1>1, <1>3, TailFacts DEF QueueTypeOK
<1>6. /\ Unsettled(m.scan) /\ m.attempt = failures[m.scan]
      /\ \A n \in processing : n.scan = m.scan => n.attempt < m.attempt
  BY <1>5 DEF IInv, QueueInv
<1>7. m \notin processing
  BY <1>6 DEF Message
<1>8. \A i \in 1 .. Len(queue') : queue'[i].scan # m.scan
  BY <1>5 DEF IInv, OneLiveCopy
<1>9. \A s \in Scans :
        /\ Unsettled(s)' <=> Unsettled(s)
        /\ Buried(s)' <=> Buried(s)
        /\ Processing(s)' <=> Processing(s) \/ s = m.scan
        /\ Queued(s)' => Queued(s) /\ s # m.scan
  BY <1>1, <1>2, <1>5, <1>8 DEF Unsettled, Buried, Processing, Queued
<1>10. \A s \in Scans : Queued(s) => Queued(s)' \/ s = m.scan
  <2>. SUFFICES ASSUME NEW s \in Scans, NEW i \in 1 .. Len(queue),
                       queue[i].scan = s, s # m.scan
                PROVE  Queued(s)'
    BY DEF Queued
  <2>1. i - 1 \in 1 .. Len(queue') /\ queue'[i - 1] = queue[i]
    BY <1>5
  <2>. QED  BY <2>1 DEF Queued
<1>11. TypeOK'
  BY <1>1, <1>2, <1>3, <1>4, <1>5 DEF TypeOK, QueueTypeOK
<1>12. \A v \in Workers :
        pc'[v] \in Busy =>
            \/ v = w /\ msg'[v] = m
            \/ v # w /\ pc[v] \in Busy /\ pc'[v] = pc[v] /\ msg'[v] = msg[v]
  BY <1>4 DEF Busy, Undecided
<1>13. OneLiveCopy'
  <2>1. \A i, j \in 1 .. Len(queue') : queue'[i].scan = queue'[j].scan => i = j
    BY <1>5 DEF IInv, OneLiveCopy
  <2>2. Queued(m.scan)
    BY <1>5 DEF Queued
  <2>3. \A v \in Workers, s \in Scans :
            Holds(v, s)' => \/ Holds(v, s) /\ s # m.scan
                            \/ v = w /\ s = m.scan
    BY <1>3, <1>12, <2>2 DEF IInv, OneLiveCopy, Holds, Busy
  <2>. QED  BY <2>1, <2>3, <1>9 DEF IInv, OneLiveCopy
<1>14. QueueInv'
  BY <1>1, <1>2, <1>5, <1>8 DEF IInv, QueueInv, Unsettled, Buried
<1>15. HoldInv'
  <2>. SUFFICES ASSUME NEW v \in Workers, pc'[v] \in Undecided
                PROVE  HoldOK(v)'
    BY DEF HoldInv
  <2>1. CASE v = w
    <3>1. msg'[w] = m /\ pc'[w] = IF m.scan \in InvalidScans
                                  THEN "rejecting" ELSE "persisting"
      BY <1>4, <2>1 DEF Undecided
    <3>2. m.scan \in InvalidScans => m.attempt = 0
      BY <1>3, <1>6 DEF IInv, InvalidInv
    <3>3. FailuresAt(w)' = m.attempt
      BY <3>1, <1>6 DEF FailuresAt, Message
    <3>. QED  BY <1>1, <1>2, <1>3, <1>6, <1>9, <2>1, <3>1, <3>2, <3>3 DEF HoldOK
  <2>2. CASE v # w
    <3>1. pc'[v] = pc[v] /\ msg'[v] = msg[v] /\ pc[v] \in Undecided
      BY <1>4, <2>2
    <3>2. HoldOK(v) /\ msg[v] \in Message /\ msg[v].scan \in Scans
      BY <3>1, <1>3 DEF IInv, HoldInv, OwnerInv, QueueTypeOK, Busy, Message
    <3>3. msg[v].scan # m.scan
      BY <1>5, <3>1, <3>2 DEF IInv, OneLiveCopy, Holds, Queued
    <3>. QED  BY <1>1, <1>2, <1>9, <3>1, <3>2, <3>3 DEF HoldOK, FailuresAt
  <2>. QED  BY <2>1, <2>2
<1>16. InvalidInv' /\ CountInv' /\ ExhaustedAfterEveryTry'
  BY <1>2 DEF IInv, InvalidInv, CountInv, ExhaustedAfterEveryTry, Buried
<1>17. OwnerInv'
  BY <1>1, <1>7, <1>12 DEF IInv, OwnerInv
<1>18. FreshInv'
  BY <1>2, <1>6, <1>9 DEF IInv, FreshInv, Unsettled
<1>19. AckInv'
  <2>. SUFFICES ASSUME NEW v \in Workers, pc'[v] = "acking"
                PROVE  AckOK(v)'
    BY DEF AckInv
  <2>1. pc[v] = "acking" /\ v # w /\ msg[v] \in processing
    BY <1>2, <1>4 DEF IInv, OwnerInv, Busy
  <2>2. msg[v] \in Message /\ msg[v].scan \in Scans
    BY <1>3, <2>1 DEF QueueTypeOK, Message
  <2>3. CASE msg[v].scan = m.scan
    <3>1. msg[v].attempt < m.attempt /\ m \in processing'
      BY <1>1, <1>6, <2>1, <2>3
    <3>. QED  BY <1>4, <2>1, <2>2, <2>3, <3>1 DEF AckOK, Message
  <2>4. CASE msg[v].scan # m.scan
    <3>1. AckOK(v)
      BY <2>1 DEF IInv, AckInv
    <3>2. processing \subseteq processing'
      BY <1>1
    <3>3. msg'[v] = msg[v]
      BY <1>4, <2>1
    <3>4. Queued(msg[v].scan) => Queued(msg[v].scan)'
      BY <1>10, <2>2, <2>4, <3>3 DEF Queued
    <3>. QED  BY <1>2, <3>1, <3>2, <3>3, <3>4 DEF AckOK, Buried
  <2>. QED  BY <2>3, <2>4
<1>20. NoScanVanishes'
  BY <1>2, <1>9, <1>10 DEF IInv, NoScanVanishes
<1>. QED  BY <1>11, <1>13, <1>14, <1>15, <1>16, <1>17, <1>18, <1>19, <1>20 DEF IInv

(* A worker that lets go of its message, by failing, dying or being started   *)
(* again, leaves the message where it is.                                     *)
LEMMA StopInv ==
    ASSUME IInv, NEW w \in Workers,
           CommandFails(w) \/ Crash(w) \/ Restart(w)
    PROVE  IInv'
<1>1. /\ queue' = queue /\ processing' = processing /\ deadLetters' = deadLetters
      /\ served' = served /\ rows' = rows
      /\ failures' = failures /\ unknown' = unknown
  BY DEF CommandFails, Crash, Restart, queueVars, logVars
<1>2. WorkersOK
  BY DEF IInv, TypeOK
<1>3. /\ WorkersOK' /\ pc'[w] \notin Busy
      /\ \A v \in Workers \ {w} : pc'[v] = pc[v] /\ msg'[v] = msg[v]
  <2>1. CASE CommandFails(w) \/ Crash(w)
    <3>1. /\ pc' = [pc EXCEPT ![w] = "down"] /\ msg' = [msg EXCEPT ![w] = NoMsg]
          /\ "down" \in Labels /\ "down" \notin Busy
      BY <2>1 DEF CommandFails, Crash, Labels, Busy, Undecided
    <3>. QED  BY <1>2, <3>1, MoveFacts
  <2>2. CASE Restart(w)
    <3>1. msg[w] = NoMsg
      BY <1>2, <2>2 DEF Restart, WorkersOK, Busy, Undecided
    <3>2. msg' = [msg EXCEPT ![w] = NoMsg]
      BY <1>2, <2>2, <3>1 DEF Restart, WorkersOK
    <3>3. /\ pc' = [pc EXCEPT ![w] = "idle"]
          /\ "idle" \in Labels /\ "idle" \notin Busy
      BY <2>2 DEF Restart, Labels, Busy, Undecided
    <3>. QED  BY <1>2, <3>2, <3>3, MoveFacts
  <2>. QED  BY <2>1, <2>2
<1>4. \A v \in Workers :
        pc'[v] \in Busy => pc[v] \in Busy /\ pc'[v] = pc[v] /\ msg'[v] = msg[v]
  BY <1>3
<1>5. \A s : /\ Queued(s)' <=> Queued(s)
             /\ Processing(s)' <=> Processing(s)
             /\ Buried(s)' <=> Buried(s)
             /\ Unsettled(s)' <=> Unsettled(s)
  BY <1>1 DEF Queued, Processing, Buried, Unsettled
<1>6. TypeOK'
  BY <1>1, <1>3 DEF IInv, TypeOK, QueueTypeOK
<1>7. OneLiveCopy'
  BY <1>1, <1>4, <1>5 DEF IInv, OneLiveCopy, Holds, Busy
<1>8. QueueInv' /\ InvalidInv' /\ CountInv' /\ ExhaustedAfterEveryTry'
  BY <1>1, <1>5 DEF IInv, QueueInv, InvalidInv, CountInv, ExhaustedAfterEveryTry
<1>9. HoldInv'
  <2>. SUFFICES ASSUME NEW v \in Workers, pc'[v] \in Undecided
                PROVE  HoldOK(v)'
    BY DEF HoldInv
  <2>1. pc'[v] = pc[v] /\ msg'[v] = msg[v]
    BY <1>4 DEF Busy
  <2>2. HoldOK(v)
    BY <2>1 DEF IInv, HoldInv
  <2>. QED  BY <1>1, <1>5, <2>1, <2>2 DEF HoldOK, FailuresAt
<1>10. OwnerInv'
  BY <1>1, <1>4 DEF IInv, OwnerInv
<1>11. FreshInv' /\ NoScanVanishes'
  BY <1>1, <1>5 DEF IInv, FreshInv, NoScanVanishes
<1>12. AckInv'
  <2>. SUFFICES ASSUME NEW v \in Workers, pc'[v] = "acking"
                PROVE  AckOK(v)'
    BY DEF AckInv
  <2>1. pc[v] = "acking" /\ msg'[v] = msg[v]
    BY <1>4 DEF Busy
  <2>. QED  BY <1>1, <1>5, <2>1 DEF IInv, AckInv, AckOK
<1>. QED  BY <1>6, <1>7, <1>8, <1>9, <1>10, <1>11, <1>12 DEF IInv

(* A commit settles the scan; its message is only acknowledged from here on.  *)
LEMMA CommitInv ==
    ASSUME IInv, NEW w \in Workers, Commit(w)
    PROVE  IInv'
<1>. DEFINE s == msg[w].scan
<1>1. /\ queue' = queue /\ processing' = processing /\ deadLetters' = deadLetters
      /\ served' = served /\ msg' = msg
      /\ failures' = failures /\ unknown' = unknown
      /\ pc[w] = "persisting" /\ pc' = [pc EXCEPT ![w] = "acking"]
      /\ rows' = [rows EXCEPT ![s] = @ + 1]
  BY DEF Commit, queueVars
<1>2. TypeOK /\ WorkersOK
  BY DEF IInv, TypeOK
<1>3. pc[w] \in Undecided /\ pc[w] \in Busy
  BY <1>1 DEF Undecided, Busy
<1>4. /\ HoldOK(w) /\ msg[w] \in processing
      /\ msg[w] \in Message /\ s \in Scans
  BY <1>2, <1>3 DEF IInv, HoldInv, OwnerInv, TypeOK, QueueTypeOK, Message
<1>5. /\ rows'[s] = rows[s] + 1 /\ rows[s] = unknown[s] /\ served[s] # "no"
      /\ \A r \in Scans \ {s} : rows'[r] = rows[r]
      /\ \A r \in Scans : rows[r] \in Nat /\ unknown[r] \in Nat
  BY <1>1, <1>2, <1>4 DEF TypeOK, HoldOK, Unsettled
<1>6. /\ WorkersOK' /\ pc'[w] = "acking"
      /\ \A v \in Workers \ {w} : pc'[v] = pc[v]
  <2>1. "acking" \in Labels /\ "acking" \in Busy
    BY DEF Labels, Busy
  <2>2. msg' = [msg EXCEPT ![w] = msg[w]]
    BY <1>1, <1>2 DEF WorkersOK
  <2>3. /\ WorkersOK' /\ pc'[w] = "acking" /\ msg'[w] = msg[w]
        /\ \A v \in Workers \ {w} : pc'[v] = pc[v] /\ msg'[v] = msg[v]
    BY <1>1, <1>2, <1>4, <2>1, <2>2, MoveFacts
  <2>. QED  BY <2>3
<1>7. \A v \in Workers :
        /\ pc'[v] \in Undecided => v # w /\ pc'[v] = pc[v] /\ pc[v] \in Undecided
        /\ pc'[v] \in Busy => pc[v] \in Busy
  BY <1>3, <1>6 DEF Undecided
<1>8. \A r : /\ Queued(r)' <=> Queued(r)
             /\ Processing(r)' <=> Processing(r)
             /\ Buried(r)' <=> Buried(r)
  BY <1>1 DEF Queued, Processing, Buried
<1>9. \A r \in Scans \ {s} : Unsettled(r)' <=> Unsettled(r)
  BY <1>1, <1>5, <1>8 DEF Unsettled
<1>10. ~Queued(s) /\ ~Buried(s)
  BY <1>3, <1>4 DEF IInv, OneLiveCopy, Holds, HoldOK, Unsettled
<1>11. TypeOK'
  <2>1. rows' \in [Scans -> Nat]
    BY <1>1, <1>2, <1>4 DEF TypeOK
  <2>. QED  BY <1>1, <1>2, <1>6, <2>1 DEF TypeOK, QueueTypeOK
<1>12. OneLiveCopy'
  BY <1>1, <1>7, <1>8 DEF IInv, OneLiveCopy, Holds
<1>13. QueueInv'
  <2>. SUFFICES ASSUME NEW i \in 1 .. Len(queue)
                PROVE  Unsettled(queue[i].scan)'
    BY <1>1 DEF IInv, QueueInv, Unsettled
  <2>1. queue[i].scan \in Scans
    BY <1>2, ElementFacts DEF TypeOK
  <2>2. queue[i].scan # s
    BY <1>10 DEF Queued
  <2>. QED  BY <1>1, <1>9, <2>1, <2>2 DEF IInv, QueueInv, Unsettled
<1>14. HoldInv'
  <2>. SUFFICES ASSUME NEW v \in Workers, pc'[v] \in Undecided
                PROVE  HoldOK(v)'
    BY DEF HoldInv
  <2>1. v # w /\ pc'[v] = pc[v] /\ pc[v] \in Undecided
    BY <1>7
  <2>2. HoldOK(v) /\ msg[v].scan \in Scans
    BY <1>2, <2>1 DEF IInv, HoldInv, OwnerInv, TypeOK, QueueTypeOK, Busy, Message
  <2>3. msg[v].scan # s
    BY <1>3, <1>4, <2>1, <2>2 DEF IInv, OneLiveCopy, Holds
  <2>4. Unsettled(msg[v].scan)'
    BY <1>1, <1>9, <2>2, <2>3 DEF HoldOK, Unsettled
  <2>. QED  BY <1>1, <2>1, <2>2, <2>4 DEF HoldOK, FailuresAt
<1>15. InvalidInv' /\ ExhaustedAfterEveryTry'
  BY <1>1 DEF IInv, InvalidInv, ExhaustedAfterEveryTry
<1>16. OwnerInv'
  BY <1>1, <1>7 DEF IInv, OwnerInv
<1>17. FreshInv'
  BY <1>1, <1>5, <1>8 DEF IInv, FreshInv
<1>18. CountInv'
  BY <1>1, <1>5, <1>8, <1>10 DEF IInv, CountInv
<1>19. AckInv'
  <2>. SUFFICES ASSUME NEW v \in Workers, pc'[v] = "acking"
                PROVE  AckOK(v)'
    BY DEF AckInv
  <2>1. CASE v = w
    <3>1. rows'[s] > 0
      BY <1>4, <1>5
    <3>. QED  BY <1>1, <2>1, <3>1 DEF AckOK
  <2>2. CASE v # w
    <3>1. AckOK(v) /\ msg[v].scan \in Scans
      BY <1>2, <1>6, <2>2 DEF IInv, AckInv, OwnerInv, TypeOK, QueueTypeOK, Busy, Message
    <3>2. rows[msg[v].scan] > 0 => rows'[msg[v].scan] > 0
      BY <1>5, <3>1
    <3>. QED  BY <1>1, <1>8, <3>1, <3>2 DEF AckOK
  <2>. QED  BY <2>1, <2>2
<1>20. NoScanVanishes'
  BY <1>1, <1>5, <1>8 DEF IInv, NoScanVanishes
<1>. QED  BY <1>11, <1>12, <1>13, <1>14, <1>15, <1>16, <1>17, <1>18, <1>19, <1>20 DEF IInv

(* A failed attempt is counted once, in the history and in where the worker   *)
(* goes next.                                                                 *)
LEMMA FailInv ==
    ASSUME IInv, NEW w \in Workers, FailToPersist(w)
    PROVE  IInv'
<1>. DEFINE s == msg[w].scan
<1>1. /\ queue' = queue /\ processing' = processing /\ deadLetters' = deadLetters
      /\ served' = served /\ msg' = msg
      /\ failures' = [failures EXCEPT ![s] = @ + 1]
      /\ pc[w] = "persisting" /\ pc' = [pc EXCEPT ![w] = OnFailure(msg[w])]
      /\ \/ rows' = rows /\ unknown' = unknown
         \/ /\ rows' = [rows EXCEPT ![s] = @ + 1]
            /\ unknown' = [unknown EXCEPT ![s] = @ + 1]
  BY DEF FailToPersist, queueVars
<1>2. TypeOK /\ WorkersOK /\ QueueTypeOK
  BY DEF IInv, TypeOK
<1>3. pc[w] \in Undecided /\ pc[w] \in Busy
  BY <1>1 DEF Undecided, Busy
<1>4. /\ HoldOK(w) /\ msg[w] \in processing
      /\ msg[w] \in Message /\ s \in Scans
  BY <1>2, <1>3, ElementFacts DEF IInv, HoldInv, OwnerInv
<1>5. /\ failures'[s] = failures[s] + 1 /\ failures[s] = msg[w].attempt
      /\ rows'[s] = unknown'[s] /\ rows'[s] >= rows[s]
      /\ served[s] # "no" /\ s \notin InvalidScans
      /\ \A r \in Scans \ {s} : /\ rows'[r] = rows[r]
                                /\ unknown'[r] = unknown[r]
                                /\ failures'[r] = failures[r]
      /\ \A r \in Scans : rows[r] \in Nat /\ unknown[r] \in Nat /\ failures[r] \in Nat
  BY <1>1, <1>2, <1>4 DEF TypeOK, HoldOK, Unsettled, FailuresAt, Message
<1>6. /\ WorkersOK' /\ pc'[w] = OnFailure(msg[w])
      /\ \A v \in Workers \ {w} : pc'[v] = pc[v]
  <2>1. OnFailure(msg[w]) \in Labels /\ OnFailure(msg[w]) \in Busy
    BY DEF Labels, Busy, Undecided, OnFailure
  <2>2. /\ pc' = [pc EXCEPT ![w] = OnFailure(msg[w])]
        /\ msg' = [msg EXCEPT ![w] = msg[w]]
    BY <1>1, <1>2 DEF WorkersOK
  <2>3. /\ WorkersOK' /\ pc'[w] = OnFailure(msg[w]) /\ msg'[w] = msg[w]
        /\ \A v \in Workers \ {w} : pc'[v] = pc[v] /\ msg'[v] = msg[v]
    BY <1>2, <1>4, <2>1, <2>2, MoveFacts
  <2>. QED  BY <2>3
<1>7. \A v \in Workers :
        /\ pc'[v] \in Undecided => pc[v] \in Undecided
        /\ pc'[v] \in Busy => pc[v] \in Busy
  BY <1>3, <1>6
<1>8. \A r : /\ Queued(r)' <=> Queued(r)
             /\ Processing(r)' <=> Processing(r)
             /\ Buried(r)' <=> Buried(r)
  BY <1>1 DEF Queued, Processing, Buried
<1>9. \A r \in Scans : Unsettled(r) => Unsettled(r)'
  BY <1>1, <1>5, <1>8 DEF Unsettled
<1>10. ~Queued(s) /\ ~Buried(s)
  BY <1>3, <1>4 DEF IInv, OneLiveCopy, Holds, HoldOK, Unsettled
<1>11. TypeOK'
  <2>1. /\ rows' \in [Scans -> Nat] /\ unknown' \in [Scans -> Nat]
        /\ failures' \in [Scans -> Nat]
    BY <1>1, <1>2, <1>4 DEF TypeOK
  <2>. QED  BY <1>1, <1>2, <1>6, <2>1 DEF TypeOK, QueueTypeOK
<1>12. OneLiveCopy'
  BY <1>1, <1>7, <1>8 DEF IInv, OneLiveCopy, Holds
<1>13. QueueInv'
  <2>. SUFFICES ASSUME NEW i \in 1 .. Len(queue)
                PROVE  /\ Unsettled(queue[i].scan)'
                       /\ failures'[queue[i].scan] = failures[queue[i].scan]
    BY <1>1 DEF IInv, QueueInv, Unsettled
  <2>1. queue[i].scan \in Scans
    BY <1>2, ElementFacts
  <2>2. queue[i].scan # s
    BY <1>10 DEF Queued
  <2>. QED  BY <1>1, <1>5, <1>9, <2>1, <2>2 DEF IInv, QueueInv, Unsettled
<1>14. HoldInv'
  <2>. SUFFICES ASSUME NEW v \in Workers, pc'[v] \in Undecided
                PROVE  HoldOK(v)'
    BY DEF HoldInv
  <2>1. HoldOK(v) /\ msg[v].scan \in Scans
    BY <1>2, <1>7, ElementFacts DEF IInv, HoldInv, OwnerInv, Busy
  <2>2. Unsettled(msg[v].scan)'
    BY <1>1, <1>9, <2>1 DEF HoldOK, Unsettled
  <2>3. CASE v = w
    <3>1. failures'[s] = FailuresAt(w)'
      BY <1>1, <1>5, <1>6 DEF FailuresAt, OnFailure
    <3>2. /\ pc'[w] = "retrying" => msg[w].attempt < MaxRetries
          /\ pc'[w] = "burying" => msg[w].attempt = MaxRetries
          /\ pc'[w] # "rejecting"
      BY <1>4, <1>6, MaxRetriesAssumption DEF OnFailure, Message
    <3>. QED  BY <1>1, <1>5, <2>1, <2>2, <2>3, <3>1, <3>2 DEF HoldOK
  <2>4. CASE v # w
    <3>1. pc'[v] = pc[v] /\ pc[v] \in Undecided
      BY <1>6, <2>4
    <3>2. msg[v].scan # s
      BY <1>3, <1>4, <2>4, <3>1 DEF IInv, OneLiveCopy, Holds
    <3>3. failures'[msg[v].scan] = failures[msg[v].scan]
      BY <1>5, <2>1, <3>2
    <3>. QED  BY <1>1, <2>1, <2>2, <3>1, <3>3 DEF HoldOK, FailuresAt
  <2>. QED  BY <2>3, <2>4
<1>15. InvalidInv'
  BY <1>5, PipelineAssumption DEF IInv, InvalidInv, PipelineAssumption
<1>16. ExhaustedAfterEveryTry'
  <2>. SUFFICES ASSUME NEW d \in deadLetters
                PROVE  failures'[d.message.scan] = failures[d.message.scan]
    BY <1>1 DEF IInv, ExhaustedAfterEveryTry
  <2>1. d.message.scan \in Scans
    BY <1>2 DEF QueueTypeOK, DeadLetter, Message
  <2>2. d.message.scan # s
    BY <1>10 DEF Buried
  <2>. QED  BY <1>5, <2>1, <2>2
<1>17. OwnerInv'
  BY <1>1, <1>7 DEF IInv, OwnerInv
<1>18. FreshInv'
  BY <1>1, <1>5, <1>8 DEF IInv, FreshInv
<1>19. CountInv'
  BY <1>1, <1>5, <1>8, <1>10 DEF IInv, CountInv
<1>20. AckInv'
  <2>. SUFFICES ASSUME NEW v \in Workers, pc'[v] = "acking"
                PROVE  AckOK(v)'
    BY DEF AckInv
  <2>1. v # w
    BY <1>6 DEF OnFailure
  <2>2. AckOK(v) /\ msg[v].scan \in Scans
    BY <1>2, <1>6, <2>1, ElementFacts DEF IInv, AckInv, OwnerInv, Busy
  <2>3. rows[msg[v].scan] > 0 => rows'[msg[v].scan] > 0
    <3>1. CASE msg[v].scan = s
      BY <1>1, <1>2, <1>4, <3>1 DEF TypeOK
    <3>2. CASE msg[v].scan # s
      BY <1>5, <2>2, <3>2
    <3>. QED  BY <3>1, <3>2
  <2>. QED  BY <1>1, <1>8, <2>2, <2>3 DEF AckOK
<1>21. NoScanVanishes'
  <2>1. \A r \in Scans : rows[r] > 0 => rows'[r] > 0
    BY <1>1, <1>2, <1>4 DEF TypeOK
  <2>. QED  BY <1>1, <1>8, <2>1 DEF IInv, NoScanVanishes
<1>. QED  BY <1>11, <1>12, <1>13, <1>14, <1>15, <1>16, <1>17, <1>18, <1>19, <1>20, <1>21 DEF IInv

(* The retry takes the place of the copy the worker was to act on.            *)
LEMMA RetryInv ==
    ASSUME IInv, NEW w \in Workers, Retry(w)
    PROVE  IInv'
<1>. DEFINE s == msg[w].scan
            n == NextMessage(msg[w])
<1>1. /\ queue' = Append(queue, n)
      /\ processing' = processing /\ deadLetters' = deadLetters
      /\ served' = served /\ rows' = rows
      /\ failures' = failures /\ unknown' = unknown
      /\ pc[w] = "retrying" /\ Proceed(w, "acking", msg[w])
  BY DEF Retry, Enqueue, logVars
<1>2. TypeOK /\ WorkersOK /\ QueueTypeOK
  BY DEF IInv, TypeOK
<1>3. pc[w] \in Undecided /\ pc[w] \in Busy
  BY <1>1 DEF Undecided, Busy
<1>4. /\ HoldOK(w) /\ msg[w] \in processing
      /\ msg[w] \in Message /\ s \in Scans
  BY <1>2, <1>3, ElementFacts DEF IInv, HoldInv, OwnerInv
<1>5. /\ n \in Message /\ n.scan = s /\ n.attempt = msg[w].attempt + 1
      /\ failures[s] = n.attempt /\ Unsettled(s)
  BY <1>1, <1>4, MaxRetriesAssumption
  DEF NextMessage, Message, HoldOK, FailuresAt
<1>6. /\ queue' \in Seq(Message) /\ Len(queue) \in Nat
      /\ Len(queue') = Len(queue) + 1
      /\ \A i \in 1 .. Len(queue) : queue'[i] = queue[i]
      /\ queue'[Len(queue) + 1] = n
  BY <1>1, <1>2, <1>5, AppendFacts DEF QueueTypeOK
<1>7. /\ WorkersOK'
      /\ \/ pc'[w] = "acking" /\ msg'[w] = msg[w]
         \/ pc'[w] = "down" /\ msg'[w] = NoMsg
      /\ \A v \in Workers \ {w} : pc'[v] = pc[v] /\ msg'[v] = msg[v]
  <2>1. "acking" \in Labels /\ "acking" \in Busy
    BY DEF Labels, Busy
  <2>. QED  BY <1>1, <1>2, <1>4, <2>1, ProceedFacts
<1>8. \A v \in Workers :
        /\ pc'[v] \in Undecided =>
            v # w /\ pc'[v] = pc[v] /\ pc[v] \in Undecided /\ msg'[v] = msg[v]
        /\ pc'[v] \in Busy => pc[v] \in Busy /\ msg'[v] = msg[v]
  BY <1>3, <1>7 DEF Undecided, Busy
<1>9. \A r : /\ Queued(r)' <=> Queued(r) \/ r = s
             /\ Processing(r)' <=> Processing(r)
             /\ Buried(r)' <=> Buried(r)
             /\ Unsettled(r)' <=> Unsettled(r)
  <2>1. \A r : Queued(r)' <=> Queued(r) \/ r = s
    BY <1>5, <1>6 DEF Queued
  <2>. QED  BY <1>1, <2>1 DEF Processing, Buried, Unsettled
<1>10. ~Queued(s) /\ ~Buried(s)
  BY <1>3, <1>4 DEF IInv, OneLiveCopy, Holds, HoldOK, Unsettled
<1>11. TypeOK'
  BY <1>1, <1>2, <1>6, <1>7 DEF TypeOK, QueueTypeOK
<1>12. OneLiveCopy'
  <2>1. \A i, j \in 1 .. Len(queue') : queue'[i].scan = queue'[j].scan => i = j
    BY <1>5, <1>6, <1>10 DEF IInv, OneLiveCopy, Queued
  <2>2. \A v \in Workers, r \in Scans : Holds(v, r)' => v # w /\ Holds(v, r)
    BY <1>8 DEF Holds
  <2>3. \A v \in Workers, r \in Scans : v # w /\ Holds(v, r) => r # s
    BY <1>3, <1>4 DEF IInv, OneLiveCopy, Holds
  <2>. QED  BY <1>9, <2>1, <2>2, <2>3 DEF IInv, OneLiveCopy
<1>13. QueueInv'
  <2>. SUFFICES ASSUME NEW i \in 1 .. Len(queue')
                PROVE  /\ Unsettled(queue'[i].scan)
                       /\ queue'[i].attempt = failures[queue'[i].scan]
                       /\ \A m \in processing : m.scan = queue'[i].scan =>
                                                m.attempt < queue'[i].attempt
    BY <1>1 DEF QueueInv, Unsettled, Buried
  <2>1. CASE i \in 1 .. Len(queue)
    BY <1>6, <2>1 DEF IInv, QueueInv
  <2>2. CASE i = Len(queue) + 1
    <3>1. \A m \in processing : m.scan = s => m.attempt < n.attempt
      BY <1>2, <1>4, <1>5, ElementFacts DEF HoldOK, Message
    <3>. QED  BY <1>5, <1>6, <2>2, <3>1
  <2>. QED  BY <1>6, <2>1, <2>2
<1>14. HoldInv'
  <2>. SUFFICES ASSUME NEW v \in Workers, pc'[v] \in Undecided
                PROVE  HoldOK(v)'
    BY DEF HoldInv
  <2>1. pc'[v] = pc[v] /\ msg'[v] = msg[v] /\ HoldOK(v)
    BY <1>8 DEF IInv, HoldInv
  <2>. QED  BY <1>1, <1>9, <2>1 DEF HoldOK, FailuresAt
<1>15. InvalidInv' /\ CountInv' /\ ExhaustedAfterEveryTry'
  BY <1>1, <1>9 DEF IInv, InvalidInv, CountInv, ExhaustedAfterEveryTry
<1>16. OwnerInv'
  BY <1>1, <1>8 DEF IInv, OwnerInv
<1>17. FreshInv'
  BY <1>1, <1>9 DEF IInv, FreshInv
<1>18. AckInv'
  <2>. SUFFICES ASSUME NEW v \in Workers, pc'[v] = "acking"
                PROVE  AckOK(v)'
    BY DEF AckInv
  <2>1. CASE v = w
    <3>1. msg'[w] = msg[w]
      BY <1>7, <2>1
    <3>2. \E i \in 1 .. Len(queue') : queue'[i].scan = s
      BY <1>5, <1>6
    <3>. QED  BY <2>1, <3>1, <3>2 DEF AckOK, Queued
  <2>2. CASE v # w
    <3>1. AckOK(v) /\ msg'[v] = msg[v]
      BY <1>7, <2>2 DEF IInv, AckInv
    <3>2. Queued(msg[v].scan) =>
            \E i \in 1 .. Len(queue') : queue'[i].scan = msg[v].scan
      BY <1>6 DEF Queued
    <3>. QED  BY <1>1, <1>9, <3>1, <3>2 DEF AckOK, Buried, Queued
  <2>. QED  BY <2>1, <2>2
<1>19. NoScanVanishes'
  BY <1>1, <1>9 DEF IInv, NoScanVanishes
<1>. QED  BY <1>11, <1>12, <1>13, <1>14, <1>15, <1>16, <1>17, <1>18, <1>19 DEF IInv

(* An acknowledged message was handed over before.                            *)
LEMMA AcknowledgeInv ==
    ASSUME IInv, NEW w \in Workers, Acknowledge(w)
    PROVE  IInv'
<1>. DEFINE m == msg[w]
<1>1. /\ queue' = queue /\ deadLetters' = deadLetters
      /\ processing' = processing \ {m}
      /\ served' = served /\ rows' = rows
      /\ failures' = failures /\ unknown' = unknown
      /\ pc[w] = "acking" /\ Proceed(w, "idle", NoMsg)
  BY DEF Acknowledge, Ack, logVars
<1>2. TypeOK /\ WorkersOK /\ QueueTypeOK
  BY DEF IInv, TypeOK
<1>3. /\ m \in processing /\ m \in Message /\ m.scan \in Scans /\ AckOK(w)
      /\ pc[w] \in Busy
  BY <1>1, <1>2, ElementFacts DEF IInv, OwnerInv, AckInv, Busy
<1>4. /\ WorkersOK' /\ pc'[w] \notin Busy
      /\ \A v \in Workers \ {w} : pc'[v] = pc[v] /\ msg'[v] = msg[v]
  <2>1. /\ "idle" \in Labels /\ "idle" \notin Busy
        /\ "down" \in Labels /\ "down" \notin Busy
    BY DEF Labels, Busy, Undecided
  <2>. QED  BY <1>1, <1>2, <2>1, ProceedFacts
<1>5. \A v \in Workers :
        pc'[v] \in Busy =>
            /\ v # w /\ pc[v] \in Busy /\ pc'[v] = pc[v] /\ msg'[v] = msg[v]
            /\ msg[v] \in processing'
  BY <1>1, <1>3, <1>4 DEF IInv, OwnerInv
<1>6. \A r : /\ Queued(r)' <=> Queued(r)
             /\ Processing(r)' => Processing(r)
             /\ Buried(r)' <=> Buried(r)
             /\ Unsettled(r)' <=> Unsettled(r)
  BY <1>1 DEF Queued, Processing, Buried, Unsettled
<1>7. TypeOK'
  BY <1>1, <1>2, <1>4 DEF TypeOK, QueueTypeOK
<1>8. OneLiveCopy'
  BY <1>1, <1>5, <1>6 DEF IInv, OneLiveCopy, Holds, Busy
<1>9. QueueInv' /\ InvalidInv' /\ CountInv' /\ ExhaustedAfterEveryTry'
  BY <1>1, <1>6 DEF IInv, QueueInv, InvalidInv, CountInv, ExhaustedAfterEveryTry
<1>10. HoldInv'
  <2>. SUFFICES ASSUME NEW v \in Workers, pc'[v] \in Undecided
                PROVE  HoldOK(v)'
    BY DEF HoldInv
  <2>1. pc'[v] = pc[v] /\ msg'[v] = msg[v]
    BY <1>5 DEF Busy
  <2>2. HoldOK(v)
    BY <2>1 DEF IInv, HoldInv
  <2>. QED  BY <1>1, <1>6, <2>1, <2>2 DEF HoldOK, FailuresAt
<1>11. OwnerInv'
  BY <1>5 DEF IInv, OwnerInv
<1>12. FreshInv'
  BY <1>1, <1>6 DEF IInv, FreshInv
<1>13. AckInv'
  <2>. SUFFICES ASSUME NEW v \in Workers, pc'[v] = "acking"
                PROVE  AckOK(v)'
    BY DEF AckInv
  <2>1. /\ AckOK(v) /\ msg'[v] = msg[v]
        /\ msg[v] \in Message /\ msg[v].scan \in Scans
    BY <1>2, <1>5, ElementFacts DEF IInv, AckInv, OwnerInv, Busy
  <2>2. CASE /\ m.scan = msg[v].scan /\ m.attempt > msg[v].attempt
             /\ ~(rows[m.scan] > 0 \/ Buried(m.scan) \/ Queued(m.scan))
    <3>1. PICK k \in processing : k.scan = m.scan /\ k.attempt > m.attempt
      BY <1>3, <2>2 DEF AckOK
    <3>2. k \in processing' /\ k.attempt > msg[v].attempt
      BY <1>1, <1>2, <1>3, <2>1, <2>2, <3>1, ElementFacts DEF Message
    <3>. QED  BY <2>1, <2>2, <3>1, <3>2 DEF AckOK
  <2>3. CASE ~ /\ m.scan = msg[v].scan /\ m.attempt > msg[v].attempt
               /\ ~(rows[m.scan] > 0 \/ Buried(m.scan) \/ Queued(m.scan))
    BY <1>1, <2>1, <2>3 DEF AckOK, Queued, Buried
  <2>. QED  BY <2>2, <2>3
<1>14. NoScanVanishes'
  <2>. SUFFICES ASSUME NEW r \in Scans, served[r] = "queued"
                PROVE  Queued(r) \/ Processing(r)' \/ rows[r] > 0 \/ Buried(r)
    BY <1>1, <1>6 DEF NoScanVanishes
  <2>1. CASE r = m.scan
    <3>1. (\E k \in processing : k.scan = m.scan /\ k.attempt > m.attempt)
            => Processing(r)'
      BY <1>1, <1>2, <1>3, <2>1, ElementFacts DEF Processing, Message
    <3>. QED  BY <1>3, <2>1, <3>1 DEF AckOK
  <2>2. CASE r # m.scan
    <3>1. Processing(r) => Processing(r)'
      BY <1>1, <2>2 DEF Processing
    <3>. QED  BY <3>1 DEF IInv, NoScanVanishes
  <2>. QED  BY <2>1, <2>2
<1>. QED  BY <1>7, <1>8, <1>9, <1>10, <1>11, <1>12, <1>13, <1>14 DEF IInv

(* Dead-lettering settles the scan of the message.                            *)
LEMMA DeadLetterInv ==
    ASSUME IInv, NEW w \in Workers, Reject(w) \/ Bury(w)
    PROVE  IInv'
<1>. DEFINE m == msg[w]
<1>1. PICK why \in Reasons :
        /\ queue' = queue
        /\ deadLetters' = deadLetters \union {[message |-> m, reason |-> why]}
        /\ processing' = processing \ {m}
        /\ served' = served /\ rows' = rows
        /\ failures' = failures /\ unknown' = unknown
        /\ \/ why = "invalid_payload" /\ pc[w] = "rejecting"
           \/ why = "retry_exhausted" /\ pc[w] = "burying"
        /\ Proceed(w, "idle", NoMsg)
  BY DEF Reject, Bury, MoveToDeadLetters, logVars, Reasons
<1>2. TypeOK /\ WorkersOK /\ QueueTypeOK
  BY DEF IInv, TypeOK
<1>3. pc[w] \in Undecided /\ pc[w] \in Busy
  BY <1>1 DEF Undecided, Busy
<1>4. /\ HoldOK(w) /\ m \in processing /\ m \in Message /\ m.scan \in Scans
  BY <1>2, <1>3, ElementFacts DEF IInv, HoldInv, OwnerInv
<1>5. /\ WorkersOK' /\ pc'[w] \notin Busy
      /\ \A v \in Workers \ {w} : pc'[v] = pc[v] /\ msg'[v] = msg[v]
  <2>1. /\ "idle" \in Labels /\ "idle" \notin Busy
        /\ "down" \in Labels /\ "down" \notin Busy
    BY DEF Labels, Busy, Undecided
  <2>. QED  BY <1>1, <1>2, <2>1, ProceedFacts
<1>6. \A v \in Workers :
        pc'[v] \in Busy =>
            /\ v # w /\ pc[v] \in Busy /\ pc'[v] = pc[v] /\ msg'[v] = msg[v]
            /\ msg[v] \in processing'
  BY <1>1, <1>3, <1>5 DEF IInv, OwnerInv
<1>7. \A r : /\ Queued(r)' <=> Queued(r)
             /\ Processing(r)' => Processing(r)
             /\ Buried(r)' <=> Buried(r) \/ r = m.scan
             /\ r # m.scan => (Unsettled(r)' <=> Unsettled(r))
  <2>0. \E e \in deadLetters' : /\ e.message = m
                                /\ deadLetters' = deadLetters \union {e}
    <3>. DEFINE e == [message |-> m, reason |-> why]
    <3>1. e.message = m /\ e \in deadLetters' /\ deadLetters' = deadLetters \union {e}
      BY <1>1
    <3>. QED  BY <3>1
  <2>1. \A r : Buried(r)' <=> Buried(r) \/ r = m.scan
    BY <2>0 DEF Buried
  <2>2. \A r : (Queued(r)' <=> Queued(r)) /\ (Processing(r)' => Processing(r))
    BY <1>1 DEF Queued, Processing
  <2>3. \A r : r # m.scan => (Unsettled(r)' <=> Unsettled(r))
    BY <1>1, <2>1 DEF Unsettled
  <2>. QED  BY <2>1, <2>2, <2>3
<1>8. ~Queued(m.scan) /\ Unsettled(m.scan)
  BY <1>3, <1>4 DEF IInv, OneLiveCopy, Holds, HoldOK
<1>9. TypeOK'
  <2>1. [message |-> m, reason |-> why] \in DeadLetter
    BY <1>4 DEF DeadLetter
  <2>. QED  BY <1>1, <1>2, <1>5, <2>1 DEF TypeOK, QueueTypeOK
<1>10. OneLiveCopy'
  BY <1>1, <1>6, <1>7 DEF IInv, OneLiveCopy, Holds, Busy
<1>11. QueueInv'
  <2>. SUFFICES ASSUME NEW i \in 1 .. Len(queue)
                PROVE  Unsettled(queue[i].scan)'
    BY <1>1 DEF IInv, QueueInv, Unsettled, Buried
  <2>1. queue[i].scan # m.scan
    BY <1>8 DEF Queued
  <2>2. Unsettled(queue[i].scan)
    BY DEF IInv, QueueInv
  <2>. QED  BY <1>1, <2>1, <2>2 DEF Unsettled, Buried
<1>12. HoldInv'
  <2>. SUFFICES ASSUME NEW v \in Workers, pc'[v] \in Undecided
                PROVE  HoldOK(v)'
    BY DEF HoldInv
  <2>1. v # w /\ pc'[v] = pc[v] /\ msg'[v] = msg[v] /\ msg[v].scan \in Scans
    BY <1>2, <1>6, ElementFacts DEF IInv, OwnerInv, Busy
  <2>2. HoldOK(v) /\ msg[v].scan # m.scan
    BY <1>3, <1>4, <2>1 DEF IInv, HoldInv, OneLiveCopy, Holds
  <2>3. Unsettled(msg[v].scan)'
    BY <1>1, <2>1, <2>2 DEF HoldOK, Unsettled, Buried
  <2>. QED  BY <1>1, <2>1, <2>2, <2>3 DEF HoldOK, FailuresAt
<1>13. InvalidInv'
  BY <1>1 DEF IInv, InvalidInv
<1>14. OwnerInv'
  BY <1>6 DEF IInv, OwnerInv
<1>15. FreshInv'
  BY <1>1, <1>7, <1>8 DEF IInv, FreshInv, Unsettled
<1>16. CountInv'
  BY <1>1, <1>7, <1>8 DEF IInv, CountInv, Unsettled
<1>17. ExhaustedAfterEveryTry'
  <2>1. failures[m.scan] = IF why = "retry_exhausted" THEN MaxRetries + 1 ELSE 0
    BY <1>1, <1>4 DEF HoldOK, FailuresAt, Message
  <2>. QED  BY <1>1, <2>1 DEF IInv, ExhaustedAfterEveryTry
<1>18. AckInv'
  <2>. SUFFICES ASSUME NEW v \in Workers, pc'[v] = "acking"
                PROVE  AckOK(v)'
    BY DEF AckInv
  <2>1. AckOK(v) /\ msg'[v] = msg[v]
    BY <1>6 DEF IInv, AckInv, Busy
  <2>2. CASE msg[v].scan = m.scan
    <3>1. \E d \in deadLetters' : d.message.scan = m.scan
      BY <1>7 DEF Buried
    <3>. QED  BY <2>1, <2>2, <3>1 DEF AckOK, Buried
  <2>3. CASE msg[v].scan # m.scan
    BY <1>1, <2>1, <2>3 DEF AckOK, Queued, Buried
  <2>. QED  BY <2>2, <2>3
<1>19. NoScanVanishes'
  <2>. SUFFICES ASSUME NEW r \in Scans, served[r] = "queued", r # m.scan
                PROVE  Queued(r) \/ Processing(r)' \/ rows[r] > 0 \/ Buried(r)
    BY <1>1, <1>7 DEF NoScanVanishes
  <2>1. Processing(r) => Processing(r)'
    BY <1>1 DEF Processing
  <2>. QED  BY <2>1 DEF IInv, NoScanVanishes
<1>. QED  BY <1>9, <1>10, <1>11, <1>12, <1>13, <1>14, <1>15, <1>16, <1>17, <1>18, <1>19 DEF IInv

(* A redirect brings in a scan that no part of the pipeline knew.             *)
LEMMA RedirectInv ==
    ASSUME IInv, NEW s \in Scans, Redirect(s)
    PROVE  IInv'
<1>. DEFINE m == FirstMessage(s)
<1>1. /\ served[s] = "no"
      /\ processing' = processing /\ deadLetters' = deadLetters
      /\ pc' = pc /\ msg' = msg /\ rows' = rows
      /\ failures' = failures /\ unknown' = unknown
  BY DEF Redirect, Enqueue, queueVars, workerVars, logVars
<1>2. /\ served' = [served EXCEPT ![s] = served'[s]]
      /\ \/ served'[s] = "queued" /\ queue' = Append(queue, m)
         \/ served'[s] = "unqueued" /\ queue' = Append(queue, m)
         \/ served'[s] = "unqueued" /\ queue' = queue
  BY DEF Redirect, Enqueue, queueVars, IInv, TypeOK
<1>3. TypeOK /\ WorkersOK /\ QueueTypeOK
  BY DEF IInv, TypeOK
<1>4. /\ m \in Message /\ m.scan = s /\ m.attempt = 0
      /\ rows[s] = 0 /\ failures[s] = 0 /\ unknown[s] = 0
      /\ ~Processing(s) /\ ~Buried(s)
  BY <1>1, MaxRetriesAssumption DEF IInv, FreshInv, FirstMessage, Message
<1>5. ~Queued(s) /\ \A v \in Workers : pc[v] \in Busy => msg[v].scan # s
  BY <1>1, <1>4 DEF IInv, QueueInv, OwnerInv, Unsettled, Queued, Processing
<1>6. /\ served' \in [Scans -> {"no", "queued", "unqueued"}]
      /\ served'[s] # "no"
      /\ \A r \in Scans \ {s} : served'[r] = served[r]
  BY <1>2, <1>3 DEF TypeOK
<1>7. \/ queue' = queue /\ served'[s] = "unqueued"
      \/ /\ queue' \in Seq(Message) /\ Len(queue) \in Nat
         /\ Len(queue') = Len(queue) + 1
         /\ \A i \in 1 .. Len(queue) : queue'[i] = queue[i]
         /\ queue'[Len(queue) + 1] = m
  BY <1>2, <1>3, <1>4, AppendFacts DEF QueueTypeOK
<1>8. \A r : /\ Queued(r) => Queued(r)'
             /\ Queued(r)' => Queued(r) \/ r = s
             /\ Processing(r)' <=> Processing(r)
             /\ Buried(r)' <=> Buried(r)
  <2>1. \A r : (Queued(r) => Queued(r)') /\ (Queued(r)' => Queued(r) \/ r = s)
    BY <1>4, <1>7 DEF Queued
  <2>. QED  BY <1>1, <2>1 DEF Processing, Buried
<1>9. \A r \in Scans : Unsettled(r) \/ r = s => Unsettled(r)'
  BY <1>1, <1>4, <1>6, <1>8 DEF Unsettled
<1>10. TypeOK'
  BY <1>1, <1>3, <1>6, <1>7 DEF TypeOK, QueueTypeOK, WorkersOK
<1>11. OneLiveCopy'
  <2>1. \A i, j \in 1 .. Len(queue') : queue'[i].scan = queue'[j].scan => i = j
    BY <1>4, <1>5, <1>7 DEF IInv, OneLiveCopy, Queued
  <2>2. \A v \in Workers, r \in Scans : Holds(v, r)' => Holds(v, r) /\ r # s
    BY <1>1, <1>5 DEF Holds, Busy
  <2>. QED  BY <1>8, <2>1, <2>2 DEF IInv, OneLiveCopy
<1>12. QueueInv'
  <2>. SUFFICES ASSUME NEW i \in 1 .. Len(queue')
                PROVE  LET q == queue'[i] IN
                       /\ served'[q.scan] # "no"
                       /\ rows[q.scan] = unknown[q.scan]
                       /\ ~Buried(q.scan)
                       /\ q.attempt = failures[q.scan]
                       /\ \A n \in processing :
                            n.scan = q.scan => n.attempt < q.attempt
    BY <1>1 DEF QueueInv, Unsettled, Buried
  <2>1. CASE i \in 1 .. Len(queue) /\ queue'[i] = queue[i]
    <3>1. queue[i].scan \in Scans /\ Unsettled(queue[i].scan)
      BY <1>3, <2>1, ElementFacts DEF IInv, QueueInv
    <3>2. served'[queue[i].scan] # "no"
      BY <1>6, <3>1 DEF Unsettled
    <3>. QED  BY <2>1, <3>1, <3>2 DEF IInv, QueueInv, Unsettled
  <2>2. CASE queue'[i] = m
    BY <1>4, <1>6, <2>2 DEF Processing
  <2>3. CASE queue' = queue
    BY <2>1, <2>3
  <2>4. CASE /\ queue' \in Seq(Message) /\ Len(queue) \in Nat
             /\ Len(queue') = Len(queue) + 1
             /\ \A j \in 1 .. Len(queue) : queue'[j] = queue[j]
             /\ queue'[Len(queue) + 1] = m
    <3>1. CASE i = Len(queue) + 1
      BY <2>2, <2>4, <3>1
    <3>2. CASE i \in 1 .. Len(queue)
      BY <2>1, <2>4, <3>2
    <3>. QED  BY <2>4, <3>1, <3>2
  <2>. QED  BY <1>7, <2>3, <2>4
<1>13. HoldInv'
  <2>. SUFFICES ASSUME NEW v \in Workers, pc[v] \in Undecided
                PROVE  HoldOK(v)'
    BY <1>1 DEF HoldInv
  <2>1. HoldOK(v) /\ msg[v].scan \in Scans
    BY <1>3, ElementFacts DEF IInv, HoldInv, OwnerInv, Busy
  <2>2. Unsettled(msg[v].scan)'
    BY <1>1, <1>9, <2>1 DEF HoldOK, Unsettled
  <2>. QED  BY <1>1, <2>1, <2>2 DEF HoldOK, FailuresAt
<1>14. InvalidInv' /\ CountInv' /\ ExhaustedAfterEveryTry' /\ OwnerInv'
  BY <1>1, <1>8 DEF IInv, InvalidInv, CountInv, ExhaustedAfterEveryTry, OwnerInv
<1>15. FreshInv'
  BY <1>1, <1>6, <1>8 DEF IInv, FreshInv
<1>16. AckInv'
  <2>. SUFFICES ASSUME NEW v \in Workers, pc[v] = "acking"
                PROVE  AckOK(v)'
    BY <1>1 DEF AckInv
  <2>1. AckOK(v)
    BY DEF IInv, AckInv
  <2>2. Queued(msg[v].scan) => Queued(msg[v].scan)'
    BY <1>1, <1>8 DEF Queued
  <2>. QED  BY <1>1, <2>1, <2>2 DEF AckOK, Buried
<1>17. NoScanVanishes'
  <2>1. served'[s] = "queued" => Queued(s)'
    BY <1>4, <1>7 DEF Queued
  <2>. QED  BY <1>1, <1>6, <1>8, <2>1 DEF IInv, NoScanVanishes
<1>. QED  BY <1>10, <1>11, <1>12, <1>13, <1>14, <1>15, <1>16, <1>17 DEF IInv
-------------------------------------------------------------------------------
(* IInv is an inductive invariant of the pipeline.                            *)
THEOREM Inductive == Spec => []IInv
<1>1. IInv /\ [Next]_vars => IInv'
  <2>. SUFFICES ASSUME IInv, [Next]_vars
                PROVE  IInv'
    OBVIOUS
  <2>1. ASSUME NEW s \in Scans, Redirect(s)
        PROVE  IInv'
    BY <2>1, RedirectInv
  <2>2. ASSUME NEW w \in Workers, WorkerStep(w)
        PROVE  IInv'
    BY <2>2, ReceiveInv, CommitInv, FailInv, RetryInv, AcknowledgeInv, DeadLetterInv
    DEF WorkerStep
  <2>3. ASSUME NEW w \in Workers, CommandFails(w) \/ Crash(w) \/ Restart(w)
        PROVE  IInv'
    BY <2>3, StopInv
  <2>4. CASE UNCHANGED vars
    BY <2>4 DEF vars, queueVars, workerVars, logVars, IInv, TypeOK, QueueTypeOK,
       WorkersOK, OneLiveCopy, QueueInv, HoldInv, HoldOK, FailuresAt, InvalidInv,
       OwnerInv, FreshInv, CountInv, ExhaustedAfterEveryTry, AckInv, AckOK,
       NoScanVanishes, Holds, Queued, Processing, Buried, Unsettled
  <2>. QED  BY <2>1, <2>2, <2>3, <2>4 DEF Next
<1>. QED  BY InitInv, <1>1, PTL DEF Spec

(* Every variable keeps its type: no retry counter passes MaxRetries, and a   *)
(* worker holds a message exactly while it is inside                          *)
(* process_next_scan_log_message.                                             *)
THEOREM TypeCorrect == Spec => []TypeOK
<1>1. IInv => TypeOK
  BY DEF IInv
<1>. QED  BY Inductive, <1>1, PTL

(* No scan whose enqueue succeeded disappears, whatever faults occur.         *)
THEOREM Conservation == Spec => []NoScanVanishes
<1>1. IInv => NoScanVanishes
  BY DEF IInv
<1>. QED  BY Inductive, <1>1, PTL

(* No two workers, and no worker and a waiting message, can both act on a scan*)
THEOREM SingleCopy == Spec => []OneLiveCopy
<1>1. IInv => OneLiveCopy
  BY DEF IInv
<1>. QED  BY Inductive, <1>1, PTL

(* A second row for a scan needs a commit whose reply was lost.               *)
THEOREM RowsAccounting == Spec => []RowsAccountedFor
<1>1. IInv => RowsAccountedFor
  <2>. SUFFICES ASSUME IInv, NEW s \in Scans
                PROVE  /\ rows[s] <= unknown[s] + 1
                       /\ Buried(s) \/ Live(s) => rows[s] = unknown[s]
    BY DEF RowsAccountedFor
  <2>1. rows[s] \in Nat /\ unknown[s] \in Nat
    BY DEF IInv, TypeOK
  <2>2. Live(s) => Unsettled(s)
    BY DEF IInv, QueueInv, HoldInv, HoldOK, Live, Queued, Holds
  <2>. QED  BY <2>1, <2>2 DEF IInv, CountInv, Unsettled
<1>. QED  BY Inductive, <1>1, PTL

(* A dead-lettered scan has used up every try, or was never tried.            *)
THEOREM EveryTryUsed == Spec => []ExhaustedAfterEveryTry
<1>1. IInv => ExhaustedAfterEveryTry
  BY DEF IInv
<1>. QED  BY Inductive, <1>1, PTL

(* Only acknowledging and dead-lettering take a message off the processing    *)
(* list, and both find it handed over.                                        *)
LEMMA RemovalFacts ==
    ASSUME IInv, IInv', Next, NEW m \in processing, m \notin processing'
    PROVE  HandedOver(m)'
<1>1. PICK w \in Workers : m = msg[w] /\ (Acknowledge(w) \/ Reject(w) \/ Bury(w))
  <2>1. PICK w \in Workers : WorkerStep(w)
    BY DEF Next, Redirect, Enqueue, queueVars, CommandFails, Crash, Restart
  <2>2. Acknowledge(w) \/ Reject(w) \/ Bury(w)
    BY <2>1 DEF WorkerStep, Receive, Dequeue, Commit, FailToPersist, Retry,
       Enqueue, queueVars
  <2>3. processing' = processing \ {msg[w]}
    BY <2>2 DEF Acknowledge, Reject, Bury, Ack, MoveToDeadLetters
  <2>. QED  BY <2>2, <2>3
<1>2. m \in Message /\ QueueTypeOK
  BY ElementFacts DEF IInv, TypeOK
<1>3. CASE Acknowledge(w)
  <2>1. AckOK(w) /\ queue' = queue /\ deadLetters' = deadLetters /\ rows' = rows
        /\ processing' = processing \ {m}
    BY <1>1, <1>3 DEF Acknowledge, Ack, logVars, IInv, AckInv
  <2>2. CASE rows[m.scan] > 0 \/ Buried(m.scan)
    BY <2>1, <2>2 DEF HandedOver, Buried
  <2>3. CASE Queued(m.scan)
    <3>1. PICK i \in 1 .. Len(queue) : queue[i].scan = m.scan
      BY <2>3 DEF Queued
    <3>2. queue[i].attempt > m.attempt
      BY <1>2, <3>1, ElementFacts DEF IInv, QueueInv, Message
    <3>. QED  BY <2>1, <3>1, <3>2 DEF HandedOver
  <2>4. CASE \E n \in processing : n.scan = m.scan /\ n.attempt > m.attempt
    <3>1. PICK n \in processing : n.scan = m.scan /\ n.attempt > m.attempt
      BY <2>4
    <3>2. n \in processing'
      BY <1>2, <2>1, <3>1 DEF Message
    <3>. QED  BY <3>1, <3>2 DEF HandedOver
  <2>. QED  BY <1>1, <2>1, <2>2, <2>3, <2>4 DEF AckOK
<1>4. CASE Reject(w) \/ Bury(w)
  <2>1. PICK why \in Reasons :
            deadLetters' = deadLetters \union {[message |-> m, reason |-> why]}
    BY <1>1, <1>4 DEF Reject, Bury, MoveToDeadLetters, Reasons
  <2>. DEFINE d == [message |-> m, reason |-> why]
  <2>2. d \in deadLetters' /\ d.message = m
    BY <2>1
  <2>. HIDE DEF d
  <2>3. Buried(m.scan)'
    BY <2>2 DEF Buried
  <2>. QED  BY <2>3 DEF HandedOver
<1>. QED  BY <1>1, <1>3, <1>4

(* No message is taken off the processing list before its scan is safe.       *)
THEOREM HandOver == Spec => RemovedOnlyWhenHandedOver
<1>1. IInv /\ IInv' /\ [Next]_vars
        => [\A m \in processing \ processing' : HandedOver(m)']_vars
  BY RemovalFacts DEF vars, queueVars
<1>. QED  BY Inductive, <1>1, PTL DEF Spec, RemovedOnlyWhenHandedOver
===============================================================================
