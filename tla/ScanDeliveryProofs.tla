--------------------------- MODULE ScanDeliveryProofs ---------------------------
(* Proof that ScanPipeline implements ScanDelivery, for any scans, workers,    *)
(* retry limit and faults.                                                     *)
EXTENDS ScanPipelineProofs

Seen == {s \in Scans : served[s] # "no"}

LiveScans == {s \in Scans : Live(s)}

Dead == {s \in Scans : Buried(s)}

(* What a step of the pipeline is to the abstract specification.               *)
LEMMA AbstractStep ==
    ASSUME NEW s \in Scans,
           \/ /\ s \notin Seen /\ Seen' = Seen \union {s}
              /\ LiveScans' \in {LiveScans, LiveScans \union {s}}
              /\ rows' = rows /\ Dead' = Dead
           \/ /\ s \in LiveScans /\ Seen' = Seen /\ Dead' = Dead
              /\ rows' = [rows EXCEPT ![s] = @ + 1]
              /\ LiveScans' \in {LiveScans, LiveScans \ {s}}
           \/ /\ s \in LiveScans /\ Seen' = Seen /\ rows' = rows
              /\ LiveScans' = LiveScans \ {s}
              /\ Dead' \in {Dead, Dead \union {s}}
    PROVE  Delivery!Next
<1> QED BY DEF Delivery!Next, Delivery!Accept, Delivery!Refuse, Delivery!Log,
               Delivery!LogUnawares, Delivery!Bury, Delivery!Strand, Seen, LiveScans, Dead

LEMMA AbstractStutter ==
    ASSUME UNCHANGED <<Seen, LiveScans, rows, Dead>>
    PROVE  UNCHANGED Delivery!vars
<1> QED BY DEF Delivery!vars, Seen, LiveScans, Dead
-------------------------------------------------------------------------------
(* When one worker moves, with a message of one scan, all others are as live  *)
(* as before, and this one is if it waits or the worker has still to decide.  *)
LEMMA LiveAfter ==
    ASSUME NEW w \in Workers, NEW s \in Scans,
           \A v \in Workers \ {w} : pc'[v] = pc[v] /\ msg'[v] = msg[v],
           \A t \in Scans \ {s} : Queued(t)' <=> Queued(t),
           \A t \in Scans : Holds(w, t) \/ Holds(w, t)' => t = s,
           \A v \in Workers \ {w} : ~Holds(v, s)
    PROVE  LiveScans' = IF Queued(s)' \/ Holds(w, s)' THEN LiveScans \union {s}
                        ELSE LiveScans \ {s}
<1>1. \A v \in Workers \ {w}, t \in Scans : Holds(v, t)' <=> Holds(v, t)
      BY DEF Holds
<1>2. \A t \in Scans \ {s} : Live(t)' <=> Live(t)
      BY <1>1 DEF Live
<1>3. Live(s)' <=> Queued(s)' \/ Holds(w, s)'
      BY <1>1 DEF Live
<1> QED BY <1>2, <1>3 DEF LiveScans

(* A step that touches neither queue nor any worker's decision.               *)
LEMMA LiveUnchanged ==
    ASSUME NEW w \in Workers, queue' = queue,
           \A v \in Workers \ {w} : pc'[v] = pc[v] /\ msg'[v] = msg[v],
           pc[w] \notin Undecided, pc'[w] \notin Undecided
    PROVE  LiveScans' = LiveScans
<1>1. \A v \in Workers, t \in Scans : Holds(v, t)' <=> Holds(v, t)
      BY DEF Holds
<1>2. \A t \in Scans : Queued(t)' <=> Queued(t)
      BY DEF Queued
<1> QED BY <1>1, <1>2 DEF LiveScans, Live

LEMMA RedirectStep ==
    ASSUME IInv, NEW s \in Scans, Redirect(s)
    PROVE  Delivery!Next
<1>1. /\ served[s] = "no"
      /\ served' \in {[served EXCEPT ![s] = "queued"], [served EXCEPT ![s] = "unqueued"]}
      /\ deadLetters' = deadLetters
      /\ UNCHANGED <<workerVars, logVars>>
      /\ Enqueue(FirstMessage(s)) \/ queue' = queue
      BY DEF Redirect, Enqueue, queueVars
<1>2. s \notin Seen /\ Seen' = Seen \union {s}
      BY <1>1 DEF IInv, TypeOK, Seen
<1>3. rows' = rows /\ Dead' = Dead
      BY <1>1 DEF logVars, Dead, Buried
<1>4. \A v \in Workers, t \in Scans : Holds(v, t)' <=> Holds(v, t)
      BY <1>1 DEF Holds, workerVars
<1>5. CASE queue' = queue
  <2>1. LiveScans' = LiveScans
        BY <1>4, <1>5 DEF LiveScans, Live, Queued
  <2> QED BY <1>2, <1>3, <2>1, AbstractStep
<1>6. CASE Enqueue(FirstMessage(s))
  <2>1. /\ queue' = Append(queue, FirstMessage(s))
        /\ queue \in Seq(Message) /\ FirstMessage(s) \in Message
        /\ FirstMessage(s).scan = s
        BY <1>6, MaxRetriesAssumption
        DEF Enqueue, IInv, TypeOK, QueueTypeOK, FirstMessage, Message
  <2>2. /\ Len(queue) \in Nat /\ Len(queue') = Len(queue) + 1
        /\ \A i \in 1 .. Len(queue) : queue'[i] = queue[i]
        /\ queue'[Len(queue) + 1] = FirstMessage(s)
        BY <2>1, AppendFacts
  <2>3. \A t \in Scans : Queued(t)' <=> Queued(t) \/ t = s
        BY <2>1, <2>2 DEF Queued
  <2>4. LiveScans' = LiveScans \union {s}
        BY <1>4, <2>3 DEF LiveScans, Live
  <2> QED BY <1>2, <1>3, <2>4, AbstractStep
<1> QED BY <1>1, <1>5, <1>6

(* A message received is as live as it was, unless the reply is lost.         *)
LEMMA ReceiveStep ==
    ASSUME IInv, NEW w \in Workers, Receive(w)
    PROVE  Delivery!Next \/ UNCHANGED Delivery!vars
<1>1. PICK m \in Message :
        /\ queue # <<>> /\ m = Head(queue)
        /\ queue' = Tail(queue)
        /\ Proceed(w, IF m.scan \in InvalidScans
                      THEN "rejecting" ELSE "persisting", m)
      BY DEF Receive, Dequeue
<1>2. /\ pc[w] = "idle"
      /\ UNCHANGED <<deadLetters, served, logVars>>
      BY DEF Receive, Dequeue
<1>3. PICK s \in Scans : s = m.scan
      BY DEF Message
<1>4. WorkersOK /\ queue \in Seq(Message)
      BY DEF IInv, TypeOK, QueueTypeOK
<1>5. /\ \/ pc'[w] \in {"rejecting", "persisting"} /\ msg'[w] = m
         \/ pc'[w] = "down" /\ msg'[w] = NoMsg
      /\ \A v \in Workers \ {w} : pc'[v] = pc[v] /\ msg'[v] = msg[v]
      BY <1>1, <1>4, ProceedFacts DEF Labels, Busy, Undecided
<1>6. /\ Len(queue) \in Nat /\ Len(queue) >= 1
      /\ Len(queue') = Len(queue) - 1
      /\ \A i \in 1 .. Len(queue) - 1 : queue'[i] = queue[i + 1]
      /\ queue[1] = m /\ 1 \in 1 .. Len(queue)
      BY <1>1, <1>4, TailFacts
<1>7. Queued(s)
      BY <1>3, <1>6 DEF Queued
<1>8. \A t \in Scans : Queued(t)' <=> Queued(t) /\ t # s
  <2>1. \A i \in 1 .. Len(queue') : queue'[i] = queue[i + 1] /\ i + 1 \in 1 .. Len(queue)
        BY <1>6
  <2>2. \A i \in 1 .. Len(queue') : queue'[i].scan # s
        BY <1>3, <1>6, <2>1 DEF IInv, OneLiveCopy
  <2>3. \A t \in Scans \ {s} : Queued(t) => Queued(t)'
    <3> SUFFICES ASSUME NEW t \in Scans \ {s}, NEW i \in 1 .. Len(queue), queue[i].scan = t
                 PROVE  Queued(t)'
        BY DEF Queued
    <3>1. i # 1
          BY <1>3, <1>6
    <3>2. i - 1 \in 1 .. Len(queue') /\ queue'[i - 1] = queue[i]
          BY <1>6, <3>1
    <3> QED BY <3>2 DEF Queued
  <2> QED BY <2>1, <2>2, <2>3 DEF Queued
<1>9. \A v \in Workers : ~Holds(v, s)
      BY <1>7 DEF IInv, OneLiveCopy
<1>10. LiveScans' = IF Queued(s)' \/ Holds(w, s)' THEN LiveScans \union {s}
                    ELSE LiveScans \ {s}
  <2>1. \A t \in Scans : Holds(w, t) \/ Holds(w, t)' => t = s
        BY <1>2, <1>3, <1>5 DEF Holds, Undecided
  <2> QED BY <1>5, <1>8, <1>9, <2>1, LiveAfter
<1>11. s \in LiveScans
       BY <1>7 DEF LiveScans, Live
<1>12. Seen' = Seen /\ Dead' = Dead /\ rows' = rows
       BY <1>2 DEF Seen, Dead, Buried, logVars
<1>13. CASE Holds(w, s)'
       BY <1>10, <1>11, <1>12, <1>13, AbstractStutter
<1>14. CASE ~Holds(w, s)'
  <2>1. LiveScans' = LiveScans \ {s}
        BY <1>8, <1>10, <1>14
  <2> QED BY <1>11, <1>12, <2>1, AbstractStep
<1> QED BY <1>13, <1>14
-------------------------------------------------------------------------------
(* A worker that has still to decide is the only one to act on its scan.      *)
LEMMA HolderFacts ==
    ASSUME IInv, NEW w \in Workers, pc[w] \in Undecided
    PROVE  /\ msg[w] \in Message /\ msg[w].scan \in Scans
           /\ Holds(w, msg[w].scan) /\ msg[w].scan \in LiveScans
           /\ ~Queued(msg[w].scan)
           /\ \A v \in Workers \ {w} : ~Holds(v, msg[w].scan)
           /\ \A t \in Scans : Holds(w, t) => t = msg[w].scan
<1>1. msg[w] \in Message
      BY DEF IInv, TypeOK, WorkersOK, Busy
<1>2. msg[w].scan \in Scans
      BY <1>1 DEF Message
<1>3. Holds(w, msg[w].scan)
      BY DEF Holds
<1> QED BY <1>1, <1>2, <1>3 DEF IInv, OneLiveCopy, LiveScans, Live, Holds

LEMMA PersistStep ==
    ASSUME IInv, NEW w \in Workers, Commit(w) \/ FailToPersist(w)
    PROVE  Delivery!Next \/ UNCHANGED Delivery!vars
<1>1. pc[w] = "persisting" /\ pc[w] \in Undecided
      BY DEF Commit, FailToPersist, Undecided
<1>2. PICK s \in Scans : s = msg[w].scan
      BY <1>1, HolderFacts
<1>3. /\ UNCHANGED <<queueVars, served, msg>>
      /\ \A v \in Workers \ {w} : pc'[v] = pc[v] /\ msg'[v] = msg[v]
      BY DEF Commit, FailToPersist, IInv, TypeOK, WorkersOK
<1>4. Seen' = Seen /\ Dead' = Dead
      BY <1>3 DEF Seen, Dead, Buried, queueVars
<1>5. \A t \in Scans : Queued(t)' <=> Queued(t)
      BY <1>3 DEF Queued, queueVars
<1>6. \A t \in Scans : Holds(w, t) \/ Holds(w, t)' => t = s
      BY <1>2, <1>3 DEF Holds
<1>7. /\ s \in LiveScans /\ ~Queued(s)
      /\ LiveScans' = IF Queued(s)' \/ Holds(w, s)' THEN LiveScans \union {s}
                      ELSE LiveScans \ {s}
      BY <1>1, <1>2, <1>3, <1>5, <1>6, HolderFacts, LiveAfter
<1>8. CASE Commit(w)
  <2>1. rows' = [rows EXCEPT ![s] = @ + 1]
        BY <1>2, <1>8 DEF Commit
  <2>2. ~Holds(w, s)'
        BY <1>8 DEF Commit, Holds, Undecided, IInv, TypeOK, WorkersOK
  <2> QED BY <1>4, <1>5, <1>7, <2>1, <2>2, AbstractStep
<1>9. CASE FailToPersist(w)
  <2>1. pc'[w] \in Undecided
        BY <1>9 DEF FailToPersist, OnFailure, Undecided, IInv, TypeOK, WorkersOK
  <2>2. LiveScans' = LiveScans
        BY <1>2, <1>3, <1>7, <2>1 DEF Holds
  <2>3. rows' = rows \/ rows' = [rows EXCEPT ![s] = @ + 1]
        BY <1>2, <1>9 DEF FailToPersist
  <2> QED BY <1>4, <1>7, <2>2, <2>3, AbstractStep, AbstractStutter
<1> QED BY <1>8, <1>9

(* The retry is live in the queue when the worker stops being responsible.    *)
LEMMA RetryStep ==
    ASSUME IInv, NEW w \in Workers, Retry(w)
    PROVE  UNCHANGED Delivery!vars
<1>1. /\ pc[w] = "retrying" /\ pc[w] \in Undecided
      /\ queue' = Append(queue, NextMessage(msg[w]))
      /\ Proceed(w, "acking", msg[w])
      /\ UNCHANGED <<deadLetters, served, logVars>>
      BY DEF Retry, Enqueue, Undecided
<1>2. PICK s \in Scans : s = msg[w].scan
      BY <1>1, HolderFacts
<1>3. /\ msg[w] \in Message /\ msg[w].attempt < MaxRetries
      BY <1>1, HolderFacts DEF IInv, HoldInv, HoldOK
<1>4. NextMessage(msg[w]) \in Message /\ NextMessage(msg[w]).scan = s
      BY <1>2, <1>3, MaxRetriesAssumption DEF NextMessage, Message
<1>5. /\ Len(queue) \in Nat /\ Len(queue') = Len(queue) + 1
      /\ \A i \in 1 .. Len(queue) : queue'[i] = queue[i]
      /\ queue'[Len(queue) + 1] = NextMessage(msg[w])
      BY <1>1, <1>4, AppendFacts DEF IInv, TypeOK, QueueTypeOK
<1>6. \A t \in Scans : Queued(t)' <=> Queued(t) \/ t = s
      BY <1>4, <1>5 DEF Queued
<1>7. /\ \/ pc'[w] = "acking" /\ msg'[w] = msg[w]
         \/ pc'[w] = "down" /\ msg'[w] = NoMsg
      /\ \A v \in Workers \ {w} : pc'[v] = pc[v] /\ msg'[v] = msg[v]
      BY <1>1, <1>3, ProceedFacts DEF IInv, TypeOK, Labels, Busy, Undecided
<1>8. \A t \in Scans : Holds(w, t) \/ Holds(w, t)' => t = s
      BY <1>2, <1>7 DEF Holds, Undecided
<1>9. LiveScans' = LiveScans
  <2>1. s \in LiveScans /\ Queued(s)' /\ \A v \in Workers \ {w} : ~Holds(v, s)
        BY <1>1, <1>2, <1>6, HolderFacts
  <2>2. \A t \in Scans \ {s} : Queued(t)' <=> Queued(t)
        BY <1>6
  <2>3. LiveScans' = IF Queued(s)' \/ Holds(w, s)' THEN LiveScans \union {s}
                     ELSE LiveScans \ {s}
        BY <1>7, <1>8, <2>1, <2>2, LiveAfter
  <2> QED BY <2>1, <2>3
<1> QED BY <1>1, <1>9, AbstractStutter DEF Seen, Dead, Buried, logVars

LEMMA AcknowledgeStep ==
    ASSUME IInv, NEW w \in Workers, Acknowledge(w)
    PROVE  UNCHANGED Delivery!vars
<1>1. /\ pc[w] = "acking" /\ Proceed(w, "idle", NoMsg)
      /\ UNCHANGED <<queue, deadLetters, served, logVars>>
      BY DEF Acknowledge, Ack
<1>2. /\ pc'[w] \in {"idle", "down"}
      /\ \A v \in Workers \ {w} : pc'[v] = pc[v] /\ msg'[v] = msg[v]
      BY <1>1, ProceedFacts DEF IInv, TypeOK, Labels, Busy, Undecided
<1>3. LiveScans' = LiveScans
      BY <1>1, <1>2, LiveUnchanged DEF Undecided
<1> QED BY <1>1, <1>3, AbstractStutter DEF Seen, Dead, Buried, logVars

LEMMA DeadLetterStep ==
    ASSUME IInv, NEW w \in Workers, Reject(w) \/ Bury(w)
    PROVE  Delivery!Next
<1>1. /\ pc[w] \in Undecided /\ Proceed(w, "idle", NoMsg)
      /\ UNCHANGED <<queue, served, logVars>>
      /\ \E why \in Reasons :
            deadLetters' = deadLetters \union {[message |-> msg[w], reason |-> why]}
      BY DEF Reject, Bury, MoveToDeadLetters, Undecided, Reasons
<1>2. PICK s \in Scans : s = msg[w].scan
      BY <1>1, HolderFacts
<1>3. /\ pc'[w] \in {"idle", "down"}
      /\ \A v \in Workers \ {w} : pc'[v] = pc[v] /\ msg'[v] = msg[v]
      BY <1>1, ProceedFacts DEF IInv, TypeOK, Labels, Busy, Undecided
<1>4. \A t \in Scans : Queued(t)' <=> Queued(t)
      BY <1>1 DEF Queued
<1>5. \A t \in Scans : ~Holds(w, t)'
      BY <1>3 DEF Holds, Undecided
<1>6. s \in LiveScans /\ LiveScans' = LiveScans \ {s}
      BY <1>1, <1>2, <1>3, <1>4, <1>5, HolderFacts, LiveAfter
<1>7. Dead' = Dead \union {s}
  <2>1. PICK why : deadLetters' = deadLetters \union {[message |-> msg[w], reason |-> why]}
        BY <1>1
  <2>2. PICK d : d = [message |-> msg[w], reason |-> why]
        OBVIOUS
  <2>3. d.message.scan = s
        BY <1>2, <2>2
  <2>4. \A t \in Scans : Buried(t)' <=> Buried(t) \/ t = s
        BY <2>1, <2>2, <2>3 DEF Buried
  <2> QED BY <2>4 DEF Dead
<1>8. Seen' = Seen /\ rows' = rows
      BY <1>1 DEF Seen, logVars
<1> QED BY <1>6, <1>7, <1>8, AbstractStep

(* A worker that stops strands the scan it has not decided about.             *)
LEMMA StopStep ==
    ASSUME IInv, NEW w \in Workers, CommandFails(w) \/ Crash(w) \/ Restart(w)
    PROVE  Delivery!Next \/ UNCHANGED Delivery!vars
<1>1. /\ pc'[w] \in {"idle", "down"}
      /\ \A v \in Workers \ {w} : pc'[v] = pc[v] /\ msg'[v] = msg[v]
      /\ UNCHANGED <<queue, deadLetters, served, logVars>>
      BY DEF CommandFails, Crash, Restart, queueVars, IInv, TypeOK, WorkersOK
<1>2. Seen' = Seen /\ Dead' = Dead /\ rows' = rows
      BY <1>1 DEF Seen, Dead, Buried, logVars
<1>3. CASE pc[w] \in Undecided
  <2>1. PICK s \in Scans : s = msg[w].scan
        BY <1>3, HolderFacts
  <2>2. \A t \in Scans : ~Holds(w, t)'
        BY <1>1 DEF Holds, Undecided
  <2>3. \A t \in Scans : Queued(t)' <=> Queued(t)
        BY <1>1 DEF Queued
  <2>4. s \in LiveScans /\ LiveScans' = LiveScans \ {s}
        BY <1>1, <1>3, <2>1, <2>2, <2>3, HolderFacts, LiveAfter
  <2> QED BY <1>2, <2>4, AbstractStep
<1>4. CASE pc[w] \notin Undecided
  <2>1. LiveScans' = LiveScans
        BY <1>1, <1>4, LiveUnchanged DEF Undecided
  <2> QED BY <1>2, <2>1, AbstractStutter
<1> QED BY <1>3, <1>4
-------------------------------------------------------------------------------
(* Whatever the workers and the faults do, the pipeline does to each scan     *)
(* only what ScanDelivery allows: nothing happens to a scan that is logged,   *)
(* dead-lettered or stranded.                                                 *)
THEOREM Implements == Spec => DeliverySpec
<1>1. Init => Delivery!Init
      BY DEF Init, QueueInit, Delivery!Init, Live, Queued, Holds, Buried, Undecided
<1>2. IInv /\ [Next]_vars => [Delivery!Next]_Delivery!vars
  <2> SUFFICES ASSUME IInv, [Next]_vars
               PROVE  Delivery!Next \/ UNCHANGED Delivery!vars
      OBVIOUS
  <2>1. CASE UNCHANGED vars
    <3>1. UNCHANGED <<Seen, LiveScans, rows, Dead>>
          BY <2>1 DEF vars, queueVars, workerVars, logVars, Seen, LiveScans, Live,
                      Queued, Holds, Dead, Buried
    <3> QED BY <3>1, AbstractStutter
  <2>2. CASE Next
        BY <2>2, RedirectStep, ReceiveStep, PersistStep, RetryStep, AcknowledgeStep,
           DeadLetterStep, StopStep DEF Next, WorkerStep
  <2> QED BY <2>1, <2>2
<1> QED BY <1>1, <1>2, Inductive, PTL DEF Spec, DeliverySpec, Delivery!Spec
================================================================================
