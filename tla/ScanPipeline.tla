----------------------------- MODULE ScanPipeline -----------------------------
(* From an answered redirect to a scan_logs row: the redirect endpoint        *)
(* enqueues one message per scan, and each worker runs                        *)
(* process_next_scan_log_message in the loop of run_scan_log_worker.  Between *)
(* two awaits of a worker every other worker, the endpoint and the faults     *)
(* named in Faults may take steps.                                            *)
(*                                                                            *)
(* The loop has no exception handler: an error raised by a queue command ends *)
(* the worker.  Nothing reads the processing list back.                       *)
EXTENDS ScanQueue

CONSTANTS
    Workers,
    InvalidScans,  \* scans whose payload ScanLogEnqueueMessage rejects
    Faults,        \* the faults each worker may suffer
    ApiFaults,     \* the faults the redirect endpoint may suffer
    NoMsg

FaultKinds == {"crash",   \* the worker's process dies
               "redis",   \* a Redis command fails and is not applied
               "reply",   \* a Redis command is applied and its reply is lost
               "insert",  \* the insert or its commit fails and is rolled back
               "commit"}  \* the commit takes effect and its reply is lost

ASSUME PipelineAssumption ==
    /\ InvalidScans \subseteq Scans
    /\ Faults \in [Workers -> SUBSET FaultKinds]
    /\ ApiFaults \subseteq {"redis", "reply"}
    /\ NoMsg \notin Message

VARIABLES
    served,     \* what the redirect endpoint did with each scan
    pc,         \* where each worker is in process_next_scan_log_message
    msg,        \* the message each worker holds
    rows,       \* the number of scan_logs rows committed for each scan
    failures,   \* history: exceptions a worker caught while persisting a scan
    unknown     \* history: those after which the row was there nevertheless

workerVars == <<pc, msg>>
logVars == <<rows, failures, unknown>>
vars == <<queueVars, served, workerVars, logVars>>

(* A worker at "idle" is about to dequeue, and at every other label but       *)
(* "down" it holds a message.                                                 *)
Undecided == {"persisting", "retrying", "rejecting", "burying"}
Busy == Undecided \union {"acking"}
Labels == Busy \union {"idle", "down"}

WorkersOK ==
    /\ pc \in [Workers -> Labels]
    /\ msg \in [Workers -> Message \union {NoMsg}]
    /\ \A w \in Workers : pc[w] \in Busy <=> msg[w] # NoMsg

TypeOK ==
    /\ QueueTypeOK
    /\ WorkersOK
    /\ served \in [Scans -> {"no", "queued", "unqueued"}]
    /\ rows \in [Scans -> Nat]
    /\ failures \in [Scans -> Nat]
    /\ unknown \in [Scans -> Nat]

Init ==
    /\ QueueInit
    /\ served = [s \in Scans |-> "no"]
    /\ pc = [w \in Workers |-> "idle"]
    /\ msg = [w \in Workers |-> NoMsg]
    /\ rows = [s \in Scans |-> 0]
    /\ failures = [s \in Scans |-> 0]
    /\ unknown = [s \in Scans |-> 0]
-------------------------------------------------------------------------------
FirstMessage(s) == [scan |-> s, attempt |-> 0]

NextMessage(m) == [m EXCEPT !.attempt = @ + 1]

(* redirect_by_short_code for an active code: one enqueue, whose error is     *)
(* logged and swallowed; the visitor is redirected in every case.             *)
Redirect(s) ==
    /\ served[s] = "no"
    /\ \/ /\ Enqueue(FirstMessage(s))
          /\ served' = [served EXCEPT ![s] = "queued"]
       \/ /\ "reply" \in ApiFaults
          /\ Enqueue(FirstMessage(s))
          /\ served' = [served EXCEPT ![s] = "unqueued"]
       \/ /\ "redis" \in ApiFaults
          /\ served' = [served EXCEPT ![s] = "unqueued"]
          /\ UNCHANGED queueVars
    /\ UNCHANGED <<workerVars, logVars>>

(* Worker w has issued a queue command that took effect, and holds m at label *)
(* l next; if the reply is lost the RuntimeError ends its loop instead.       *)
Proceed(w, l, m) ==
    \/ /\ pc' = [pc EXCEPT ![w] = l]
       /\ msg' = [msg EXCEPT ![w] = m]
    \/ /\ "reply" \in Faults[w]
       /\ pc' = [pc EXCEPT ![w] = "down"]
       /\ msg' = [msg EXCEPT ![w] = NoMsg]

Receive(w) ==
    /\ pc[w] = "idle"
    /\ \E m \in Message :
        /\ Dequeue(m)
        /\ IF m.scan \in InvalidScans
           THEN Proceed(w, "rejecting", m)
           ELSE Proceed(w, "persisting", m)
    /\ UNCHANGED <<served, logVars>>

(* Mutants: one retry too many, one too few, and no dead-lettering.           *)
OnFailureOneMore(m) == IF m.attempt <= MaxRetries THEN "retrying" ELSE "burying"
OnFailureOneLess(m) ==
    IF m.attempt + 1 < MaxRetries THEN "retrying" ELSE "burying"
OnFailureForgotten(m) == IF m.attempt < MaxRetries THEN "retrying" ELSE "acking"

(* The except branch of the insert: try again, or give up.                    *)
OnFailure(m) == IF m.attempt < MaxRetries THEN "retrying" ELSE "burying"

Commit(w) ==
    /\ pc[w] = "persisting"
    /\ rows' = [rows EXCEPT ![msg[w].scan] = @ + 1]
    /\ pc' = [pc EXCEPT ![w] = "acking"]
    /\ UNCHANGED <<queueVars, served, msg, failures, unknown>>

(* Mutant: the session autocommits, so a failed attempt leaves its row.       *)
FailToPersistAutocommit(w) ==
    /\ pc[w] = "persisting"
    /\ "insert" \in Faults[w]
    /\ rows' = [rows EXCEPT ![msg[w].scan] = @ + 1]
    /\ failures' = [failures EXCEPT ![msg[w].scan] = @ + 1]
    /\ pc' = [pc EXCEPT ![w] = OnFailure(msg[w])]
    /\ UNCHANGED <<queueVars, served, msg, unknown>>

(* Mutant: no exception handler around the insert.                            *)
FailToPersistUncaught(w) ==
    /\ pc[w] = "persisting"
    /\ {"insert", "commit"} \intersect Faults[w] # {}
    /\ pc' = [pc EXCEPT ![w] = "down"]
    /\ msg' = [msg EXCEPT ![w] = NoMsg]
    /\ UNCHANGED <<queueVars, served, logVars>>

FailToPersist(w) ==
    /\ pc[w] = "persisting"
    /\ LET s == msg[w].scan IN
        /\ failures' = [failures EXCEPT ![s] = @ + 1]
        /\ \/ /\ "insert" \in Faults[w]
              /\ UNCHANGED <<rows, unknown>>
           \/ /\ "commit" \in Faults[w]
              /\ rows' = [rows EXCEPT ![s] = @ + 1]
              /\ unknown' = [unknown EXCEPT ![s] = @ + 1]
    /\ pc' = [pc EXCEPT ![w] = OnFailure(msg[w])]
    /\ UNCHANGED <<queueVars, served, msg>>

(* Mutant: the worker tries again itself as well.                             *)
RetryAtOnceToo(w) ==
    /\ pc[w] = "retrying"
    /\ Enqueue(NextMessage(msg[w]))
    /\ Proceed(w, "persisting", msg[w])
    /\ UNCHANGED <<served, logVars>>

(* The retry is enqueued before the message it replaces is acknowledged.      *)
Retry(w) ==
    /\ pc[w] = "retrying"
    /\ Enqueue(NextMessage(msg[w]))
    /\ Proceed(w, "acking", msg[w])
    /\ UNCHANGED <<served, logVars>>

Acknowledge(w) ==
    /\ pc[w] = "acking"
    /\ Ack(msg[w])
    /\ Proceed(w, "idle", NoMsg)
    /\ UNCHANGED <<served, logVars>>

Reject(w) ==
    /\ pc[w] = "rejecting"
    /\ MoveToDeadLetters(msg[w], "invalid_payload")
    /\ Proceed(w, "idle", NoMsg)
    /\ UNCHANGED <<served, logVars>>

Bury(w) ==
    /\ pc[w] = "burying"
    /\ MoveToDeadLetters(msg[w], "retry_exhausted")
    /\ Proceed(w, "idle", NoMsg)
    /\ UNCHANGED <<served, logVars>>
-------------------------------------------------------------------------------
(* Mutant: the ack is inside the try block of the insert.                     *)
CommandFailsIntoRetry(w) ==
    /\ "redis" \in Faults[w]
    /\ pc[w] \in Labels \ {"persisting", "down"}
    /\ IF pc[w] = "acking"
       THEN pc' = [pc EXCEPT ![w] = OnFailure(msg[w])] /\ UNCHANGED msg
       ELSE /\ pc' = [pc EXCEPT ![w] = "down"]
            /\ msg' = [msg EXCEPT ![w] = NoMsg]
    /\ UNCHANGED <<queueVars, served, logVars>>

(* A queue command fails before it is applied: the RuntimeError ends the loop.*)
CommandFails(w) ==
    /\ "redis" \in Faults[w]
    /\ pc[w] \in Labels \ {"persisting", "down"}
    /\ pc' = [pc EXCEPT ![w] = "down"]
    /\ msg' = [msg EXCEPT ![w] = NoMsg]
    /\ UNCHANGED <<queueVars, served, logVars>>

(* A worker process dies; the queue lives on in Redis.                        *)
Crash(w) ==
    /\ "crash" \in Faults[w]
    /\ pc[w] # "down"
    /\ pc' = [pc EXCEPT ![w] = "down"]
    /\ msg' = [msg EXCEPT ![w] = NoMsg]
    /\ UNCHANGED <<queueVars, served, logVars>>

Restart(w) ==
    /\ pc[w] = "down"
    /\ pc' = [pc EXCEPT ![w] = "idle"]
    /\ UNCHANGED <<queueVars, served, msg, logVars>>

WorkerStep(w) ==
    \/ Receive(w) \/ Commit(w) \/ FailToPersist(w)
    \/ Retry(w) \/ Acknowledge(w) \/ Reject(w) \/ Bury(w)

Next ==
    \/ \E s \in Scans : Redirect(s)
    \/ \E w \in Workers :
        WorkerStep(w) \/ CommandFails(w) \/ Crash(w) \/ Restart(w)

Spec == Init /\ [][Next]_vars

(* A worker that can take a step of its loop takes one.                       *)
FairSpec == Spec /\ \A w \in Workers : WF_vars(WorkerStep(w))

(* And a supervisor starts a dead worker again, and crashes come to an end.   *)
SupervisedSpec ==
    /\ FairSpec
    /\ \A w \in Workers : WF_vars(Restart(w))
    /\ <>[][\A w \in Workers : ~Crash(w)]_vars
-------------------------------------------------------------------------------
Queued(s) == \E i \in 1 .. Len(queue) : queue[i].scan = s

Holds(w, s) == pc[w] \in Undecided /\ msg[w].scan = s

(* Some copy of the scan's message is still going to be acted on.             *)
Live(s) == Queued(s) \/ \E w \in Workers : Holds(w, s)

Processing(s) == \E m \in processing : m.scan = s

Buried(s) == \E d \in deadLetters : d.message.scan = s

(* A scan whose enqueue the endpoint saw succeed is always somewhere: waiting,*)
(* being processed, in scan_logs or on the dead-letter list, whatever worker  *)
(* dies and whatever reply is lost.  It rests on process_next_scan_log_message*)
(* acknowledging a message only after its row or its retry is safe.           *)
NoScanVanishes ==
    \A s \in Scans :
        served[s] = "queued" =>
            Queued(s) \/ Processing(s) \/ rows[s] > 0 \/ Buried(s)

(* At any time at most one worker or queue slot can still act on a scan.  A   *)
(* worker that has enqueued the retry must not do anything more for the scan  *)
(* than acknowledge, though another worker may already hold the retry.        *)
OneLiveCopy ==
    /\ \A i, j \in 1 .. Len(queue) : queue[i].scan = queue[j].scan => i = j
    /\ \A w, v \in Workers, s \in Scans : Holds(w, s) /\ Holds(v, s) => w = v
    /\ \A w \in Workers, s \in Scans : Holds(w, s) => ~Queued(s)

(* A scan gets a second scan_logs row only from a commit whose reply was lost *)
(* (scan_logs has no key that would reject it), and a scan on the dead-letter *)
(* list has no row but such rows.                                             *)
RowsAccountedFor ==
    \A s \in Scans :
        /\ rows[s] <= unknown[s] + 1
        /\ Buried(s) \/ Live(s) => rows[s] = unknown[s]

(* A scan is dead-lettered as retry_exhausted only after MaxRetries + 1       *)
(* failed attempts to persist it: the counter that travels in the payload,    *)
(* through as many workers as there were attempts, agrees with what happened. *)
ExhaustedAfterEveryTry ==
    \A d \in deadLetters :
        failures[d.message.scan] =
            IF d.reason = "retry_exhausted" THEN MaxRetries + 1 ELSE 0

(* A message leaves the processing list only when its scan is settled or a    *)
(* later try of it is in the queue or being processed.                        *)
HandedOver(m) ==
    \/ rows[m.scan] > 0 \/ Buried(m.scan)
    \/ \E n \in processing \union {queue[i] : i \in 1 .. Len(queue)} :
            n.scan = m.scan /\ n.attempt > m.attempt

RemovedOnlyWhenHandedOver ==
    [][\A m \in processing \ processing' : HandedOver(m)']_vars

(* The pipeline does for each scan what ScanDelivery promises.                *)
Delivery == INSTANCE ScanDelivery WITH
    seen <- {s \in Scans : served[s] # "no"},
    live <- {s \in Scans : Live(s)},
    dead <- {s \in Scans : Buried(s)}

DeliverySpec == Delivery!Spec

(* Every scan accepted for logging is eventually in scan_logs or on the       *)
(* dead-letter list.                                                          *)
EveryScanSettles ==
    \A s \in Scans : served[s] = "queued" ~> rows[s] > 0 \/ Buried(s)

(* While no worker is lost, to a crash or a queue command that fails, every   *)
(* scan accepted for logging settles, however often the database fails.       *)
SettlesUnlessWorkerLost ==
    [](\A w \in Workers : pc[w] # "down") => EveryScanSettles

(* As long as one worker survives, whatever befalls the others, no message    *)
(* waits forever: retries of other scans do not starve it.                    *)
QueueDrains ==
    \A m \in Message : (\E i \in 1 .. Len(queue) : queue[i] = m)
        ~> ~ \E i \in 1 .. Len(queue) : queue[i] = m
===============================================================================
