------------------------------- MODULE ScanQueue -------------------------------
(* The queue behind app.workers.queue_client: the list of waiting messages,   *)
(* the messages handed to a consumer and not yet acknowledged, and the        *)
(* dead-letter list.  RedisQueueClient runs each operation as one Redis       *)
(* command or one MULTI/EXEC, and InMemoryQueueClient, which raises no errors, *)
(* runs each without an await between its effects: each is one atomic step.   *)
(*                                                                            *)
(* A message is told apart by the scan it carries and the __retry_attempt     *)
(* counter in its payload; its uuid, `attempts` (always 0: every enqueue      *)
(* builds a new envelope) and time stamps are abstracted away.                *)
EXTENDS Naturals, Sequences

CONSTANTS Scans, MaxRetries

ASSUME MaxRetriesAssumption == MaxRetries \in Nat

VARIABLES
    queue,        \* queue:<name>, oldest first
    processing,   \* queue:<name>:processing
    deadLetters   \* queue:<dlq_name>

queueVars == <<queue, processing, deadLetters>>

Message == [scan : Scans, attempt : 0 .. MaxRetries]

Reasons == {"invalid_payload", "retry_exhausted"}

DeadLetter == [message : Message, reason : Reasons]

QueueTypeOK ==
    /\ queue \in Seq(Message)
    /\ processing \in SUBSET Message
    /\ deadLetters \in SUBSET DeadLetter

QueueInit ==
    /\ queue = <<>>
    /\ processing = {}
    /\ deadLetters = {}

(* LPUSH; consumers pop the other end.                                        *)
Enqueue(m) ==
    /\ queue' = Append(queue, m)
    /\ UNCHANGED <<processing, deadLetters>>

(* Mutant: a plain pop, which leaves no trace of the message it hands out.    *)
DequeueUntracked(m) ==
    /\ queue # <<>>
    /\ m = Head(queue)
    /\ queue' = Tail(queue)
    /\ UNCHANGED <<processing, deadLetters>>

(* BRPOPLPUSH: the oldest message moves to the processing list.  An empty     *)
(* queue gives None after the timeout, which changes nothing.                 *)
Dequeue(m) ==
    /\ queue # <<>>
    /\ m = Head(queue)
    /\ queue' = Tail(queue)
    /\ processing' = processing \union {m}
    /\ UNCHANGED deadLetters

(* LREM of the message from the processing list.                              *)
Ack(m) ==
    /\ processing' = processing \ {m}
    /\ UNCHANGED <<queue, deadLetters>>

(* LREM and LPUSH in one MULTI/EXEC.                                          *)
MoveToDeadLetters(m, why) ==
    /\ processing' = processing \ {m}
    /\ deadLetters' = deadLetters \union {[message |-> m, reason |-> why]}
    /\ UNCHANGED queue
================================================================================
