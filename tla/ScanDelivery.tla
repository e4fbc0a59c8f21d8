----------------------------- MODULE ScanDelivery -----------------------------
(* What the scan pipeline promises about each scan, with no queue and no      *)
(* worker: a scan is accepted at most once, rows are written for it only      *)
(* while it is live, and once it has stopped being live - logged,             *)
(* dead-lettered or stranded - nothing is ever done for it again.             *)
(* ScanPipeline implements this specification (see ScanPipeline!Delivery).    *)
EXTENDS Naturals

CONSTANT Scans

VARIABLES
    seen,   \* scans whose redirect request has been answered
    live,   \* scans that some part of the pipeline will still act on
    rows,   \* the number of scan_logs rows written for each scan
    dead    \* scans whose message is on the dead-letter list

vars == <<seen, live, rows, dead>>

Init ==
    /\ seen = {}
    /\ live = {}
    /\ rows = [s \in Scans |-> 0]
    /\ dead = {}

Accept(s) ==
    /\ s \notin seen
    /\ seen' = seen \union {s}
    /\ live' = live \union {s}
    /\ UNCHANGED <<rows, dead>>

(* The enqueue failed; the visitor is redirected and the scan is dropped.     *)
Refuse(s) ==
    /\ s \notin seen
    /\ seen' = seen \union {s}
    /\ UNCHANGED <<live, rows, dead>>

Log(s) ==
    /\ s \in live
    /\ rows' = [rows EXCEPT ![s] = @ + 1]
    /\ live' = live \ {s}
    /\ UNCHANGED <<seen, dead>>

(* The commit took effect but the worker was told it failed: a row is         *)
(* written and the scan will be tried again.                                  *)
LogUnawares(s) ==
    /\ s \in live
    /\ rows' = [rows EXCEPT ![s] = @ + 1]
    /\ UNCHANGED <<seen, live, dead>>

Bury(s) ==
    /\ s \in live
    /\ dead' = dead \union {s}
    /\ live' = live \ {s}
    /\ UNCHANGED <<seen, rows>>

(* The worker that held the scan's message is gone; nobody takes it over.     *)
Strand(s) ==
    /\ s \in live
    /\ live' = live \ {s}
    /\ UNCHANGED <<seen, rows, dead>>

Next == \E s \in Scans :
            \/ Accept(s) \/ Refuse(s)
            \/ Log(s) \/ LogUnawares(s) \/ Bury(s) \/ Strand(s)

Spec == Init /\ [][Next]_vars
===============================================================================
