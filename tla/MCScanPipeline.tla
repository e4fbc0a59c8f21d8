---------------------------- MODULE MCScanPipeline ----------------------------
(* Small instances of ScanPipeline for TLC.                                   *)
EXTENDS ScanPipeline

CONSTANTS s1, s2, s3, w1, w2, w3

MCScans == {s1, s2, s3}
MCWorkers == {w1, w2}
MCInvalidScans == {s3}
TwoValidScans == {s1, s2}
OneOfEach == {s1, s3}
ThreeWorkers == {w1, w2, w3}

EveryFault == [w \in Workers |-> FaultKinds]
OneReliableWorker ==
    [w \in Workers |-> IF w = w1 THEN {"insert"} ELSE FaultKinds]
CrashOnly == [w \in Workers |-> {"crash"}]
===============================================================================
