------------------------- MODULE MCAnalyticsAggregation -------------------------
(* Three scans, two from one address and one without: days of three ticks.    *)
EXTENDS AnalyticsAggregation, TLC

CONSTANTS s1, s2, s3, home

MCScans == {s1, s2, s3}

MCIp == s1 :> home @@ s2 :> home @@ s3 :> NoIp

SameAddress == Permutations({s1, s2})
================================================================================
