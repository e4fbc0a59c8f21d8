-------------------------- MODULE MCCampaignCalendar --------------------------
(* A user and an admin, dates around the turn of a year whose months have one *)
(* day, and the fields that clients patch.                                    *)
EXTENDS CampaignCalendar, TLC

CONSTANTS r1, r2, ann, root, t1

MCSpans == {<<10, 10>>, <<11, 12>>, <<12, None>>}

MCPeriods == {<<"year", None>>, <<"month", 12>>}

MCPatches == {[start |-> 12],
              [link |-> 1], [sync |-> "out_of_sync", hash |-> None]}

Slots == Permutations({r1, r2})
===============================================================================
