---------------------------- MODULE MCWakeRunner ----------------------------
(* WakeRunner on two processes, two plans that differ in trigger and expiry,
   and scans of up to two notifications: matching, foreign and stale ones.
   A limit of 0 stands for one below a unit of the clock: limits may be fractions
   of a second. *)
EXTENDS WakeRunner

CONSTANTS r1, r2, t1, t2, h1

MCPlans == { [hash |-> h1, trigger |-> t1, expiry |-> 2, limit |-> 0, max_age |-> 1],
             [hash |-> h1, trigger |-> t2, expiry |-> 3, limit |-> 1, max_age |-> 1] }

Ours == [trigger |-> t1, stamp |-> 0]
Other == [trigger |-> t2, stamp |-> 1]
MCNotices == {Ours, Other}
MCBatches == { <<>>, <<Ours>>, <<Other>>, <<Ours, Other>> }

\* The job of the expiry run.
MCOnePlan == { [hash |-> h1, trigger |-> t1, expiry |-> 2, limit |-> 1, max_age |-> 1] }
MCShortBatches == { <<>>, <<Ours>>, <<Other>> }
=============================================================================
