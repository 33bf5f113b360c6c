--------------------------- MODULE MCQuotaLedger ---------------------------
(* Small instances of QuotaLedger: two interchangeable jobs, a plan and a   *)
(* smaller one that the user may be moved to, hours of one unit and days of *)
(* two.                                                                     *)
EXTENDS QuotaLedger, TLC

CONSTANTS j1, j2, normal, small

Lengths == [k \in Kinds |-> CASE k = "hourly" -> 1 [] k = "daily" -> 2 [] OTHER -> 4]

PlanLimit ==
    [p \in Plans |->
        [q \in Quotas |->
            CASE q = <<"ingress_bytes", "hourly">>   -> IF p = small THEN 2 ELSE 3
              [] q = <<"ingress_bytes", "daily">>    -> IF p = small THEN 3 ELSE NoLimit
              [] q = <<"storage_bytes", "lifetime">> -> IF p = small THEN 3 ELSE 4
              [] q = <<"job_count", "daily">>        -> IF p = small THEN 1 ELSE 2
              [] OTHER                               -> NoLimit]]

PlanFile == [p \in Plans |-> 2]
PlanJobs == [p \in Plans |-> 2]

JobSymmetry == Permutations({j1, j2})
============================================================================
