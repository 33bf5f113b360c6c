--------------------------- MODULE QuotaContract ---------------------------
(***************************************************************************)
(* What the ledger promises about a user's quota, without the buckets'     *)
(* aggregates, plans, windows, workers or the sizes of files: a job takes  *)
(* its claims when it is admitted, may raise them while it is open, and is *)
(* charged once, for no more than it claimed, when it is settled.  No      *)
(* claim is taken or raised beyond the cap of its bucket.                  *)
(***************************************************************************)
EXTENDS Integers, Functions

CONSTANTS Jobs, Buckets

VARIABLES
    stage,   \* [Jobs -> {"new", "open", "settled"}]
    claim,   \* [Jobs -> [Buckets -> Nat]]: what an open job may still use
    charge,  \* [Jobs -> [Buckets -> Nat]]: what a settled job has used
    cap      \* [Buckets -> Nat]

contract == <<stage, claim, charge, cap>>

Nothing == [b \in Buckets |-> 0]

ContractInit ==
    /\ stage = [j \in Jobs |-> "new"]
    /\ claim = [j \in Jobs |-> Nothing]
    /\ charge = [j \in Jobs |-> Nothing]
    /\ cap = Nothing

(* Claimed or used by all the jobs together.                                *)
Used(b) == SumFunction([j \in Jobs |-> claim[j][b] + charge[j][b]])

OthersKeepClaims(j) == \A i \in Jobs \ {j} : claim'[i] = claim[i]

(* A job takes its claims; only a bucket it claims in gets a new cap.       *)
Open(j) ==
    /\ stage[j] = "new"
    /\ stage' = [stage EXCEPT ![j] = "open"]
    /\ OthersKeepClaims(j)
    /\ \A b \in Buckets : IF claim'[j][b] > 0 THEN Used(b)' <= cap'[b] ELSE cap'[b] = cap[b]
    /\ UNCHANGED charge

(* Claims grow only where the job has one, and only within the cap.         *)
Raise(j) ==
    /\ stage[j] = "open"
    /\ OthersKeepClaims(j)
    /\ \A b \in Buckets :
          \/ claim'[j][b] = claim[j][b]
          \/ claim'[j][b] > claim[j][b] /\ claim[j][b] > 0 /\ Used(b)' <= cap[b]
    /\ UNCHANGED <<stage, charge, cap>>

(* The only charge of a job.  What it did not use is free again.            *)
Settle(j) ==
    /\ stage[j] = "open"
    /\ stage' = [stage EXCEPT ![j] = "settled"]
    /\ claim' = [claim EXCEPT ![j] = Nothing]
    /\ \A i \in Jobs \ {j} : charge'[i] = charge[i]
    /\ \A b \in Buckets : charge'[j][b] \in 0..claim[j][b]
    /\ UNCHANGED cap

ContractNext == \E j \in Jobs : Open(j) \/ Raise(j) \/ Settle(j)

ContractSpec == ContractInit /\ [][ContractNext]_contract
============================================================================
