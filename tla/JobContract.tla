---------------------------- MODULE JobContract ----------------------------
(***************************************************************************)
(* What the queue promises the user who submits a download, without        *)
(* leases, messages, workers or clocks: the request waits and runs at most *)
(* MaxTries times, ends either delivered or given up, and its quota is     *)
(* held until it ends and settled once.                                    *)
(***************************************************************************)
EXTENDS Naturals

CONSTANTS Requests, MaxTries

VARIABLES
    stage,  \* [Requests -> Stages]
    tries,  \* [Requests -> Nat]: times the work was started
    quota   \* [Requests -> {"none", "held", "settled"}]

contract == <<stage, tries, quota>>

Stages == {"none", "waiting", "running", "delivered", "given_up"}

ContractInit ==
    /\ stage = [r \in Requests |-> "none"]
    /\ tries = [r \in Requests |-> 0]
    /\ quota = [r \in Requests |-> "none"]

Move(r, to) == stage' = [stage EXCEPT ![r] = to]

SettleQuota(r) == quota' = [quota EXCEPT ![r] = "settled"]

Submit(r) ==
    /\ stage[r] = "none"
    /\ Move(r, "waiting")
    /\ quota' = [quota EXCEPT ![r] = "held"]
    /\ UNCHANGED tries

Start(r) ==
    /\ stage[r] = "waiting" /\ tries[r] < MaxTries
    /\ Move(r, "running")
    /\ tries' = [tries EXCEPT ![r] = @ + 1]
    /\ UNCHANGED quota

Requeue(r) ==
    /\ stage[r] = "running" /\ tries[r] < MaxTries
    /\ Move(r, "waiting")
    /\ UNCHANGED <<tries, quota>>

(* Delivery and accounting are one step: no file without its charge.        *)
Deliver(r) ==
    /\ stage[r] = "running"
    /\ Move(r, "delivered")
    /\ SettleQuota(r)
    /\ UNCHANGED tries

(* A request given up may get its quota back a little later.                *)
GiveUp(r) ==
    /\ stage[r] \in {"waiting", "running"}
    /\ Move(r, "given_up")
    /\ SettleQuota(r) \/ UNCHANGED quota
    /\ UNCHANGED tries

Release(r) ==
    /\ stage[r] = "given_up" /\ quota[r] = "held"
    /\ SettleQuota(r)
    /\ UNCHANGED <<stage, tries>>

ContractNext ==
    \E r \in Requests :
        Submit(r) \/ Start(r) \/ Requeue(r) \/ Deliver(r) \/ GiveUp(r) \/ Release(r)

ContractSpec == ContractInit /\ [][ContractNext]_contract
============================================================================
