---------------------------- MODULE QuotaLedger ----------------------------
(***************************************************************************)
(* The quota of one user: buckets per dimension and time window, the       *)
(* reservations that jobs hold in them, and what becomes of both while a   *)
(* job is admitted, transfers bytes, asks for more, ends or is abandoned.  *)
(*                                                                         *)
(* Every action is one database transaction or one step of the worker that *)
(* holds the job.  The user's row is locked while a job is admitted and    *)
(* the buckets are locked by whoever changes them, so transactions do not  *)
(* overlap here.  Leases and attempts are those of JobQueue: here a job    *)
(* that runs may lose its worker at any time.  Users do not share buckets, *)
(* so one user is enough.                                                  *)
(***************************************************************************)
EXTENDS Integers, FiniteSets, Functions

CONSTANTS
    Jobs,        \* downloads the user submits
    Plans,       \* effective plans the user may have from time to time
    Limit,       \* [Plans -> [Quotas -> Nat \union {NoLimit}]]
    NoLimit,     \* a quota the plan does not have
    MaxFile,     \* [Plans -> Nat]: max_file_size
    Concurrent,  \* [Plans -> Nat]: concurrent_jobs
    Length,      \* [Kinds -> Nat \ {0}]: length of a window of each kind
    MaxTime      \* bound: the clock

ByteDimensions == {"ingress_bytes", "storage_bytes"}
Kinds == {"hourly", "daily", "weekly"}

(* The quotas of a plan: a dimension and the kind of its windows.           *)
Quotas == {<<"ingress_bytes", k>> : k \in Kinds}
          \union {<<"storage_bytes", "lifetime">>, <<"job_count", "daily">>}

Buckets == Quotas \X (0..MaxTime)
Dimension(b) == b[1][1]

ASSUME QuotaAssumption ==
    /\ IsFiniteSet(Jobs)
    /\ Limit \in [Plans -> [Quotas -> Nat \union {NoLimit}]]
    /\ NoLimit \notin Nat
    /\ MaxFile \in [Plans -> Nat]
    /\ Concurrent \in [Plans -> Nat]
    /\ Length \in [Kinds -> Nat \ {0}]
    /\ MaxTime \in Nat

VARIABLES
    now,        \* the clock, in units of the shortest window
    limit,      \* [Buckets -> Nat]: quota_limit, 0 before the bucket exists
    reserved,   \* [Buckets -> Nat]: reserved_amount
    committed,  \* [Buckets -> Nat]: committed_amount
    state,      \* [Jobs -> JobStates]
    open,       \* [Jobs -> BOOLEAN]: the job's reservations are active
    amount,     \* [Jobs -> [Buckets -> Nat]]: reserved_amount, 0 for no reservation
    consumed,   \* [Jobs -> [Buckets -> Nat]]: consumed_amount
    maximum,    \* [Jobs -> Nat]: max_file_size in the job's policy snapshot
    total,      \* [Jobs -> Nat]: total_bytes, 0 for unknown
    bytes,      \* [Jobs -> Nat]: bytes_transferred
    got,        \* [Jobs -> Nat]: bytes the running worker has received
    reported    \* [Jobs -> BOOLEAN]: the API has accepted a report of all of them

buckets == <<limit, reserved, committed>>
rows == <<open, amount, consumed>>
sizes == <<maximum, total, bytes>>
worker == <<got, reported>>
vars == <<now, buckets, state, rows, sizes, worker>>

(* A stalled job's worker was denied more quota and is about to report it.  *)
JobStates == {"none", "queued", "running", "stalled", "completed", "failed",
              "dead_letter", "expired"}
Active == {"queued", "running", "stalled"}

Init ==
    /\ now = 0
    /\ limit = [b \in Buckets |-> 0]
    /\ reserved = [b \in Buckets |-> 0]
    /\ committed = [b \in Buckets |-> 0]
    /\ state = [j \in Jobs |-> "none"]
    /\ open = [j \in Jobs |-> FALSE]
    /\ amount = [j \in Jobs |-> [b \in Buckets |-> 0]]
    /\ consumed = [j \in Jobs |-> [b \in Buckets |-> 0]]
    /\ maximum = [j \in Jobs |-> 0]
    /\ total = [j \in Jobs |-> 0]
    /\ bytes = [j \in Jobs |-> 0]
    /\ got = [j \in Jobs |-> 0]
    /\ reported = [j \in Jobs |-> FALSE]

----------------------------------------------------------------------------
(* quota_window: the windows of a kind follow each other without a gap.     *)
WindowStart(kind, t) == IF kind = "lifetime" THEN 0 ELSE t - (t % Length[kind])

Current(quota) == <<quota, WindowStart(quota[2], now)>>

(* The buckets a job under the plan needs a reservation in.                 *)
Needed(plan) == {Current(q) : q \in {r \in Quotas : Limit[plan][r] # NoLimit}}

Asked(b, size) == IF Dimension(b) = "job_count" THEN 1 ELSE size

(* Wrong: what other jobs have reserved is not counted.                     *)
FitsCommitted(plan, size) ==
    \A b \in Needed(plan) : committed[b] + Asked(b, size) <= Limit[plan][b[1]]

(* All quotas of the plan have room for the job.                            *)
Fits(plan, size) ==
    \A b \in Needed(plan) :
        committed[b] + reserved[b] + Asked(b, size) <= Limit[plan][b[1]]

(* Admission under the user's present plan; a job denied leaves no trace.   *)
(* A download of unknown size reserves a fixed size.                        *)
Admit(j, plan, size, known) ==
    /\ state[j] = "none"
    /\ size <= MaxFile[plan]
    /\ Cardinality({k \in Jobs : state[k] \in Active}) < Concurrent[plan]
    /\ Fits(plan, size)
    /\ LET new == [b \in Buckets |-> IF b \in Needed(plan) THEN Asked(b, size) ELSE 0] IN
         /\ amount' = [amount EXCEPT ![j] = new]
         /\ reserved' = [b \in Buckets |-> reserved[b] + new[b]]
    /\ limit' = [b \in Buckets |-> IF b \in Needed(plan) THEN Limit[plan][b[1]] ELSE limit[b]]
    /\ state' = [state EXCEPT ![j] = "queued"]
    /\ open' = [open EXCEPT ![j] = TRUE]
    /\ maximum' = [maximum EXCEPT ![j] = MaxFile[plan]]
    /\ total' = [total EXCEPT ![j] = IF known THEN size ELSE 0]
    /\ UNCHANGED <<now, committed, consumed, bytes, worker>>

----------------------------------------------------------------------------
(* Transfer.                                                                *)

(* A worker starts from nothing, on a first attempt or on a later one.      *)
Claim(j) ==
    /\ state[j] = "queued"
    /\ state' = [state EXCEPT ![j] = "running"]
    /\ got' = [got EXCEPT ![j] = 0]
    /\ reported' = [reported EXCEPT ![j] = FALSE]
    /\ UNCHANGED <<now, buckets, rows, sizes>>

Receive(j) ==
    /\ state[j] = "running" /\ got[j] < maximum[j]
    /\ got' = [got EXCEPT ![j] = @ + 1]
    /\ reported' = [reported EXCEPT ![j] = FALSE]
    /\ UNCHANGED <<now, buckets, state, rows, sizes>>

(* Wrong: a job of unknown size is not charged for what it grows.           *)
MissingUnlessUnknown(j, b) ==
    IF Dimension(b) \in ByteDimensions /\ total[j] # 0 /\ amount[j][b] \in 1..got[j] - 1
    THEN got[j] - amount[j][b] ELSE 0

(* What the job's reservation in a bucket lacks of the bytes received.      *)
Missing(j, b) ==
    IF Dimension(b) \in ByteDimensions /\ amount[j][b] \in 1..got[j] - 1
    THEN got[j] - amount[j][b] ELSE 0

(* Wrong: what other jobs have reserved is not counted.                     *)
HasRoomAlone(j) ==
    \A b \in Buckets :
        Missing(j, b) > 0 => committed[b] + amount[j][b] + Missing(j, b) <= limit[b]

HasRoom(j) ==
    \A b \in Buckets :
        Missing(j, b) > 0 => committed[b] + reserved[b] + Missing(j, b) <= limit[b]

(* top_up: all reservations of the job grow or none does, in the windows    *)
(* the job was admitted in.                                                 *)
TopUp(j) ==
    /\ HasRoom(j)
    /\ reserved' = [b \in Buckets |-> reserved[b] + Missing(j, b)]
    /\ amount' = [amount EXCEPT ![j] = [b \in Buckets |-> @[b] + Missing(j, b)]]
    /\ total' = [total EXCEPT ![j] = got[j]]

(* An accepted progress report.                                             *)
Report(j) ==
    /\ state[j] = "running" /\ got[j] > 0 /\ ~ reported[j]
    /\ IF got[j] > total[j] THEN TopUp(j) ELSE UNCHANGED <<reserved, amount, total>>
    /\ bytes' = [bytes EXCEPT ![j] = IF got[j] > @ THEN got[j] ELSE @]
    /\ reported' = [reported EXCEPT ![j] = TRUE]
    /\ UNCHANGED <<now, limit, committed, state, open, consumed, maximum, got>>

(* A report that needs more quota than there is: nothing is recorded of it. *)
Denied(j) ==
    /\ state[j] = "running" /\ ~ reported[j]
    /\ got[j] > total[j] /\ ~ HasRoom(j)
    /\ state' = [state EXCEPT ![j] = "stalled"]
    /\ UNCHANGED <<now, buckets, rows, sizes, worker>>

----------------------------------------------------------------------------
(* The end of a job.                                                        *)

(* Wrong: a download that failed is charged for storage.                    *)
ChargeAlways(b, actual, success) ==
    IF Dimension(b) = "job_count" THEN IF success THEN 1 ELSE 0 ELSE actual

Charge(b, actual, success) ==
    CASE Dimension(b) = "job_count"     -> IF success THEN 1 ELSE 0
      [] Dimension(b) = "storage_bytes" -> IF success THEN actual ELSE 0
      [] OTHER                          -> actual

(* What reconcile charges for the job in a bucket; an inactive reservation  *)
(* is not looked at.                                                        *)
Bill(j, b, actual, success) ==
    IF open[j] /\ amount[j][b] > 0 THEN Charge(b, actual, success) ELSE 0

(* "actual usage exceeds reservation": the transaction is rolled back.      *)
Raises(j, actual, success) == \E b \in Buckets : Bill(j, b, actual, success) > amount[j][b]

(* Wrong: only what was used leaves the bucket's reserved amount.           *)
ReleasedUsed(j, b, actual, success) ==
    IF open[j] THEN Bill(j, b, actual, success) ELSE 0

(* Wrong: every reservation is taken to be in bytes.                        *)
ReleasedBytes(j, b, actual, success) == IF open[j] THEN total[j] ELSE 0

(* What leaves the bucket's reserved amount.                                *)
Released(j, b, actual, success) == IF open[j] THEN amount[j][b] ELSE 0

(* reconcile: each active reservation of the job is finalised.              *)
Reconcile(j, actual, success) ==
    /\ ~ Raises(j, actual, success)
    /\ reserved' = [b \in Buckets |-> reserved[b] - Released(j, b, actual, success)]
    /\ committed' = [b \in Buckets |-> committed[b] + Bill(j, b, actual, success)]
    /\ consumed' = [consumed EXCEPT ![j] =
                      [b \in Buckets |-> IF open[j] THEN Bill(j, b, actual, success) ELSE @[b]]]
    /\ open' = [open EXCEPT ![j] = FALSE]
    /\ UNCHANGED <<limit, amount>>

(* The whole file is reported before it is scanned and handed over.         *)
Complete(j) ==
    /\ state[j] = "running" /\ reported[j]
    /\ \/ /\ Reconcile(j, got[j], TRUE)
          /\ state' = [state EXCEPT ![j] = "completed"]
       \/ /\ Reconcile(j, got[j], FALSE)
          /\ state' = [state EXCEPT ![j] = "failed"]
    /\ UNCHANGED <<now, sizes, worker>>

(* The worker reports a failure with the bytes it knows of: all of them, or *)
(* none when the failure is not one of its own making.  Failing with more   *)
(* than is reserved is refused, and the worker turns to other work.         *)
Fail(j) ==
    /\ state[j] \in {"running", "stalled"}
    /\ \E actual \in {0, got[j]} :
         /\ state[j] = "stalled" => actual = got[j]
         /\ Reconcile(j, actual, FALSE)
         /\ bytes' = [bytes EXCEPT ![j] = IF actual > @ THEN actual ELSE @]
    /\ state' = [state EXCEPT ![j] = "failed"]
    /\ UNCHANGED <<now, maximum, total, worker>>

(* recover_expired_jobs: the worker is gone, the reservations stay.         *)
LoseWorker(j) ==
    /\ state[j] \in {"running", "stalled"}
    /\ \E next \in {"queued", "dead_letter"} : state' = [state EXCEPT ![j] = next]
    /\ UNCHANGED <<now, buckets, rows, sizes, worker>>

(* reconcile_expired: the reservations have run out and no lease runs.      *)
Expire(j) ==
    /\ open[j]
    /\ Reconcile(j, bytes[j], FALSE)
    /\ state' = [state EXCEPT ![j] = CASE @ = "queued" -> "expired"
                                       [] @ \in Active \ {"queued"} -> "dead_letter"
                                       [] OTHER -> @]
    /\ UNCHANGED <<now, sizes, worker>>

Tick ==
    /\ now < MaxTime
    /\ now' = now + 1
    /\ UNCHANGED <<buckets, state, rows, sizes, worker>>

Next ==
    \/ Tick
    \/ \E j \in Jobs :
         \/ \E plan \in Plans, known \in BOOLEAN :
              \E size \in 1..MaxFile[plan] : Admit(j, plan, size, known)
         \/ Claim(j) \/ Receive(j) \/ Report(j) \/ Denied(j)
         \/ Complete(j) \/ Fail(j) \/ LoseWorker(j) \/ Expire(j)

Spec == Init /\ [][Next]_vars
----------------------------------------------------------------------------
(* Properties.                                                              *)

(* Every variable keeps its type; no bucket goes below zero.                *)
TypeOK ==
    /\ now \in 0..MaxTime
    /\ limit \in [Buckets -> Nat]
    /\ reserved \in [Buckets -> Nat]
    /\ committed \in [Buckets -> Nat]
    /\ state \in [Jobs -> JobStates]
    /\ open \in [Jobs -> BOOLEAN]
    /\ amount \in [Jobs -> [Buckets -> Nat]]
    /\ consumed \in [Jobs -> [Buckets -> Nat]]
    /\ maximum \in [Jobs -> Nat]
    /\ total \in [Jobs -> Nat]
    /\ bytes \in [Jobs -> Nat]
    /\ got \in [Jobs -> Nat]
    /\ reported \in [Jobs -> BOOLEAN]

Held(j, b) == IF open[j] THEN amount[j][b] ELSE 0

(* The aggregates of a bucket are the sums over the reservations, so no     *)
(* quota leaks and nothing is charged twice.                                *)
LedgerBalances ==
    \A b \in Buckets :
        /\ reserved[b] = SumFunction([j \in Jobs |-> Held(j, b)])
        /\ committed[b] = SumFunction([j \in Jobs |-> consumed[j][b]])

(* What is used and reserved stays within the limit last written to the     *)
(* bucket, whatever plans the user had; the table's CHECK refuses nothing.  *)
WithinLimit == \A b \in Buckets : committed[b] + reserved[b] <= limit[b]

(* Finalising never asks for more than is reserved where a refusal would do *)
(* harm: the dispatcher's expiry, whose whole cycle would be rolled back    *)
(* again and again, and the completion of a download.                       *)
SettlingNeverRaises ==
    \A j \in Jobs :
        /\ open[j] => ~ Raises(j, bytes[j], FALSE)
        /\ state[j] = "running" /\ reported[j] =>
             ~ Raises(j, got[j], TRUE) /\ ~ Raises(j, got[j], FALSE)

(* A finalised job is charged by its outcome: a delivered file for its size *)
(* and as one file, any other job for neither storage nor a file.           *)
ChargesMatchOutcome ==
    \A j \in Jobs, b \in Buckets :
        state[j] # "none" /\ ~ open[j] /\ amount[j][b] > 0 =>
            IF state[j] = "completed"
            THEN consumed[j][b] = IF Dimension(b) = "job_count" THEN 1 ELSE got[j]
            ELSE Dimension(b) # "ingress_bytes" => consumed[j][b] = 0

(* A failure after transfer charges the actual ingress: all the bytes the   *)
(* job's own row says were transferred.  The worker reports 0 bytes for a   *)
(* failure that is not of its own making.                                   *)
FailureChargesIngress ==
    \A j \in Jobs, b \in Buckets :
        state[j] = "failed" /\ Dimension(b) = "ingress_bytes" /\ amount[j][b] > 0 =>
            consumed[j][b] >= bytes[j]

(* A job as the contract of QuotaContract sees it.                          *)
Stage == [j \in Jobs |-> IF state[j] = "none" THEN "new"
                         ELSE IF open[j] THEN "open" ELSE "settled"]

Claims == [j \in Jobs |-> [b \in Buckets |-> Held(j, b)]]

Contract ==
    INSTANCE QuotaContract WITH
        stage <- Stage, claim <- Claims, charge <- consumed, cap <- limit

(* The ledger, which sees only a bucket's two aggregates when it admits a   *)
(* job or lets it grow, implements the contract, which sums over the rows.  *)
KeepsQuotaContract == Contract!ContractSpec
============================================================================
