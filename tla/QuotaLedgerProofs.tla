------------------------- MODULE QuotaLedgerProofs -------------------------
(***************************************************************************)
(* Proofs about QuotaLedger for any number of jobs, any plans and limits,  *)
(* and any lengths of the windows.                                         *)
(***************************************************************************)
EXTENDS QuotaLedger, FiniteLemmas, TLAPS

(* The types the proofs need.  That the aggregates of a bucket are natural  *)
(* numbers follows from their being sums over the jobs, at the end.         *)
Typed ==
    /\ now \in 0..MaxTime
    /\ limit \in [Buckets -> Nat]
    /\ reserved \in [Buckets -> Int]
    /\ committed \in [Buckets -> Int]
    /\ state \in [Jobs -> JobStates]
    /\ open \in [Jobs -> BOOLEAN]
    /\ amount \in [Jobs -> [Buckets -> Nat]]
    /\ consumed \in [Jobs -> [Buckets -> Nat]]
    /\ maximum \in [Jobs -> Nat]
    /\ total \in [Jobs -> Nat]
    /\ bytes \in [Jobs -> Nat]
    /\ got \in [Jobs -> Nat]
    /\ reported \in [Jobs -> BOOLEAN]

(* Why settling never raises: every byte reservation of a job covers what   *)
(* the job's row says it transferred and may transfer without asking again, *)
(* a job that may still work has active reservations, and a worker's        *)
(* accepted report is in the row.                                           *)
Covered ==
    \A j \in Jobs :
        /\ state[j] \in Active => open[j]
        /\ state[j] = "none" => bytes[j] = 0 /\ ~ open[j]
        /\ open[j] => \A b \in Buckets :
                         Dimension(b) \in ByteDimensions /\ amount[j][b] > 0 =>
                             bytes[j] <= amount[j][b] /\ total[j] <= amount[j][b]
        /\ state[j] = "running" /\ reported[j] => got[j] <= bytes[j]

IInv == Typed /\ Covered /\ WithinLimit

LEMMA BucketFacts ==
    /\ \A b \in Buckets : b[1] \in Quotas /\ Dimension(b) \in ByteDimensions \union {"job_count"}
    /\ "job_count" \notin ByteDimensions
BY DEF Buckets, Quotas, Dimension, ByteDimensions

LEMMA InitIInv == Init => IInv
BY QuotaAssumption DEF QuotaAssumption, Init, IInv, Typed, Covered, WithinLimit, JobStates, Active

(* What reconcile charges in a bucket is a natural number, and covered by   *)
(* the job's reservation when the bytes are.                                *)
LEMMA BillFacts ==
    ASSUME Typed, NEW j \in Jobs, NEW b \in Buckets, NEW actual \in Nat, NEW success \in BOOLEAN
    PROVE  /\ Bill(j, b, actual, success) \in Nat
           /\ (Dimension(b) \in ByteDimensions /\ amount[j][b] > 0 => actual <= amount[j][b])
              => Bill(j, b, actual, success) <= amount[j][b]
<1>1. amount[j][b] \in Nat
  BY DEF Typed
<1>2. CASE Dimension(b) = "job_count"
  BY <1>1, <1>2 DEF Bill, Charge
<1>3. CASE Dimension(b) \in ByteDimensions
  <2>1. Charge(b, actual, success) \in {0, actual}
    BY <1>3 DEF Charge, ByteDimensions
  <2>2. QED
    BY <1>1, <1>3, <2>1 DEF Bill
<1>4. QED
  BY <1>2, <1>3, BucketFacts

(* Finalising a job takes from every bucket at least what it adds.          *)
LEMMA ReconcileKeeps ==
    ASSUME IInv, NEW j \in Jobs, NEW actual \in Nat, NEW success \in BOOLEAN,
           Reconcile(j, actual, success)
    PROVE  /\ limit' = limit /\ amount' = amount
           /\ reserved' \in [Buckets -> Int] /\ committed' \in [Buckets -> Int]
           /\ consumed' \in [Jobs -> [Buckets -> Nat]]
           /\ open' = [open EXCEPT ![j] = FALSE]
           /\ WithinLimit'
<1> USE DEF IInv, Typed
<1> DEFINE bill(b) == Bill(j, b, actual, success)
           freed(b) == Released(j, b, actual, success)
<1>1. \A b \in Buckets : bill(b) \in Nat /\ freed(b) \in Nat /\ bill(b) <= freed(b)
  <2> SUFFICES ASSUME NEW b \in Buckets
               PROVE  bill(b) \in Nat /\ freed(b) \in Nat /\ bill(b) <= freed(b)
    OBVIOUS
  <2>1. bill(b) \in Nat /\ amount[j][b] \in Nat
    BY BillFacts
  <2>2. bill(b) <= amount[j][b]
    BY <2>1 DEF Reconcile, Raises
  <2>3. QED
    BY <2>1, <2>2 DEF Released, Bill
<1>2. /\ limit' = limit /\ amount' = amount
      /\ open' = [open EXCEPT ![j] = FALSE]
      /\ reserved' = [b \in Buckets |-> reserved[b] - freed(b)]
      /\ committed' = [b \in Buckets |-> committed[b] + bill(b)]
      /\ consumed' = [consumed EXCEPT ![j] = [b \in Buckets |-> IF open[j] THEN bill(b) ELSE @[b]]]
  BY DEF Reconcile
<1> HIDE DEF bill, freed
<1>3. \A b \in Buckets : committed'[b] + reserved'[b] <= limit'[b]
  <2> SUFFICES ASSUME NEW b \in Buckets PROVE committed'[b] + reserved'[b] <= limit'[b]
    OBVIOUS
  <2>1. committed[b] + reserved[b] <= limit[b]
    BY DEF WithinLimit
  <2>2. QED
    BY <1>1, <1>2, <2>1
<1>4. QED
  BY <1>1, <1>2, <1>3 DEF WithinLimit

LEMMA NextIInv == IInv /\ [Next]_vars => IInv'
<1> SUFFICES ASSUME IInv, [Next]_vars PROVE IInv'
  OBVIOUS
<1>t. Typed /\ Covered /\ WithinLimit
  BY DEF IInv
<1> USE BucketFacts DEF buckets, rows, sizes, worker
<1>1. CASE Tick
  BY <1>1, <1>t, QuotaAssumption DEF Tick, IInv, Typed, Covered, WithinLimit, QuotaAssumption
<1>2. ASSUME NEW j \in Jobs, NEW plan \in Plans, NEW known \in BOOLEAN,
             NEW size \in 1..MaxFile[plan], Admit(j, plan, size, known)
      PROVE  IInv'
  <2> DEFINE new == [b \in Buckets |-> IF b \in Needed(plan) THEN Asked(b, size) ELSE 0]
  <2>1. MaxFile[plan] \in Nat /\ size \in Nat
    BY QuotaAssumption DEF QuotaAssumption
  <2>2. \A b \in Buckets : b \in Needed(plan) => Limit[plan][b[1]] \in Nat
    BY QuotaAssumption DEF QuotaAssumption, Needed, Current
  <2>3. /\ new \in [Buckets -> Nat]
        /\ \A b \in Buckets : Dimension(b) \in ByteDimensions /\ new[b] > 0 => new[b] = size
    BY <2>1 DEF Asked
  <2>4. /\ amount' = [amount EXCEPT ![j] = new]
        /\ reserved' = [b \in Buckets |-> reserved[b] + new[b]]
        /\ limit' = [b \in Buckets |-> IF b \in Needed(plan) THEN Limit[plan][b[1]] ELSE limit[b]]
        /\ state[j] = "none" /\ state' = [state EXCEPT ![j] = "queued"]
        /\ open' = [open EXCEPT ![j] = TRUE]
        /\ maximum' = [maximum EXCEPT ![j] = MaxFile[plan]]
        /\ total' = [total EXCEPT ![j] = IF known THEN size ELSE 0]
        /\ UNCHANGED <<now, committed, consumed, bytes, got, reported>>
    BY <1>2 DEF Admit
  <2>5. \A b \in Needed(plan) :
           committed[b] + reserved[b] + Asked(b, size) <= Limit[plan][b[1]]
    BY <1>2 DEF Admit, Fits
  <2>6. \A b \in Buckets : new[b] = IF b \in Needed(plan) THEN Asked(b, size) ELSE 0
    OBVIOUS
  <2> HIDE DEF new
  <2>7. Typed'
    BY <1>t, <2>1, <2>2, <2>3, <2>4 DEF Typed, JobStates
  <2>8. Covered'
    BY <1>t, <2>1, <2>3, <2>4 DEF Covered, Typed
  <2>9. WithinLimit'
    BY <1>t, <2>2, <2>3, <2>4, <2>5, <2>6 DEF WithinLimit, Typed
  <2>10. QED
    BY <2>7, <2>8, <2>9 DEF IInv
<1>3. ASSUME NEW j \in Jobs, Claim(j) PROVE IInv'
  BY <1>3, <1>t DEF Claim, IInv, Typed, Covered, WithinLimit, JobStates, Active
<1>4. ASSUME NEW j \in Jobs, Receive(j) PROVE IInv'
  BY <1>4, <1>t DEF Receive, IInv, Typed, Covered, WithinLimit
<1>5. ASSUME NEW j \in Jobs, Report(j) PROVE IInv'
  <2>1. /\ state[j] = "running" /\ state' = state /\ open' = open
        /\ bytes' = [bytes EXCEPT ![j] = IF got[j] > bytes[j] THEN got[j] ELSE bytes[j]]
        /\ reported' = [reported EXCEPT ![j] = TRUE]
        /\ UNCHANGED <<now, limit, committed, consumed, maximum, got>>
    BY <1>5 DEF Report
  <2>2. CASE got[j] > total[j]
    <3>1. \A b \in Buckets :
            /\ Missing(j, b) \in Nat
            /\ Missing(j, b) > 0 => amount[j][b] > 0
            /\ Dimension(b) \in ByteDimensions /\ amount[j][b] > 0
               => got[j] <= amount[j][b] + Missing(j, b)
      BY <1>t DEF Missing, Typed
    <3>2. /\ HasRoom(j)
          /\ reserved' = [b \in Buckets |-> reserved[b] + Missing(j, b)]
          /\ amount' = [amount EXCEPT ![j] = [b \in Buckets |-> amount[j][b] + Missing(j, b)]]
          /\ total' = [total EXCEPT ![j] = got[j]]
      BY <1>5, <2>2 DEF Report, TopUp
    <3>3. Typed'
      BY <1>t, <2>1, <3>1, <3>2 DEF Typed
    <3>4. Covered'
      BY <1>t, <2>1, <2>2, <3>1, <3>2 DEF Covered, Typed
    <3>5. WithinLimit'
      <4> SUFFICES ASSUME NEW b \in Buckets PROVE committed'[b] + reserved'[b] <= limit'[b]
        BY DEF WithinLimit
      <4>1. /\ committed[b] \in Int /\ reserved[b] \in Int /\ limit[b] \in Nat
            /\ reserved'[b] = reserved[b] + Missing(j, b)
            /\ committed'[b] = committed[b] /\ limit'[b] = limit[b]
        BY <1>t, <2>1, <3>2 DEF Typed
      <4>2. committed[b] + reserved[b] <= limit[b] /\ Missing(j, b) \in Nat
        BY <1>t, <3>1 DEF WithinLimit
      <4>3. Missing(j, b) > 0 => committed[b] + reserved[b] + Missing(j, b) <= limit[b]
        BY <3>2 DEF HasRoom
      <4>4. QED
        BY <4>1, <4>2, <4>3
    <3>6. QED
      BY <3>3, <3>4, <3>5 DEF IInv
  <2>3. CASE ~ (got[j] > total[j])
    <3>1. UNCHANGED <<reserved, amount, total>>
      BY <1>5, <2>3 DEF Report
    <3>2. Typed' /\ WithinLimit'
      BY <1>t, <2>1, <3>1 DEF Typed, WithinLimit
    <3>3. Covered'
      BY <1>t, <2>1, <2>3, <3>1 DEF Covered, Typed, Active
    <3>4. QED
      BY <3>2, <3>3 DEF IInv
  <2>4. QED
    BY <2>2, <2>3
<1>6. ASSUME NEW j \in Jobs, Denied(j) PROVE IInv'
  BY <1>6, <1>t DEF Denied, IInv, Typed, Covered, WithinLimit, JobStates, Active
<1>7. ASSUME NEW j \in Jobs, NEW actual \in Nat, NEW success \in BOOLEAN,
             Reconcile(j, actual, success),
             NEW s \in JobStates \ (Active \union {"none"}), state' = [state EXCEPT ![j] = s],
             NEW n \in Nat, bytes' = [bytes EXCEPT ![j] = n],
             UNCHANGED <<now, maximum, total, got, reported>>
      PROVE  IInv'
  <2>1. /\ limit' = limit /\ amount' = amount
        /\ reserved' \in [Buckets -> Int] /\ committed' \in [Buckets -> Int]
        /\ consumed' \in [Jobs -> [Buckets -> Nat]]
        /\ open' = [open EXCEPT ![j] = FALSE]
        /\ WithinLimit'
    BY <1>7, ReconcileKeeps
  <2>2. Typed'
    <3>1. state' \in [Jobs -> JobStates] /\ bytes' \in [Jobs -> Nat]
      BY <1>7, <1>t DEF Typed
    <3>2. open' \in [Jobs -> BOOLEAN]
      BY <2>1, <1>t DEF Typed
    <3>3. QED
      BY <1>7, <1>t, <2>1, <3>1, <3>2 DEF Typed
  <2>3. Covered'
    BY <1>7, <1>t, <2>1 DEF Covered, Typed, Active
  <2>4. QED
    BY <2>1, <2>2, <2>3 DEF IInv
<1>8. ASSUME NEW j \in Jobs, Complete(j) PROVE IInv'
  <2>1. got[j] \in Nat /\ bytes[j] \in Nat /\ bytes = [bytes EXCEPT ![j] = bytes[j]]
    BY <1>t DEF Typed
  <2>2. {"completed", "failed"} \subseteq JobStates \ (Active \union {"none"})
    BY DEF JobStates, Active
  <2>3. QED
    BY <1>7, <1>8, <2>1, <2>2 DEF Complete
<1>9. ASSUME NEW j \in Jobs, Fail(j) PROVE IInv'
  <2>1. PICK actual \in {0, got[j]} :
          /\ Reconcile(j, actual, FALSE)
          /\ bytes' = [bytes EXCEPT ![j] = IF actual > bytes[j] THEN actual ELSE bytes[j]]
    BY <1>9 DEF Fail
  <2>2. actual \in Nat /\ (IF actual > bytes[j] THEN actual ELSE bytes[j]) \in Nat
    BY <1>t DEF Typed
  <2>3. "failed" \in JobStates \ (Active \union {"none"})
    BY DEF JobStates, Active
  <2>4. QED
    BY <1>7, <1>9, <2>1, <2>2, <2>3 DEF Fail
<1>10. ASSUME NEW j \in Jobs, LoseWorker(j) PROVE IInv'
  BY <1>10, <1>t DEF LoseWorker, IInv, Typed, Covered, WithinLimit, JobStates, Active
<1>11. ASSUME NEW j \in Jobs, Expire(j) PROVE IInv'
  <2> DEFINE s == CASE state[j] = "queued" -> "expired"
                    [] state[j] \in Active \ {"queued"} -> "dead_letter"
                    [] OTHER -> state[j]
  <2>1. bytes[j] \in Nat /\ bytes = [bytes EXCEPT ![j] = bytes[j]] /\ state[j] \in JobStates
    BY <1>t DEF Typed
  <2>2. Reconcile(j, bytes[j], FALSE) /\ state' = [state EXCEPT ![j] = s] /\ open[j]
        /\ UNCHANGED <<now, maximum, total, bytes, got, reported>>
    BY <1>11 DEF Expire
  <2>3. s \in JobStates \ (Active \union {"none"})
    BY <1>t, <2>1, <2>2 DEF Covered, JobStates, Active
  <2>4. QED
    BY <1>7, <2>1, <2>2, <2>3
<1>12. CASE UNCHANGED vars
  BY <1>12, <1>t DEF vars, IInv, Typed, Covered, WithinLimit
<1>13. QED
  BY <1>1, <1>2, <1>3, <1>4, <1>5, <1>6, <1>8, <1>9, <1>10, <1>11, <1>12 DEF Next

(* What is used and reserved in a window stays within the limit last        *)
(* written to its bucket, for any plans a user is moved between.            *)
THEOREM WithinLimitHolds == Spec => []WithinLimit
<1>1. IInv => WithinLimit
  BY DEF IInv
<1>2. QED
  BY InitIInv, NextIInv, <1>1, PTL DEF Spec

(* Neither the dispatcher's expiry of a reservation nor the completion of a *)
(* download is ever refused for using more than is reserved.                *)
THEOREM SettlingNeverRaisesHolds == Spec => []SettlingNeverRaises
<1>1. ASSUME Typed, NEW j \in Jobs, NEW actual \in Nat, NEW success \in BOOLEAN,
             \A b \in Buckets : Dimension(b) \in ByteDimensions /\ amount[j][b] > 0
                                => actual <= amount[j][b]
      PROVE  ~ Raises(j, actual, success)
  <2>1. \A b \in Buckets : /\ Bill(j, b, actual, success) \in Nat
                           /\ amount[j][b] \in Nat
                           /\ Bill(j, b, actual, success) <= amount[j][b]
    BY <1>1, BillFacts DEF Typed
  <2>2. QED
    BY <2>1 DEF Raises
<1>2. IInv => SettlingNeverRaises
  <2> SUFFICES ASSUME IInv, NEW j \in Jobs
               PROVE  /\ open[j] => ~ Raises(j, bytes[j], FALSE)
                      /\ state[j] = "running" /\ reported[j] =>
                           ~ Raises(j, got[j], TRUE) /\ ~ Raises(j, got[j], FALSE)
    BY DEF SettlingNeverRaises
  <2>1. Typed /\ bytes[j] \in Nat /\ got[j] \in Nat /\ \A b \in Buckets : amount[j][b] \in Nat
    BY DEF IInv, Typed
  <2>2. open[j] => ~ Raises(j, bytes[j], FALSE)
    BY <1>1, <2>1 DEF IInv, Covered
  <2>3. ASSUME state[j] = "running", reported[j]
        PROVE  \A b \in Buckets : Dimension(b) \in ByteDimensions /\ amount[j][b] > 0
                                  => got[j] <= amount[j][b]
    BY <2>1, <2>3 DEF IInv, Covered, Active
  <2>4. QED
    BY <1>1, <2>1, <2>2, <2>3
<1>3. QED
  BY InitIInv, NextIInv, <1>2, PTL DEF Spec

(* How the bill of a job that is finalised depends on its end.              *)
LEMMA BillByOutcome ==
    ASSUME NEW j \in Jobs, open[j], NEW b \in Buckets, amount[j][b] > 0, NEW actual
    PROVE  /\ Bill(j, b, actual, TRUE) = IF Dimension(b) = "job_count" THEN 1 ELSE actual
           /\ Dimension(b) # "ingress_bytes" => Bill(j, b, actual, FALSE) = 0
<1>1. Dimension(b) \in {"ingress_bytes", "storage_bytes", "job_count"}
  BY BucketFacts DEF ByteDimensions
<1>2. QED
  BY <1>1 DEF Bill, Charge

(* A job that ended is charged by its outcome: a delivered file for its     *)
(* size and as one file, any other job for neither storage nor a file.  A   *)
(* delivered file has no active reservation that could be finalised again.  *)
THEOREM ChargesMatchOutcomeHolds == Spec => []ChargesMatchOutcome
<1> DEFINE Charged(j, b) ==
             state[j] # "none" /\ ~ open[j] /\ amount[j][b] > 0 =>
               IF state[j] = "completed"
               THEN consumed[j][b] = IF Dimension(b) = "job_count" THEN 1 ELSE got[j]
               ELSE Dimension(b) # "ingress_bytes" => consumed[j][b] = 0
           Outcome == \A j \in Jobs : /\ state[j] = "completed" => ~ open[j]
                                      /\ \A b \in Buckets : Charged(j, b)
<1>1. Init => Outcome
  BY DEF Init
<1>2. IInv /\ Outcome /\ [Next]_vars => Outcome'
  <2> SUFFICES ASSUME IInv, Outcome, [Next]_vars PROVE Outcome'
    OBVIOUS
  <2>t. Typed /\ \A j \in Jobs : state[j] \in Active => open[j]
    BY DEF IInv, Covered
  <2> USE DEF buckets, rows, sizes, worker
  <2>1. CASE UNCHANGED <<state, open, amount, consumed, got>>
    BY <2>1
  (* The job that a step is about is worked on, before and after.           *)
  <2>2. ASSUME NEW j \in Jobs, open'[j], state'[j] # "completed",
               \A i \in Jobs \ {j} :
                 /\ state'[i] = state[i] /\ open'[i] = open[i] /\ got'[i] = got[i]
                 /\ amount'[i] = amount[i] /\ consumed'[i] = consumed[i]
        PROVE  Outcome'
    <3>1. ASSUME NEW i \in Jobs, i # j
          PROVE  /\ (state[i] = "completed" => ~ open[i])'
                 /\ \A b \in Buckets : Charged(i, b)'
      BY <2>2, <3>1
    <3>2. QED
      BY <2>2, <3>1
  <2>3. ASSUME NEW j \in Jobs, NEW s, NEW f, UNCHANGED <<amount, got>>,
               state' = [state EXCEPT ![j] = s], open' = [open EXCEPT ![j] = FALSE],
               consumed' = [consumed EXCEPT ![j] = f],
               \A b \in Buckets :
                 amount[j][b] > 0 =>
                   IF s = "completed"
                   THEN f[b] = IF Dimension(b) = "job_count" THEN 1 ELSE got[j]
                   ELSE Dimension(b) # "ingress_bytes" => f[b] = 0
        PROVE  Outcome'
    <3>1. ASSUME NEW i \in Jobs, i # j
          PROVE  /\ (state[i] = "completed" => ~ open[i])'
                 /\ \A b \in Buckets : Charged(i, b)'
      <4>1. /\ state'[i] = state[i] /\ open'[i] = open[i] /\ got'[i] = got[i]
            /\ amount'[i] = amount[i] /\ consumed'[i] = consumed[i]
        BY <2>3, <2>t, <3>1 DEF Typed
      <4>2. QED
        BY <4>1
    <3>2. state'[j] = s /\ ~ open'[j] /\ consumed'[j] = f /\ got'[j] = got[j]
      BY <2>3, <2>t DEF Typed
    <3>3. /\ (state[j] = "completed" => ~ open[j])'
          /\ \A b \in Buckets : Charged(j, b)'
      BY <2>3, <3>2
    <3>4. QED
      BY <3>1, <3>3
  <2> HIDE DEF Outcome
  <2>4. ASSUME NEW j \in Jobs, open[j], Reconcile(j, got[j], TRUE), got' = got,
                state' = [state EXCEPT ![j] = "completed"]
         PROVE  Outcome'
    <3> DEFINE f == [b \in Buckets |-> Bill(j, b, got[j], TRUE)]
    <3>1. /\ consumed' = [consumed EXCEPT ![j] = f] /\ amount' = amount
          /\ open' = [open EXCEPT ![j] = FALSE]
      BY <2>4 DEF Reconcile
    <3>2. \A b \in Buckets : amount[j][b] > 0 =>
              f[b] = IF Dimension(b) = "job_count" THEN 1 ELSE got[j]
      BY <2>4, BillByOutcome
    <3> HIDE DEF f
    <3>3. QED
      BY <2>3, <2>4, <3>1, <3>2
  <2>5. ASSUME NEW j \in Jobs, open[j], NEW actual, Reconcile(j, actual, FALSE), got' = got,
                NEW s, s # "completed", state' = [state EXCEPT ![j] = s]
         PROVE  Outcome'
    <3> DEFINE f == [b \in Buckets |-> Bill(j, b, actual, FALSE)]
    <3>1. /\ consumed' = [consumed EXCEPT ![j] = f] /\ amount' = amount
          /\ open' = [open EXCEPT ![j] = FALSE]
      BY <2>5 DEF Reconcile
    <3>2. \A b \in Buckets :
              amount[j][b] > 0 => (Dimension(b) # "ingress_bytes" => f[b] = 0)
      BY <2>5, BillByOutcome
    <3> HIDE DEF f
    <3>3. \A b \in Buckets :
              amount[j][b] > 0 =>
                IF s = "completed"
                THEN f[b] = IF Dimension(b) = "job_count" THEN 1 ELSE got[j]
                ELSE Dimension(b) # "ingress_bytes" => f[b] = 0
      BY <2>5, <3>2
    <3>4. QED
      BY <2>3, <2>5, <3>1, <3>3
  <2>6. ASSUME NEW j \in Jobs, NEW plan \in Plans, NEW known \in BOOLEAN,
               NEW size \in 1..MaxFile[plan], Admit(j, plan, size, known)
        PROVE  Outcome'
    BY <2>2, <2>6, <2>t DEF Admit, Typed
  <2>7. ASSUME NEW j \in Jobs, Claim(j) \/ Receive(j) \/ Denied(j) \/ LoseWorker(j)
        PROVE  Outcome'
    BY <2>2, <2>7, <2>t DEF Claim, Receive, Denied, LoseWorker, Typed, Active
  <2>8. ASSUME NEW j \in Jobs, Report(j) PROVE Outcome'
    BY <2>2, <2>8, <2>t DEF Report, TopUp, Typed, Active
  <2>9. ASSUME NEW j \in Jobs, Complete(j) PROVE Outcome'
    <3>1. open[j] /\ got' = got
      BY <2>9, <2>t DEF Complete, Active
    <3>2. CASE Reconcile(j, got[j], TRUE) /\ state' = [state EXCEPT ![j] = "completed"]
      BY <2>4, <3>1, <3>2
    <3>3. CASE Reconcile(j, got[j], FALSE) /\ state' = [state EXCEPT ![j] = "failed"]
      BY <2>5, <3>1, <3>3
    <3>4. QED
      BY <2>9, <3>2, <3>3 DEF Complete
  <2>10. ASSUME NEW j \in Jobs, Fail(j) PROVE Outcome'
    <3>1. open[j] /\ got' = got /\ state' = [state EXCEPT ![j] = "failed"]
      BY <2>10, <2>t DEF Fail, Active
    <3>2. PICK actual \in {0, got[j]} : Reconcile(j, actual, FALSE)
      BY <2>10 DEF Fail
    <3>3. QED
      BY <2>5, <3>1, <3>2
  <2>11. ASSUME NEW j \in Jobs, Expire(j) PROVE Outcome'
    <3> DEFINE s == CASE state[j] = "queued" -> "expired"
                      [] state[j] \in Active \ {"queued"} -> "dead_letter"
                      [] OTHER -> state[j]
    <3>1. s # "completed"
      BY <2>11 DEF Expire, Active, Outcome
    <3>2. QED
      BY <2>11, <2>5, <3>1 DEF Expire
  <2>12. CASE Tick
    BY <2>1, <2>12 DEF Tick
  <2>13. QED
    BY <2>1, <2>6, <2>7, <2>8, <2>9, <2>10, <2>11, <2>12 DEF Next, vars
<1>3. Outcome => ChargesMatchOutcome
  BY DEF ChargesMatchOutcome
<1>4. QED
  BY InitIInv, NextIInv, <1>1, <1>2, <1>3, PTL DEF Spec

----------------------------------------------------------------------------
(* The aggregates of a bucket.                                              *)

Balance(b) ==
    /\ reserved[b] = SumFunction([j \in Jobs |-> Held(j, b)])
    /\ committed[b] = SumFunction([j \in Jobs |-> consumed[j][b]])

(* A job that is not settled yet has been charged nothing.                  *)
NotCharged ==
    \A j \in Jobs, b \in Buckets : open[j] \/ state[j] = "none" => consumed[j][b] = 0

(* Only one job's rows change in a step, and the aggregates by as much.     *)
Books(j) ==
    /\ \A i \in Jobs \ {j} :
          open'[i] = open[i] /\ amount'[i] = amount[i] /\ consumed'[i] = consumed[i]
    /\ \A b \in Buckets :
          /\ reserved'[b] = reserved[b] + Held(j, b)' - Held(j, b)
          /\ committed'[b] = committed[b] + consumed'[j][b] - consumed[j][b]

LEMMA BooksBalance ==
    ASSUME Typed, Typed', NEW j \in Jobs, Books(j), NEW b \in Buckets, Balance(b)
    PROVE  Balance(b)'
<1> DEFINE f == [i \in Jobs |-> Held(i, b)]
           h == [i \in Jobs |-> Held(i, b)']
           c == [i \in Jobs |-> consumed[i][b]]
           d == [i \in Jobs |-> consumed'[i][b]]
<1>1. IsFiniteSet(Jobs)
  BY QuotaAssumption DEF QuotaAssumption
<1>2. f \in [Jobs -> Int] /\ h \in [Jobs -> Int] /\ c \in [Jobs -> Int] /\ d \in [Jobs -> Int]
  <2>1. ASSUME NEW i \in Jobs
        PROVE  /\ amount[i][b] \in Nat /\ amount'[i][b] \in Nat
               /\ consumed[i][b] \in Nat /\ consumed'[i][b] \in Nat
    BY DEF Typed
  <2> QED
    BY <2>1 DEF Held
<1>3. \A i \in Jobs \ {j} : h[i] = f[i] /\ d[i] = c[i]
  BY DEF Books, Held
<1>4. h[j] = Held(j, b)' /\ f[j] = Held(j, b) /\ c[j] = consumed[j][b] /\ d[j] = consumed'[j][b]
  OBVIOUS
<1>5. /\ SumFunction(f) = reserved[b] /\ SumFunction(c) = committed[b]
      /\ reserved'[b] = reserved[b] + Held(j, b)' - Held(j, b)
      /\ committed'[b] = committed[b] + consumed'[j][b] - consumed[j][b]
  BY DEF Balance, Books
<1>6. Balance(b)' <=> reserved'[b] = SumFunction(h) /\ committed'[b] = SumFunction(d)
  BY DEF Balance
<1> HIDE DEF f, h, c, d
<1>7. SumFunction(h) = SumFunction(f) + h[j] - f[j]
  BY <1>1, <1>2, <1>3, SumUpdate
<1>8. SumFunction(d) = SumFunction(c) + d[j] - c[j]
  BY <1>1, <1>2, <1>3, SumUpdate
<1> QED
  BY <1>4, <1>5, <1>6, <1>7, <1>8

(* Every step keeps the books of one job.                                   *)
LEMMA StepsKeepBooks ==
    ASSUME IInv, NotCharged, [Next]_vars
    PROVE  \/ UNCHANGED <<reserved, committed, open, amount, consumed>>
           \/ \E j \in Jobs : Books(j)
<1>t. Typed /\ Covered
  BY DEF IInv
<1> USE DEF buckets, rows, sizes, worker
<1>1. ASSUME NEW j \in Jobs, NEW plan \in Plans, NEW known \in BOOLEAN,
             NEW size \in 1..MaxFile[plan], Admit(j, plan, size, known)
      PROVE  Books(j)
  <2> DEFINE new == [b \in Buckets |-> IF b \in Needed(plan) THEN Asked(b, size) ELSE 0]
  <2>1. /\ ~ open[j] /\ open' = [open EXCEPT ![j] = TRUE]
        /\ amount' = [amount EXCEPT ![j] = new]
        /\ reserved' = [b \in Buckets |-> reserved[b] + new[b]]
        /\ UNCHANGED <<committed, consumed>>
    BY <1>1, <1>t DEF Admit, Covered
  <2> HIDE DEF new
  <2>2. open'[j] = TRUE /\ amount'[j] = new
    BY <1>t, <2>1 DEF Typed
  <2>3. ASSUME NEW b \in Buckets
        PROVE  /\ reserved'[b] = reserved[b] + Held(j, b)' - Held(j, b)
               /\ committed'[b] = committed[b] + consumed'[j][b] - consumed[j][b]
    <3>1. Held(j, b) = 0 /\ Held(j, b)' = new[b] /\ reserved'[b] = reserved[b] + new[b]
      BY <2>1, <2>2 DEF Held
    <3>2. committed[b] \in Int /\ consumed[j][b] \in Nat /\ reserved[b] \in Int
      BY <1>t DEF Typed
    <3>3. new[b] \in Int
      <4>1. MaxFile[plan] \in Nat
        BY QuotaAssumption DEF QuotaAssumption
      <4> QED
        BY <4>1 DEF new, Asked
    <3>4. reserved'[b] = reserved[b] + Held(j, b)' - Held(j, b)
      BY <3>1, <3>2, <3>3
    <3>5. committed'[b] = committed[b] + consumed'[j][b] - consumed[j][b]
      BY <2>1, <3>2
    <3> QED
      BY <3>4, <3>5
  <2> QED
    BY <1>t, <2>1, <2>3 DEF Books, Typed
<1>2. ASSUME NEW j \in Jobs, Report(j)
      PROVE  \/ UNCHANGED <<reserved, committed, open, amount, consumed>>
             \/ Books(j)
  <2>1. CASE ~ (got[j] > total[j])
    BY <1>2, <2>1 DEF Report
  <2>2. CASE got[j] > total[j]
    <3>1. /\ reserved' = [b \in Buckets |-> reserved[b] + Missing(j, b)]
          /\ amount' = [amount EXCEPT ![j] = [b \in Buckets |-> amount[j][b] + Missing(j, b)]]
          /\ UNCHANGED <<committed, open, consumed>>
      BY <1>2, <2>2 DEF Report, TopUp
    <3>2. open[j]
      BY <1>2, <1>t DEF Report, Covered, Active
    <3>3. ASSUME NEW b \in Buckets
          PROVE  /\ reserved'[b] = reserved[b] + Held(j, b)' - Held(j, b)
                 /\ committed'[b] = committed[b] + consumed'[j][b] - consumed[j][b]
      <4>1. /\ committed[b] \in Int /\ consumed[j][b] \in Nat /\ reserved[b] \in Int
            /\ amount[j][b] \in Nat /\ got[j] \in Nat
        BY <1>t DEF Typed
      <4>2. Missing(j, b) \in Int
        BY <4>1 DEF Missing
      <4>3. /\ Held(j, b) = amount[j][b] /\ Held(j, b)' = amount[j][b] + Missing(j, b)
            /\ reserved'[b] = reserved[b] + Missing(j, b)
        BY <1>t, <3>1, <3>2 DEF Held, Typed
      <4> QED
        BY <3>1, <4>1, <4>2, <4>3
    <3> QED
      BY <1>t, <3>1, <3>3 DEF Books, Typed
  <2> QED
    BY <2>1, <2>2
<1>3. ASSUME NEW j \in Jobs, NEW actual \in Nat, NEW success \in BOOLEAN,
             Reconcile(j, actual, success)
      PROVE  Books(j)
  <2>1. /\ reserved' = [b \in Buckets |-> reserved[b] - Released(j, b, actual, success)]
        /\ committed' = [b \in Buckets |-> committed[b] + Bill(j, b, actual, success)]
        /\ consumed' = [consumed EXCEPT ![j] =
                         [b \in Buckets |-> IF open[j] THEN Bill(j, b, actual, success)
                                            ELSE consumed[j][b]]]
        /\ open' = [open EXCEPT ![j] = FALSE] /\ amount' = amount
    BY <1>3 DEF Reconcile
  <2>2. open'[j] = FALSE
    BY <1>t, <2>1 DEF Typed
  <2>3. ASSUME NEW b \in Buckets
        PROVE  /\ reserved'[b] = reserved[b] + Held(j, b)' - Held(j, b)
               /\ committed'[b] = committed[b] + consumed'[j][b] - consumed[j][b]
    <3>1. /\ committed[b] \in Int /\ consumed[j][b] \in Nat /\ reserved[b] \in Int
          /\ amount[j][b] \in Nat /\ Bill(j, b, actual, success) \in Nat
      BY <1>t, BillFacts DEF Typed
    <3>2. Held(j, b)' = 0 /\ Held(j, b) = Released(j, b, actual, success)
      BY <2>2 DEF Held, Released
    <3>3. consumed'[j][b] = IF open[j] THEN Bill(j, b, actual, success) ELSE consumed[j][b]
      BY <1>t, <2>1 DEF Typed
    <3>4. open[j] => consumed[j][b] = 0
      BY DEF NotCharged
    <3>5. ~ open[j] => Bill(j, b, actual, success) = 0
      BY DEF Bill
    <3>6. /\ reserved'[b] = reserved[b] - Released(j, b, actual, success)
          /\ committed'[b] = committed[b] + Bill(j, b, actual, success)
      BY <2>1
    <3>7. Released(j, b, actual, success) \in Nat
      BY <3>1 DEF Released
    <3>8. reserved'[b] = reserved[b] + Held(j, b)' - Held(j, b)
      BY <3>1, <3>2, <3>6, <3>7
    <3>9. committed'[b] = committed[b] + consumed'[j][b] - consumed[j][b]
      BY <3>1, <3>3, <3>4, <3>5, <3>6
    <3> QED
      BY <3>8, <3>9
  <2> QED
    BY <1>t, <2>1, <2>3 DEF Books, Typed
<1>4. ASSUME NEW j \in Jobs, Complete(j) \/ Fail(j) \/ Expire(j) PROVE Books(j)
  <2>1. got[j] \in Nat /\ bytes[j] \in Nat /\ 0 \in Nat
    BY <1>t DEF Typed
  <2>2. CASE Complete(j)
    BY <1>3, <2>1, <2>2 DEF Complete
  <2>3. CASE Fail(j)
    <3>1. PICK actual \in {0, got[j]} : Reconcile(j, actual, FALSE)
      BY <2>3 DEF Fail
    <3> QED
      BY <1>3, <2>1, <3>1
  <2>4. CASE Expire(j)
    BY <1>3, <2>1, <2>4 DEF Expire
  <2> QED
    BY <1>4, <2>2, <2>3, <2>4
<1>5. ASSUME NEW j \in Jobs, Claim(j) \/ Receive(j) \/ Denied(j) \/ LoseWorker(j)
      PROVE  UNCHANGED <<reserved, committed, open, amount, consumed>>
  BY <1>5 DEF Claim, Receive, Denied, LoseWorker
<1> QED
  BY <1>1, <1>2, <1>4, <1>5 DEF Next, Tick, vars

(* What is not settled stays uncharged.                                     *)
LEMMA NotChargedKept == IInv /\ NotCharged /\ [Next]_vars => NotCharged'
<1> SUFFICES ASSUME IInv, NotCharged, [Next]_vars,
                    NEW i \in Jobs, NEW b \in Buckets, open'[i] \/ state'[i] = "none"
             PROVE  consumed'[i][b] = 0
  BY DEF NotCharged
<1>t. Typed /\ Covered
  BY DEF IInv
<1> USE DEF buckets, rows, sizes, worker
<1>1. CASE consumed' = consumed /\ (state'[i] = "none" => state[i] = "none")
                                /\ (open'[i] => open[i] \/ state[i] = "none")
  BY <1>1 DEF NotCharged
<1>2. ASSUME NEW j \in Jobs, NEW actual, NEW success, Reconcile(j, actual, success),
             state'[j] # "none", \A k \in Jobs \ {j} : state'[k] = state[k]
      PROVE  consumed'[i][b] = 0
  <2>1. open' = [open EXCEPT ![j] = FALSE] /\ \A k \in Jobs \ {j} : consumed'[k] = consumed[k]
    BY <1>2, <1>t DEF Reconcile, Typed
  <2>2. i # j
    BY <1>2, <1>t, <2>1 DEF Typed
  <2> QED
    BY <1>2, <2>1, <2>2 DEF NotCharged
<1>3. ASSUME NEW j \in Jobs, Complete(j) \/ Fail(j) \/ Expire(j)
      PROVE  consumed'[i][b] = 0
  <2>1. /\ state'[j] # "none" /\ \A k \in Jobs \ {j} : state'[k] = state[k]
        /\ \E actual, success : Reconcile(j, actual, success)
    BY <1>3, <1>t DEF Complete, Fail, Expire, Covered, Typed, Active
  <2> QED
    BY <1>2, <2>1
<1>4. ASSUME NEW j \in Jobs, NEW plan \in Plans, NEW known \in BOOLEAN,
             NEW size \in 1..MaxFile[plan], Admit(j, plan, size, known)
      PROVE  consumed'[i][b] = 0
  BY <1>1, <1>4, <1>t DEF Admit, Typed
<1>5. ASSUME NEW j \in Jobs, Claim(j) \/ Receive(j) \/ Report(j) \/ Denied(j) \/ LoseWorker(j)
      PROVE  consumed'[i][b] = 0
  BY <1>1, <1>5, <1>t DEF Claim, Receive, Report, Denied, LoseWorker, Typed
<1>6. CASE Tick \/ UNCHANGED vars
  BY <1>1, <1>6 DEF Tick, vars
<1> QED
  BY <1>3, <1>4, <1>5, <1>6 DEF Next

(* The books balance, beside everything else that is invariant.             *)
LEMMA LedgerInvariant == Spec => [](IInv /\ NotCharged /\ LedgerBalances)
<1>1. LedgerBalances <=> \A b \in Buckets : Balance(b)
  BY DEF LedgerBalances, Balance
<1>2. Init => NotCharged /\ LedgerBalances
  <2> SUFFICES ASSUME Init PROVE NotCharged /\ \A b \in Buckets : Balance(b)
    BY <1>1
  <2>1. NotCharged
    BY DEF Init, NotCharged
  <2>2. ASSUME NEW b \in Buckets PROVE Balance(b)
    <3> DEFINE f == [j \in Jobs |-> Held(j, b)]
               c == [j \in Jobs |-> consumed[j][b]]
    <3>1. /\ DOMAIN f = Jobs /\ \A i \in Jobs : f[i] = 0
          /\ DOMAIN c = Jobs /\ \A i \in Jobs : c[i] = 0
      BY DEF Init, Held
    <3>2. IsFiniteSet(Jobs)
      BY QuotaAssumption DEF QuotaAssumption
    <3>3. reserved[b] = 0 /\ committed[b] = 0
      BY DEF Init
    <3>4. Balance(b) <=> reserved[b] = SumFunction(f) /\ committed[b] = SumFunction(c)
      BY DEF Balance
    <3> HIDE DEF f, c
    <3>5. SumFunction(f) = 0 /\ SumFunction(c) = 0
      BY <3>1, <3>2, SumZero
    <3> QED
      BY <3>3, <3>4, <3>5
  <2> QED
    BY <2>1, <2>2
<1>3. IInv /\ IInv' /\ NotCharged /\ LedgerBalances /\ [Next]_vars => LedgerBalances'
  <2> SUFFICES ASSUME IInv, IInv', NotCharged, LedgerBalances, [Next]_vars
               PROVE  LedgerBalances'
    OBVIOUS
  <2>1. CASE UNCHANGED <<reserved, committed, open, amount, consumed>>
    BY <2>1 DEF LedgerBalances, Held
  <2>2. ASSUME NEW j \in Jobs, Books(j) PROVE LedgerBalances'
    <3>1. \A b \in Buckets : Balance(b)'
      BY <1>1, <2>2, BooksBalance DEF IInv
    <3> QED
      BY <3>1 DEF LedgerBalances, Balance
  <2> QED
    BY <2>1, <2>2, StepsKeepBooks
<1> QED
  BY <1>2, <1>3, InitIInv, NextIInv, NotChargedKept, PTL DEF Spec

(* LedgerBalances: the aggregates of every bucket are the sums over the     *)
(* reservations of all jobs, after any sequence of transactions.            *)
THEOREM LedgerBalancesHolds == Spec => []LedgerBalances
BY LedgerInvariant, PTL

(* TypeOK: sums of natural numbers, so no bucket ever goes below zero.      *)
THEOREM TypeCorrect == Spec => []TypeOK
<1>1. IInv /\ LedgerBalances => TypeOK
  <2> SUFFICES ASSUME Typed, LedgerBalances PROVE TypeOK
    BY DEF IInv
  <2>1. ASSUME NEW b \in Buckets PROVE reserved[b] \in Nat /\ committed[b] \in Nat
    <3> DEFINE f == [j \in Jobs |-> Held(j, b)]
               c == [j \in Jobs |-> consumed[j][b]]
    <3>1. f \in [Jobs -> Nat] /\ c \in [Jobs -> Nat]
      BY DEF Typed, Held
    <3>2. reserved[b] = SumFunction(f) /\ committed[b] = SumFunction(c)
      BY DEF LedgerBalances
    <3>3. IsFiniteSet(Jobs)
      BY QuotaAssumption DEF QuotaAssumption
    <3> HIDE DEF f, c
    <3> QED
      BY <3>1, <3>2, <3>3, SumNat
  <2> QED
    BY <2>1 DEF Typed, TypeOK
<1> QED
  BY <1>1, LedgerInvariant, PTL

----------------------------------------------------------------------------
(* The contract.                                                            *)

Shown == IInv /\ NotCharged /\ LedgerBalances

(* An instance has its own copy of the sum.                                 *)
LEMMA SameSum == \A f : Contract!SumFunction(f) = SumFunction(f)
BY DEF SumFunction, SumFunctionOnSet, FoldFunctionOnSet, MapThenFoldSet,
       Contract!SumFunction, Contract!SumFunctionOnSet, Contract!FoldFunctionOnSet,
       Contract!MapThenFoldSet

UsedFits == \A b \in Buckets : Contract!Used(b) <= limit[b]

(* What the contract sums over the jobs is what the bucket's row says, and  *)
(* so within the limit.                                                     *)
LEMMA UsedWithinLimit == Shown => UsedFits
<1> SUFFICES ASSUME Shown, NEW b \in Buckets PROVE Contract!Used(b) <= limit[b]
  BY DEF UsedFits
<1> DEFINE f == [j \in Jobs |-> Held(j, b)]
           c == [j \in Jobs |-> consumed[j][b]]
           both == [j \in Jobs |-> f[j] + c[j]]
<1>1. Typed /\ IsFiniteSet(Jobs)
  BY QuotaAssumption DEF Shown, IInv, QuotaAssumption
<1>2. f \in [Jobs -> Int] /\ c \in [Jobs -> Int]
  BY <1>1 DEF Typed, Held
<1>3. reserved[b] = SumFunction(f) /\ committed[b] = SumFunction(c)
  BY DEF Shown, LedgerBalances
<1>4. Contract!Used(b) = SumFunction(both)
  <2>1. \A j \in Jobs : Claims[j][b] = f[j]
    BY DEF Claims
  <2>2. [j \in Jobs |-> Claims[j][b] + consumed[j][b]] = both
    BY <2>1
  <2>3. Contract!Used(b) = Contract!SumFunction(both)
    BY <2>2 DEF Contract!Used
  <2> QED
    BY <2>3, SameSum
<1> HIDE DEF f, c
<1>5. SumFunction(both) = SumFunction(f) + SumFunction(c)
  BY <1>1, <1>2, SumPlus
<1>6. /\ committed[b] \in Int /\ reserved[b] \in Int
      /\ committed[b] + reserved[b] <= limit[b] /\ limit[b] \in Int
  BY <1>1 DEF Shown, IInv, Typed, WithinLimit
<1> QED
  BY <1>3, <1>4, <1>5, <1>6

LEMMA ContractInitially == Init => Contract!ContractInit
<1> SUFFICES ASSUME Init PROVE Contract!ContractInit
  OBVIOUS
<1>1. Stage = [j \in Jobs |-> "new"]
  BY DEF Init, Stage
<1>2. Claims = [j \in Jobs |-> [b \in Buckets |-> 0]]
  BY DEF Init, Claims, Held
<1> QED
  BY <1>1, <1>2 DEF Init, Contract!ContractInit, Contract!Nothing

(* Admission takes claims, a top-up raises them, reconcile settles them.    *)
LEMMA ContractStep ==
    ASSUME Shown, Shown', [Next]_vars
    PROVE  [Contract!ContractNext]_<<Stage, Claims, consumed, limit>>
<1> DEFINE Same == UNCHANGED <<Stage, Claims, consumed, limit>>
           OthersKeep(j) == \A i \in Jobs \ {j} : open'[i] = open[i] /\ amount'[i] = amount[i]
<1>t. Typed /\ Typed' /\ Covered
  BY DEF Shown, IInv
<1>u. \A b \in Buckets : Contract!Used(b)' <= limit'[b]
  <2>1. UsedFits'
    BY UsedWithinLimit, PTL
  <2> QED
    BY <2>1 DEF UsedFits
<1> USE DEF buckets, rows, sizes, worker
<1>o. ASSUME NEW j \in Jobs, OthersKeep(j)
      PROVE  \A i \in Jobs \ {j} : Claims'[i] = Claims[i]
  BY <1>o DEF Claims, Held
<1>1. ASSUME NEW j \in Jobs, NEW plan \in Plans, NEW known \in BOOLEAN,
             NEW size \in 1..MaxFile[plan], Admit(j, plan, size, known)
      PROVE  Contract!Open(j)
  <2> DEFINE new == [b \in Buckets |-> IF b \in Needed(plan) THEN Asked(b, size) ELSE 0]
  <2>1. /\ state[j] = "none" /\ state' = [state EXCEPT ![j] = "queued"]
        /\ open' = [open EXCEPT ![j] = TRUE]
        /\ amount' = [amount EXCEPT ![j] = new]
        /\ limit' = [b \in Buckets |-> IF b \in Needed(plan) THEN Limit[plan][b[1]] ELSE limit[b]]
        /\ consumed' = consumed
    BY <1>1 DEF Admit
  <2>2. \A b \in Buckets : new[b] = IF b \in Needed(plan) THEN Asked(b, size) ELSE 0
    OBVIOUS
  <2> HIDE DEF new
  <2>3. Stage[j] = "new" /\ Stage' = [Stage EXCEPT ![j] = "open"]
    BY <1>t, <2>1 DEF Stage, Typed
  <2>4. OthersKeep(j)
    BY <1>t, <2>1 DEF Typed
  <2>5. ASSUME NEW b \in Buckets, ~ (Claims'[j][b] > 0) PROVE limit'[b] = limit[b]
    <3>1. Claims'[j][b] = new[b]
      BY <1>t, <2>1 DEF Claims, Held, Typed
    <3>2. Asked(b, size) > 0
      <4>1. MaxFile[plan] \in Nat
        BY QuotaAssumption DEF QuotaAssumption
      <4> QED
        BY <4>1 DEF Asked
    <3>3. b \notin Needed(plan)
      BY <2>2, <2>5, <3>1, <3>2
    <3> QED
      BY <2>1, <3>3
  <2>6. \A i \in Jobs \ {j} : Claims'[i] = Claims[i]
    BY <1>o, <2>4
  <2>7. \A b \in Buckets : IF Claims'[j][b] > 0 THEN Contract!Used(b)' <= limit'[b]
                            ELSE limit'[b] = limit[b]
    BY <1>u, <2>5
  <2> QED
    BY <2>1, <2>3, <2>6, <2>7 DEF Contract!Open, Contract!OthersKeepClaims
<1>2. ASSUME NEW j \in Jobs, Report(j) PROVE Contract!Raise(j) \/ Same
  <2>1. /\ state[j] = "running" /\ state' = state /\ open' = open /\ limit' = limit
        /\ consumed' = consumed
    BY <1>2 DEF Report
  <2>2. Stage' = Stage
    BY <2>1 DEF Stage
  <2>3. CASE ~ (got[j] > total[j])
    <3>1. amount' = amount
      BY <1>2, <2>3 DEF Report
    <3> QED
      BY <2>1, <2>2, <3>1 DEF Claims, Held
  <2>4. CASE got[j] > total[j]
    <3>1. amount' = [amount EXCEPT ![j] = [b \in Buckets |-> amount[j][b] + Missing(j, b)]]
      BY <1>2, <2>4 DEF Report, TopUp
    <3>2. open[j] /\ Stage[j] = "open"
      BY <1>t, <2>1 DEF Covered, Active, Stage
    <3>3. ASSUME NEW b \in Buckets
          PROVE  \/ Claims'[j][b] = Claims[j][b]
                 \/ /\ Claims'[j][b] > Claims[j][b] /\ Claims[j][b] > 0
                    /\ Contract!Used(b)' <= limit[b]
      <4>1. /\ Claims[j][b] = amount[j][b]
            /\ Claims'[j][b] = amount[j][b] + Missing(j, b)
        BY <1>t, <2>1, <3>1, <3>2 DEF Claims, Held, Typed
      <4>2. /\ amount[j][b] \in Nat /\ Missing(j, b) \in Nat
            /\ Missing(j, b) > 0 => amount[j][b] > 0
        BY <1>t DEF Missing, Typed
      <4>3. Contract!Used(b)' <= limit[b]
        BY <1>u, <2>1
      <4> QED
        BY <4>1, <4>2, <4>3
    <3>4. \A i \in Jobs \ {j} : Claims'[i] = Claims[i]
      BY <1>o, <1>t, <2>1, <3>1 DEF Typed
    <3> QED
      BY <2>1, <2>2, <3>2, <3>3, <3>4 DEF Contract!Raise, Contract!OthersKeepClaims
  <2> QED
    BY <2>3, <2>4
<1>3. ASSUME NEW j \in Jobs, open[j], NEW actual \in Nat, NEW success \in BOOLEAN,
             Reconcile(j, actual, success), NEW s, s # "none", state' = [state EXCEPT ![j] = s]
      PROVE  Contract!Settle(j)
  <2>1. /\ consumed' = [consumed EXCEPT ![j] = [b \in Buckets |-> Bill(j, b, actual, success)]]
        /\ open' = [open EXCEPT ![j] = FALSE] /\ amount' = amount /\ limit' = limit
    BY <1>3 DEF Reconcile
  <2>2. state[j] # "none"
    BY <1>3, <1>t DEF Covered
  <2>3. Stage[j] = "open" /\ Stage' = [Stage EXCEPT ![j] = "settled"]
    BY <1>3, <1>t, <2>1, <2>2 DEF Stage, Typed
  <2>4. \A b \in Buckets : consumed'[j][b] \in 0..Claims[j][b]
    <3> SUFFICES ASSUME NEW b \in Buckets PROVE consumed'[j][b] \in 0..Claims[j][b]
      OBVIOUS
    <3>1. consumed'[j][b] = Bill(j, b, actual, success) /\ Claims[j][b] = amount[j][b]
      BY <1>3, <1>t, <2>1 DEF Claims, Held, Typed
    <3>2. Bill(j, b, actual, success) \in Nat /\ amount[j][b] \in Nat
      BY <1>t, BillFacts DEF Typed
    <3>3. Bill(j, b, actual, success) <= amount[j][b]
      BY <1>3, <3>2 DEF Reconcile, Raises
    <3> QED
      BY <3>1, <3>2, <3>3
  <2>5. Claims' = [Claims EXCEPT ![j] = [b \in Buckets |-> 0]]
    <3>1. \A i \in Jobs \ {j} : Claims'[i] = Claims[i]
      BY <1>o, <1>t, <2>1 DEF Typed
    <3>2. Claims'[j] = [b \in Buckets |-> 0]
      BY <1>t, <2>1 DEF Claims, Held, Typed
    <3>3. Claims = [i \in Jobs |-> Claims[i]] /\ Claims' = [i \in Jobs |-> Claims'[i]]
      BY DEF Claims
    <3> HIDE DEF Claims
    <3> QED
      BY <3>1, <3>2, <3>3
  <2>6. \A i \in Jobs \ {j} : consumed'[i] = consumed[i]
    BY <1>t, <2>1 DEF Typed
  <2> QED
    BY <2>1, <2>3, <2>4, <2>5, <2>6 DEF Contract!Settle, Contract!Nothing
<1>4. ASSUME NEW j \in Jobs, Complete(j) \/ Fail(j) \/ Expire(j) PROVE Contract!Settle(j)
  <2>1. got[j] \in Nat /\ bytes[j] \in Nat /\ 0 \in Nat
    BY <1>t DEF Typed
  <2>2. CASE Complete(j)
    <3>1. open[j]
      BY <1>t, <2>2 DEF Complete, Covered, Active
    <3> QED
      BY <1>3, <2>1, <2>2, <3>1 DEF Complete
  <2>3. CASE Fail(j)
    <3>1. open[j] /\ state' = [state EXCEPT ![j] = "failed"]
      BY <1>t, <2>3 DEF Fail, Covered, Active
    <3>2. PICK actual \in {0, got[j]} : Reconcile(j, actual, FALSE)
      BY <2>3 DEF Fail
    <3> QED
      BY <1>3, <2>1, <3>1, <3>2
  <2>4. CASE Expire(j)
    <3> DEFINE s == CASE state[j] = "queued" -> "expired"
                      [] state[j] \in Active \ {"queued"} -> "dead_letter"
                      [] OTHER -> state[j]
    <3>1. open[j] /\ Reconcile(j, bytes[j], FALSE) /\ state' = [state EXCEPT ![j] = s]
      BY <2>4 DEF Expire
    <3>2. s # "none"
      BY <1>t, <3>1 DEF Covered, Active
    <3> HIDE DEF s
    <3> QED
      BY <1>3, <2>1, <3>1, <3>2
  <2> QED
    BY <1>4, <2>2, <2>3, <2>4
<1>5. ASSUME UNCHANGED <<open, amount, consumed, limit>>,
             \A j \in Jobs : state'[j] = "none" <=> state[j] = "none"
      PROVE  Same
  <2>1. Stage' = Stage
    BY <1>5 DEF Stage
  <2>2. Claims' = Claims
    BY <1>5 DEF Claims, Held
  <2> QED
    BY <1>5, <2>1, <2>2
<1>6. ASSUME NEW j \in Jobs, Claim(j) \/ Receive(j) \/ Denied(j) \/ LoseWorker(j) PROVE Same
  BY <1>5, <1>6, <1>t DEF Claim, Receive, Denied, LoseWorker, Typed
<1>7. ASSUME Tick \/ UNCHANGED vars PROVE Same
  BY <1>5, <1>7 DEF Tick, vars
<1> HIDE DEF Same
<1>8. (\E j \in Jobs : Contract!Open(j) \/ Contract!Raise(j) \/ Contract!Settle(j)) \/ Same
  BY <1>1, <1>2, <1>4, <1>6, <1>7 DEF Next
<1> QED
  BY <1>8 DEF Contract!ContractNext, Same

(* KeepsQuotaContract: seeing only two aggregates per bucket, and plans and *)
(* windows that change under the jobs, reserve, top_up and reconcile do     *)
(* what a ledger that adds up every claim and charge would do.              *)
THEOREM KeepsQuotaContractHolds == Spec => KeepsQuotaContract
<1>1. Shown /\ Shown' /\ [Next]_vars => [Contract!ContractNext]_Contract!contract
  BY ContractStep DEF Contract!contract
<1>2. Spec => []Shown
  BY LedgerInvariant, PTL DEF Shown
<1> QED
  BY <1>1, <1>2, ContractInitially, PTL DEF Spec, KeepsQuotaContract, Contract!ContractSpec

============================================================================
