----------------------------- MODULE JobQueue -----------------------------
(***************************************************************************)
(* The durable job queue: jobs live in PostgreSQL rows, a dispatcher       *)
(* publishes one outbox event per dispatch to a Redis stream, the API      *)
(* claims stream entries for workers, and workers report through HTTP.     *)
(*                                                                         *)
(* One action is one database transaction, one Redis command, or one step  *)
(* of a worker; the dispatcher is a single sequential process.  A lease is *)
(* a random token per dispatch, so the pair (job, generation) stands for   *)
(* it, and the clock is reduced to whether the lease still runs.  XACK     *)
(* only removes an entry from a pending list that no code reads again, so  *)
(* an entry simply leaves the stream when it is delivered.                 *)
(***************************************************************************)
EXTENDS JobStates, FiniteSets

CONSTANTS
    Downloads,    \* jobs that users submit and that hold quota reservations
    Children,     \* jobs that a finished download may schedule
    Parent,       \* [Children -> Downloads]
    JobType,      \* [Downloads \union Children -> JobTypes]
    Workers,      \* worker processes
    NoTask,       \* what an idle worker holds
    MaxAttempts,  \* jobs.max_attempts
    PublishLimit, \* publish attempts of one outbox event
    MaxGen,       \* bound: dispatches of one job
    MaxCopies,    \* bound: XADDs of one dispatch
    MaxCalls      \* bound: final reports on their way at once

Jobs == Downloads \union Children
Gens == 1..MaxGen
Entry == [job : Jobs, gen : Gens, id : 1..MaxCopies]
Call == [kind : {"complete", "fail"}, worker : Workers, entry : Entry,
         over : BOOLEAN]
Event == [state : {"none", "pending", "failed", "published"},
          tries : 0..PublishLimit, id : 0..MaxCopies]

ASSUME JobQueueAssumption ==
    /\ Downloads \intersect Children = {}
    /\ Parent \in [Children -> Downloads]
    /\ JobType \in [Jobs -> JobTypes]
    /\ \A j \in Jobs : j \in Children <=> JobType[j] \in ChildTypes
    /\ NoTask \notin Entry
    /\ MaxAttempts \in Nat \ {0}
    /\ PublishLimit \in Nat /\ MaxGen \in Nat /\ MaxCopies \in Nat /\ MaxCalls \in Nat

VARIABLES
    status,       \* [Jobs -> States \union {"absent"}]: jobs.status
    generation,   \* jobs.dispatch_generation
    attempts,     \* jobs.attempt_count
    lease,        \* "none", or whether lease_expires_at is "live" or "expired"
    reservation,  \* [Downloads -> ...]: the job's quota_reservations rows
    files,        \* [Downloads -> Nat]: files rows created by the job
    outbox,       \* [Jobs \X Gens -> Event]: the job.dispatched outbox row
    added,        \* [Jobs \X Gens -> 0..MaxCopies]: XADDs, the source of entry ids
    batch,        \* outcomes in the publisher's open transaction; id 0 is a failed XADD
    stream,       \* entries not delivered yet
    phase,        \* [Workers -> Phases]
    task,         \* [Workers -> Entry \union {NoTask}]
    seen,         \* [Workers -> BOOLEAN]: lease running when a claim read the clock
    calls         \* final reports on their way to the API

rows == <<status, generation, attempts, lease, reservation, files>>
transport == <<outbox, added, batch, stream>>
side == <<phase, task, seen, calls>>
vars == <<rows, transport, side>>

Phases == {"idle", "read", "work", "finish", "denied", "failing"}
HoldingPhases == Phases \ {"idle", "read"}

(* "overdue" is an active reservation whose expires_at has passed.          *)
Held(d) == reservation[d] \in {"active", "overdue"}

NoEvent == [state |-> "none", tries |-> 0, id |-> 0]

Init ==
    /\ status = [j \in Jobs |-> "absent"]
    /\ generation = [j \in Jobs |-> 0]
    /\ attempts = [j \in Jobs |-> 0]
    /\ lease = [j \in Jobs |-> "none"]
    /\ reservation = [d \in Downloads |-> "none"]
    /\ files = [d \in Downloads |-> 0]
    /\ outbox = [d \in Jobs \X Gens |-> NoEvent]
    /\ added = [d \in Jobs \X Gens |-> 0]
    /\ batch = {}
    /\ stream = {}
    /\ phase = [w \in Workers |-> "idle"]
    /\ task = [w \in Workers |-> NoTask]
    /\ seen = [w \in Workers |-> FALSE]
    /\ calls = {}

----------------------------------------------------------------------------
(* Quota, as far as the life of a job sees it.                              *)

(* touch: a live lease keeps the job's reservations from expiring.          *)
Touched(j) ==
    IF j \in Downloads /\ Held(j) THEN [reservation EXCEPT ![j] = "active"] ELSE reservation

(* Wrong: the bucket is updated, the reservation stays active.              *)
ReconciledNever(j) == reservation

(* reconcile: only active reservations are finalised; a second call is a    *)
(* no-op.                                                                   *)
Reconciled(j) ==
    IF j \in Downloads /\ Held(j) THEN [reservation EXCEPT ![j] = "settled"] ELSE reservation

----------------------------------------------------------------------------
(* Admission, and time.                                                     *)

Admit(d) ==
    /\ status[d] = "absent"
    /\ status' = [status EXCEPT ![d] = "queued"]
    /\ reservation' = [reservation EXCEPT ![d] = "active"]
    /\ UNCHANGED <<generation, attempts, lease, files, transport, side>>

(* Nothing reads the lease of a job that has ended.                         *)
LeaseExpires(j) ==
    /\ lease[j] = "live" /\ status[j] \in LeasedStates
    /\ lease' = [lease EXCEPT ![j] = "expired"]
    /\ UNCHANGED <<status, generation, attempts, reservation, files, transport, side>>

ReservationExpires(d) ==
    /\ reservation[d] = "active"
    /\ reservation' = [reservation EXCEPT ![d] = "overdue"]
    /\ UNCHANGED <<status, generation, attempts, lease, files, transport, side>>

----------------------------------------------------------------------------
(* The dispatcher process: one cycle transaction, then one publisher        *)
(* transaction.  A cycle handles job rows one by one; each action is what   *)
(* it does to one of them.                                                  *)

(* Wrong: a dispatched job that nobody claimed is forgotten.                *)
LostClaimed(j) == status[j] \in RunningStates /\ lease[j] = "expired"

Lost(j) == status[j] \in LeasedStates /\ lease[j] = "expired"

(* Wrong: the last attempt is off by one.                                   *)
RecoveredStateLate(j) == IF attempts[j] > MaxAttempts THEN "dead_letter" ELSE "queued"

RecoveredState(j) == IF attempts[j] >= MaxAttempts THEN "dead_letter" ELSE "queued"

RecoverExpired(j) ==
    /\ batch = {}
    /\ Lost(j)
    /\ status' = [status EXCEPT ![j] = RecoveredState(j)]
    /\ lease' = [lease EXCEPT ![j] = "none"]
    /\ UNCHANGED <<generation, attempts, reservation, files, transport, side>>

(* Wrong: only jobs that still wait or run are looked at.                   *)
OverdueActive(d) == reservation[d] = "overdue" /\ status[d] \in ActiveStates

Overdue(d) == reservation[d] = "overdue"

(* Wrong: a job in the queue keeps waiting.                                 *)
ExpiredStateLeasedOnly(s) == IF s \in LeasedStates THEN "dead_letter" ELSE s

(* Wrong: whatever is not leased is taken to be in the queue.               *)
ExpiredStateOtherwise(s) == IF s \in LeasedStates THEN "dead_letter" ELSE "expired"

(* What becomes of a job whose reservation has run out; a job that ended    *)
(* stays as it is.                                                          *)
ExpiredState(s) ==
    CASE s = "queued"         -> "expired"
      [] s \in ActiveStates \ {"queued"} -> "dead_letter"
      [] OTHER                -> s

(* The job's overdue reservation is finalised, unless a lease still runs.   *)
ReconcileExpired(d) ==
    /\ batch = {}
    /\ Overdue(d)
    /\ IF status[d] \in ActiveStates /\ lease[d] = "live"
       THEN /\ reservation' = Touched(d)
            /\ UNCHANGED status
       ELSE /\ reservation' = Reconciled(d)
            /\ status' = [status EXCEPT ![d] = ExpiredState(@)]
    /\ UNCHANGED <<generation, attempts, lease, files, transport, side>>

Dispatch(j) ==
    /\ batch = {}
    /\ status[j] = "queued"
    /\ generation[j] < MaxGen
    /\ status' = [status EXCEPT ![j] = "dispatched"]
    /\ generation' = [generation EXCEPT ![j] = @ + 1]
    /\ lease' = [lease EXCEPT ![j] = "live"]
    /\ outbox' = [outbox EXCEPT ![<<j, generation[j] + 1>>] = [NoEvent EXCEPT !.state = "pending"]]
    /\ UNCHANGED <<attempts, reservation, files, added, batch, stream, side>>

(* Wrong: a failing event is sent without end.                              *)
SendableAlways(j, g) ==
    /\ outbox[<<j, g>>].state \in {"pending", "failed"}
    /\ added[<<j, g>>] < MaxCopies
    /\ \A b \in batch : <<b.job, b.gen>> # <<j, g>>

(* An event the publisher may still send in this batch.  A failed event     *)
(* waits out a back-off first, so a batch may also end without it.          *)
Sendable(j, g) ==
    /\ outbox[<<j, g>>].state \in {"pending", "failed"}
    /\ outbox[<<j, g>>].tries < PublishLimit
    /\ added[<<j, g>>] < MaxCopies
    /\ \A b \in batch : <<b.job, b.gen>> # <<j, g>>

(* XADD succeeds, fails, or takes effect although its reply is lost.        *)
XAdd(j, g) ==
    /\ Sendable(j, g)
    /\ \E sent, replied \in BOOLEAN :
         /\ replied => sent
         /\ LET id == added[<<j, g>>] + 1 IN
              /\ batch' = batch \union {[job |-> j, gen |-> g, id |-> IF replied THEN id ELSE 0]}
              /\ IF sent
                 THEN /\ stream' = stream \union {[job |-> j, gen |-> g, id |-> id]}
                      /\ added' = [added EXCEPT ![<<j, g>>] = id]
                 ELSE UNCHANGED <<stream, added>>
    /\ UNCHANGED <<rows, outbox, side>>

(* What the batch's transaction writes to an event row it handled.          *)
Outcome(event, b) ==
    IF b.id > 0
    THEN [event EXCEPT !.state = "published", !.id = b.id]
    ELSE [event EXCEPT !.state = "failed", !.tries = @ + 1]

PublishCommit ==
    /\ batch # {}
    /\ \A j \in Jobs, g \in Gens : Sendable(j, g) => outbox[<<j, g>>].state = "failed"
    /\ outbox' = [d \in Jobs \X Gens |->
                    IF \E b \in batch : <<b.job, b.gen>> = d
                    THEN Outcome(outbox[d], CHOOSE b \in batch : <<b.job, b.gen>> = d)
                    ELSE outbox[d]]
    /\ batch' = {}
    /\ UNCHANGED <<rows, added, stream, side>>

(* The commit fails or the process dies: the rows stay as they were, the    *)
(* entries stay in the stream.                                              *)
PublishAbort ==
    /\ batch # {}
    /\ batch' = {}
    /\ UNCHANGED <<rows, outbox, added, stream, side>>

(* Redis loses an entry that is not delivered yet (restart, trimming).      *)
LoseEntry(e) ==
    /\ stream' = stream \ {e}
    /\ UNCHANGED <<rows, outbox, added, batch, side>>

----------------------------------------------------------------------------
(* Claiming.  The API reads an entry, samples the clock, and only then      *)
(* waits for the job's row lock.                                            *)

ClaimRead(w) ==
    /\ phase[w] = "idle"
    /\ \E e \in stream :
         /\ stream' = stream \ {e}
         /\ task' = [task EXCEPT ![w] = e]
         /\ seen' = [seen EXCEPT ![w] = lease[e.job] = "live" /\ generation[e.job] = e.gen]
    /\ phase' = [phase EXCEPT ![w] = "read"]
    /\ UNCHANGED <<rows, outbox, added, batch, calls>>

(* Wrong: the state of the row is not looked at.                            *)
DispatchedByLease(e) == generation[e.job] = e.gen /\ lease[e.job] # "none"

(* The row is dispatched under the lease that the entry carries.            *)
Dispatched(e) ==
    /\ status[e.job] = "dispatched"
    /\ generation[e.job] = e.gen
    /\ lease[e.job] # "none"

(* The reply reaches the worker, or the worker has given up meanwhile and   *)
(* the job runs with nobody on it.                                          *)
ClaimAccept(w) ==
    /\ phase[w] = "read"
    /\ Dispatched(task[w])
    /\ seen[w]
    /\ LET j == task[w].job IN
         IF attempts[j] >= MaxAttempts
         THEN /\ status' = [status EXCEPT ![j] = "dead_letter"]
              /\ lease' = [lease EXCEPT ![j] = "none"]
              /\ reservation' = Reconciled(j)
              /\ phase' = [phase EXCEPT ![w] = "idle"]
              /\ task' = [task EXCEPT ![w] = NoTask]
              /\ UNCHANGED attempts
         ELSE /\ status' = [status EXCEPT ![j] = RunningState[JobType[j]]]
              /\ lease' = [lease EXCEPT ![j] = "live"]
              /\ attempts' = [attempts EXCEPT ![j] = @ + 1]
              /\ \/ /\ phase' = [phase EXCEPT ![w] = "work"]
                    /\ UNCHANGED task
                 \/ /\ phase' = [phase EXCEPT ![w] = "idle"]
                    /\ task' = [task EXCEPT ![w] = NoTask]
              /\ UNCHANGED reservation
    /\ seen' = [seen EXCEPT ![w] = FALSE]
    /\ UNCHANGED <<generation, files, transport, calls>>

ClaimReject(w) ==
    /\ phase[w] = "read"
    /\ ~ (Dispatched(task[w]) /\ seen[w] /\ lease[task[w].job] = "live")
    /\ phase' = [phase EXCEPT ![w] = "idle"]
    /\ task' = [task EXCEPT ![w] = NoTask]
    /\ seen' = [seen EXCEPT ![w] = FALSE]
    /\ UNCHANGED <<rows, transport, calls>>

----------------------------------------------------------------------------
(* The worker process.                                                      *)

Send(w, kind, over, next) ==
    /\ Cardinality(calls) < MaxCalls
    /\ calls' = calls \union {[kind |-> kind, worker |-> w, entry |-> task[w], over |-> over]}
    /\ phase' = [phase EXCEPT ![w] = next]
    /\ task' = [task EXCEPT ![w] = IF next = "idle" THEN NoTask ELSE @]
    /\ UNCHANGED <<rows, transport, seen>>

SendComplete(w) == phase[w] = "work" /\ Send(w, "complete", FALSE, "finish")

(* The worker is free again whatever the reply.  over: the failure reports  *)
(* more bytes than the job has reserved.  A processing failure may; a       *)
(* denied top-up does; an I/O error reports 0.                              *)
SendFail(w) ==
    \/ /\ phase[w] = "work"
       /\ \E over \in BOOLEAN : Send(w, "fail", over, "idle")
    \/ phase[w] = "denied" /\ Send(w, "fail", TRUE, "idle")
    \/ phase[w] = "failing" /\ Send(w, "fail", FALSE, "idle")

(* The HTTP client gives up on a completion that may still arrive.          *)
Timeout(w) ==
    /\ phase[w] = "finish"
    /\ phase' = [phase EXCEPT ![w] = "failing"]
    /\ UNCHANGED <<rows, transport, task, seen, calls>>

Crash(w) ==
    /\ phase[w] # "idle"
    /\ phase' = [phase EXCEPT ![w] = "idle"]
    /\ task' = [task EXCEPT ![w] = NoTask]
    /\ seen' = [seen EXCEPT ![w] = FALSE]
    /\ UNCHANGED <<rows, transport, calls>>

----------------------------------------------------------------------------
(* The API's handling of a report.                                          *)

(* Wrong: the state of the row is not looked at.                            *)
ValidWhateverState(e) == generation[e.job] = e.gen /\ lease[e.job] = "live"

(* _validated_job: the row still runs under the reported lease.             *)
Valid(e) ==
    /\ generation[e.job] = e.gen
    /\ status[e.job] \in RunningStates
    /\ lease[e.job] = "live"

(* _transport_matches: the entry is the one the outbox row records.         *)
Recorded(e) ==
    /\ outbox[<<e.job, e.gen>>].state = "published"
    /\ outbox[<<e.job, e.gen>>].id = e.id

(* The call is over; a worker that still waits for it moves on.             *)
Reply(c, next) ==
    /\ calls' = calls \ {c}
    /\ LET waits == phase[c.worker] = "finish" /\ task[c.worker] = c.entry IN
         /\ phase' = IF waits THEN [phase EXCEPT ![c.worker] = next] ELSE phase
         /\ task' = IF waits /\ next = "idle" THEN [task EXCEPT ![c.worker] = NoTask] ELSE task
    /\ UNCHANGED <<transport, seen>>

LoseCall(c) ==
    /\ calls' = calls \ {c}
    /\ UNCHANGED <<rows, transport, phase, task, seen>>

(* A progress report and its reply.  It may need a quota top-up; a denied   *)
(* one undoes the lease extension with the rest of the transaction.  A lost *)
(* request or reply looks to the worker like a refusal.                     *)
Heartbeat(w) ==
    /\ phase[w] = "work"
    /\ LET j == task[w].job IN
       \/ /\ Valid(task[w])
          /\ lease' = [lease EXCEPT ![j] = "live"]
          /\ reservation' = Touched(j)
          /\ phase' \in {phase, [phase EXCEPT ![w] = "failing"]}
          /\ UNCHANGED <<status, generation, attempts, files>>
       \/ /\ Valid(task[w])
          /\ j \in Downloads /\ Held(j)
          /\ phase' = [phase EXCEPT ![w] = "denied"]
          /\ UNCHANGED rows
       \/ /\ phase' = [phase EXCEPT ![w] = "failing"]
          /\ UNCHANGED rows
    /\ UNCHANGED <<transport, task, seen, calls>>

(* Finished: the row is completed and a download leaves its file, its       *)
(* accounting and the child jobs behind in the same transaction.            *)
Finish(j) ==
    /\ status' = [status EXCEPT ![j] = "completed"]
    /\ UNCHANGED <<files, reservation>>

FinishDownload(d) ==
    /\ \E spawned \in SUBSET {k \in Children : Parent[k] = d /\ status[k] = "absent"} :
         status' = [k \in Jobs |-> IF k = d THEN "completed"
                                   ELSE IF k \in spawned THEN "queued" ELSE status[k]]
    /\ files' = [files EXCEPT ![d] = @ + 1]
    /\ reservation' = Reconciled(d)

(* A download that the scanner rejects is failed, not completed.            *)
ScanRejects(d) ==
    /\ status' = [status EXCEPT ![d] = "failed"]
    /\ reservation' = Reconciled(d)
    /\ UNCHANGED files

Complete(c) ==
    /\ c.kind = "complete"
    /\ LET j == c.entry.job IN
       IF Valid(c.entry) /\ Recorded(c.entry)
       THEN /\ IF j \in Downloads THEN FinishDownload(j) \/ ScanRejects(j) ELSE Finish(j)
            /\ Reply(c, "idle")
       ELSE /\ Reply(c, "failing")
            /\ UNCHANGED <<status, files, reservation>>
    /\ UNCHANGED <<generation, attempts, lease>>

(* reconcile raises when more was transferred than is reserved, and the     *)
(* failure is rolled back.                                                  *)
Raises(c) == c.over /\ c.entry.job \in Downloads /\ Held(c.entry.job)

Fail(c) ==
    /\ c.kind = "fail"
    /\ LET j == c.entry.job IN
       IF Valid(c.entry) /\ Recorded(c.entry) /\ ~ Raises(c)
       THEN /\ status' = [status EXCEPT ![j] = "failed"]
            /\ reservation' = Reconciled(j)
       ELSE UNCHANGED <<status, reservation>>
    /\ calls' = calls \ {c}
    /\ UNCHANGED <<generation, attempts, lease, files, transport, phase, task, seen>>

----------------------------------------------------------------------------
Dispatcher ==
    \/ \E j \in Jobs : RecoverExpired(j) \/ Dispatch(j)
    \/ \E d \in Downloads : ReconcileExpired(d)
    \/ \E j \in Jobs, g \in Gens : XAdd(j, g)
    \/ PublishCommit

Api == \E c \in calls : Complete(c) \/ Fail(c)

Claim(w) == ClaimRead(w) \/ ClaimAccept(w) \/ ClaimReject(w)

Report(w) == Heartbeat(w) \/ SendComplete(w) \/ SendFail(w)

Time == \/ \E j \in Jobs : LeaseExpires(j)
        \/ \E d \in Downloads : ReservationExpires(d)

Faults ==
    \/ PublishAbort
    \/ \E e \in stream : LoseEntry(e)
    \/ \E c \in calls : LoseCall(c)
    \/ \E w \in Workers : Timeout(w) \/ Crash(w)

Next ==
    \/ \E d \in Downloads : Admit(d)
    \/ Time
    \/ Dispatcher
    \/ \E w \in Workers : Claim(w) \/ Report(w)
    \/ Api
    \/ Faults

Spec == Init /\ [][Next]_vars

(* The loops of the dispatcher and the API keep running and time passes;    *)
(* a worker ends what it works on, as every processor has a time limit.     *)
(* The dispatcher's row actions wait for the end of a publisher batch, and  *)
(* a worker's report for room among the calls, hence strong fairness.       *)
(* Nothing is assumed of the faults, of heartbeats or of admission.         *)
Fairness ==
    /\ \A j \in Jobs : /\ WF_vars(LeaseExpires(j))
                       /\ SF_vars(RecoverExpired(j))
                       /\ SF_vars(Dispatch(j))
                       /\ \A g \in Gens : WF_vars(XAdd(j, g))
    /\ \A d \in Downloads : WF_vars(ReservationExpires(d)) /\ SF_vars(ReconcileExpired(d))
    /\ WF_vars(PublishCommit)
    /\ \A w \in Workers : WF_vars(Claim(w)) /\ SF_vars(SendComplete(w) \/ SendFail(w))
    /\ WF_vars(Api)

FairSpec == Spec /\ Fairness
----------------------------------------------------------------------------
(* Properties.                                                              *)

RowsOK ==
    /\ status \in [Jobs -> States \union {"absent"}]
    /\ generation \in [Jobs -> 0..MaxGen]
    /\ attempts \in [Jobs -> 0..MaxAttempts]
    /\ lease \in [Jobs -> {"none", "live", "expired"}]
    /\ reservation \in [Downloads -> {"none", "active", "overdue", "settled"}]
    /\ files \in [Downloads -> Nat]

TransportOK ==
    /\ outbox \in [Jobs \X Gens -> Event]
    /\ added \in [Jobs \X Gens -> 0..MaxCopies]
    /\ batch \subseteq [job : Jobs, gen : Gens, id : 0..MaxCopies]
    /\ \A b \in batch : outbox[<<b.job, b.gen>>].tries < PublishLimit
    /\ stream \subseteq Entry

SideOK ==
    /\ phase \in [Workers -> Phases]
    /\ task \in [Workers -> Entry \union {NoTask}]
    /\ \A w \in Workers : task[w] = NoTask <=> phase[w] = "idle"
    /\ seen \in [Workers -> BOOLEAN]
    /\ calls \subseteq Call

(* Every variable keeps its type; the publisher's open transaction only     *)
(* holds events whose publish attempts are not used up.                     *)
TypeOK == RowsOK /\ TransportOK /\ SideOK

(* A download leaves at most one file, exactly when it is completed, and a  *)
(* visible file never has open accounting, whatever attempts, duplicates    *)
(* and late reports there were.                                             *)
OneSettledFile ==
    \A d \in Downloads :
        /\ files[d] = IF status[d] = "completed" THEN 1 ELSE 0
        /\ files[d] = 1 => reservation[d] = "settled"

(* A job that waits or runs holds its reservation, so the dispatcher's      *)
(* expiry never leaves work running without quota; a job that ended through *)
(* its worker or through expiry in the queue has given it back.             *)
ReservationFollowsJob ==
    \A d \in Downloads :
        /\ status[d] \in ActiveStates => Held(d)
        /\ status[d] \in {"completed", "failed", "expired"} => reservation[d] = "settled"

(* However often an entry is delivered, at most one worker holds a lease    *)
(* that the API would still accept.                                         *)
OneValidHolder ==
    \A v, w \in Workers :
        /\ phase[v] \in HoldingPhases /\ Valid(task[v])
        /\ phase[w] \in HoldingPhases /\ Valid(task[w])
        /\ task[v].job = task[w].job
        => v = w

(* A job that may be handed out has an attempt left, and no dispatch is     *)
(* claimed twice.                                                           *)
AttemptsBounded ==
    \A j \in Jobs :
        /\ attempts[j] <= generation[j]
        /\ status[j] \in {"queued", "dispatched"} => attempts[j] < MaxAttempts

(* Whatever state a job is in, every chain of states that a handler may now *)
(* flush for it passes the database trigger, so no transaction of the       *)
(* dispatcher or the API is rolled back by it.                              *)
TriggerNeverRefuses ==
    \A j \in Jobs :
        LET s == status[j] IN
        /\ s = "queued" => Permitted(s, "dispatched") /\ Permitted(s, "expired")
        /\ s = "dispatched" => /\ Permitted(s, RunningState[JobType[j]])
                              /\ Permitted(s, "dead_letter")
        /\ s \in LeasedStates => /\ PermittedPath(<<s, "failed", "queued">>)
                                 /\ PermittedPath(<<s, "failed", "dead_letter">>)
        /\ s \in RunningStates => PermittedPath(<<s>> \o CompletionPath[JobType[j]])

(* A job that ended never runs again, and a generation never comes back.    *)
EndedForGood ==
    [][\A j \in Jobs :
          /\ status[j] \in FinalStates => status'[j] = status[j]
          /\ generation'[j] >= generation[j]]_vars

(* A job that was submitted ends: no lost entry, lost reply, crashed worker *)
(* or abandoned lease leaves it behind.  Only a job that was dispatched     *)
(* MaxGen times and has attempts left may be back in the queue, where the   *)
(* bound stops it.                                                          *)
EveryJobEnds ==
    \A j \in Jobs :
        status[j] = "queued" ~>
            (status[j] \in FinalStates \/ (status[j] = "queued" /\ generation[j] = MaxGen))

(* Whatever way a download ended, its reservation is finalised in the end.  *)
QuotaComesBack ==
    \A d \in Downloads : status[d] \in FinalStates ~> reservation[d] = "settled"

(* The life of a download as its user sees it.                              *)
StageOf(s) ==
    CASE s = "absent"                      -> "none"
      [] s \in {"queued", "dispatched"}    -> "waiting"
      [] s = "completed"                   -> "delivered"
      [] s \in FinalStates \ {"completed"} -> "given_up"
      [] OTHER                             -> "running"

Stage == [d \in Downloads |-> StageOf(status[d])]

Tries == [d \in Downloads |-> attempts[d]]

Quota == [d \in Downloads |-> IF Held(d) THEN "held" ELSE reservation[d]]

Contract ==
    INSTANCE JobContract WITH
        Requests <- Downloads, MaxTries <- MaxAttempts,
        stage <- Stage, tries <- Tries, quota <- Quota

(* The queue implements the contract.                                       *)
KeepsContract == Contract!ContractSpec

(* Repeated delivery is safe: between publisher batches, a worker that      *)
(* holds the running lease can report, whichever copy of the entry it was   *)
(* given.  The API refuses the reports of a copy that is not recorded.      *)
AnyCopyCanReport ==
    \A w \in Workers :
        batch = {} /\ phase[w] \in HoldingPhases /\ Valid(task[w]) => Recorded(task[w])

(* No two workers work on one job at the same time.                         *)
NoDuplicateExecution ==
    \A v, w \in Workers :
        phase[v] = "work" /\ phase[w] = "work" /\ task[v].job = task[w].job => v = w
============================================================================
