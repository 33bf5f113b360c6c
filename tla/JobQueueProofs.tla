-------------------------- MODULE JobQueueProofs --------------------------
(***************************************************************************)
(* Proofs about JobQueue for every set of jobs and workers and every bound *)
(* on attempts, generations, copies and calls.                             *)
(***************************************************************************)
EXTENDS JobQueue, TLAPS

(* A claim moves a job to one of the four running states.                   *)
LEMMA RunningStateFacts ==
    /\ RunningStates = {"downloading", "receiving", "uploading", "processing"}
    /\ \A t \in JobTypes : RunningState[t] \in RunningStates
<1>1. /\ RunningState["external_download"] = "downloading"
      /\ RunningState["telegram_download"] = "receiving"
      /\ RunningState["telegram_upload"] = "uploading"
      /\ RunningState["media_process"] = "processing"
  BY DEF RunningState, JobTypes
<1>2. QED
  BY <1>1 DEF RunningStates, JobTypes

(* What a publish transaction writes to an event stays an event.            *)
LEMMA OutcomeType ==
    ASSUME NEW e \in Event, NEW b \in [job : Jobs, gen : Gens, id : 0..MaxCopies],
           e.tries < PublishLimit
    PROVE  Outcome(e, b) \in Event
<1>1. /\ e.tries \in Nat /\ PublishLimit \in Nat
      /\ e.tries + 1 \in 0..PublishLimit
  BY JobQueueAssumption DEF JobQueueAssumption, Event
<1>2. CASE b.id > 0
  <2>1. Outcome(e, b) = [e EXCEPT !.state = "published", !.id = b.id]
    BY <1>2 DEF Outcome
  <2>2. b.id \in 0..MaxCopies
    OBVIOUS
  <2>3. QED
    BY <2>1, <2>2 DEF Event
<1>3. CASE ~ (b.id > 0)
  <2>1. Outcome(e, b) = [e EXCEPT !.state = "failed", !.tries = e.tries + 1]
    BY <1>3 DEF Outcome
  <2>2. QED
    BY <1>1, <2>1 DEF Event
<1>4. QED
  BY <1>2, <1>3

(* The states a row may be in: those the handlers write, among them.        *)
LEMMA StateFacts ==
    /\ {"queued", "dispatched"} \union RunningStates \union FinalStates \subseteq States
    /\ RunningStates \subseteq LeasedStates
    /\ "dispatched" \in LeasedStates /\ "queued" \notin LeasedStates
    /\ LeasedStates \union {"queued"} \subseteq ActiveStates
    /\ \A s \in FinalStates : s \notin ActiveStates
    /\ "absent" \notin ActiveStates
BY RunningStateFacts DEF States, ActiveStates, LeasedStates, FinalStates

LEMMA TypeInit == Init => TypeOK
BY JobQueueAssumption
DEF JobQueueAssumption, Init, TypeOK, RowsOK, TransportOK, SideOK, States, ActiveStates, Event,
    NoEvent, Phases, Gens

(* A worker that is not idle holds an entry.                                *)
LEMMA TaskType ==
    ASSUME SideOK, NEW w \in Workers, phase[w] # "idle"
    PROVE  task[w] \in Entry
BY DEF SideOK

(* Every step keeps every variable in its type.                             *)
LEMMA TypeNext == TypeOK /\ [Next]_vars => TypeOK'
<1> SUFFICES ASSUME RowsOK, TransportOK, SideOK, [Next]_vars
             PROVE  RowsOK' /\ TransportOK' /\ SideOK'
  BY DEF TypeOK
<1> USE StateFacts, JobQueueAssumption
<1> DEFINE Typed == RowsOK' /\ TransportOK' /\ SideOK'
<1>a. UNCHANGED rows => RowsOK'
  BY DEF RowsOK, rows
<1>b. UNCHANGED transport => TransportOK'
  BY DEF TransportOK, transport
<1>c. UNCHANGED side => SideOK'
  BY DEF SideOK, side
<1>1. ASSUME NEW d \in Downloads, Admit(d) PROVE Typed
  BY <1>b, <1>c, <1>1 DEF Admit, Jobs, RowsOK
<1>2. ASSUME NEW j \in Jobs, LeaseExpires(j) PROVE Typed
  BY <1>b, <1>c, <1>2 DEF LeaseExpires, RowsOK
<1>3. ASSUME NEW d \in Downloads, ReservationExpires(d) PROVE Typed
  BY <1>b, <1>c, <1>3 DEF ReservationExpires, RowsOK
<1>4. ASSUME NEW j \in Jobs, RecoverExpired(j) PROVE Typed
  BY <1>b, <1>c, <1>4 DEF RecoverExpired, RecoveredState, FinalStates, RowsOK
<1>5. ASSUME NEW j \in Jobs, Dispatch(j) PROVE Typed
  <2>1. RowsOK'
    BY <1>5 DEF Dispatch, JobQueueAssumption, RowsOK
  <2>2. TransportOK'
    BY <1>5 DEF Dispatch, JobQueueAssumption, Gens, Event, NoEvent, TransportOK, RowsOK
  <2>3. QED
    BY <1>c, <1>5, <2>1, <2>2 DEF Dispatch
<1>6. ASSUME NEW d \in Downloads, ReconcileExpired(d) PROVE Typed
  BY <1>b, <1>c, <1>6
  DEF ReconcileExpired, ExpiredState, Touched, Reconciled, FinalStates, Jobs, RowsOK
<1>7. ASSUME NEW j \in Jobs, NEW g \in Gens, XAdd(j, g) PROVE Typed
  <2>1. PICK sent \in BOOLEAN, replied \in BOOLEAN :
          LET id == added[<<j, g>>] + 1 IN
          /\ batch' = batch \union {[job |-> j, gen |-> g, id |-> IF replied THEN id ELSE 0]}
          /\ IF sent
             THEN /\ stream' = stream \union {[job |-> j, gen |-> g, id |-> id]}
                  /\ added' = [added EXCEPT ![<<j, g>>] = id]
             ELSE UNCHANGED <<stream, added>>
    BY <1>7 DEF XAdd
  <2>2. /\ outbox' = outbox
        /\ outbox[<<j, g>>].tries < PublishLimit
        /\ added[<<j, g>>] + 1 \in 1..MaxCopies
    BY <1>7 DEF XAdd, Sendable, TransportOK, JobQueueAssumption
  <2>3. added' \in [Jobs \X Gens -> 0..MaxCopies] /\ stream' \subseteq Entry
    <3>1. added' \in [Jobs \X Gens -> 0..MaxCopies]
      BY <2>1, <2>2 DEF TransportOK, JobQueueAssumption
    <3>2. [job |-> j, gen |-> g, id |-> added[<<j, g>>] + 1] \in Entry
      BY <2>2 DEF Entry
    <3>3. stream' \subseteq Entry
      BY <2>1, <3>2 DEF TransportOK
    <3>4. QED
      BY <3>1, <3>3
  <2>4. batch' \subseteq [job : Jobs, gen : Gens, id : 0..MaxCopies]
    BY <2>1, <2>2 DEF TransportOK, JobQueueAssumption
  <2>5. \A b \in batch' : outbox'[<<b.job, b.gen>>].tries < PublishLimit
    <3>1. \A b \in batch' : b \in batch \/ (b.job = j /\ b.gen = g)
      BY <2>1
    <3>2. QED
      BY <2>2, <3>1 DEF TransportOK
  <2>6. TransportOK'
    BY <2>2, <2>3, <2>4, <2>5 DEF TransportOK
  <2>7. QED
    BY <1>a, <1>c, <1>7, <2>6 DEF XAdd
<1>8. CASE PublishCommit
  <2>1. TransportOK'
    BY <1>8, OutcomeType DEF PublishCommit, TransportOK
  <2>2. QED
    BY <1>a, <1>c, <1>8, <2>1 DEF PublishCommit
<1>9. ASSUME NEW w \in Workers, ClaimRead(w) PROVE Typed
  <2>1. SideOK'
    BY <1>9 DEF ClaimRead, Phases, JobQueueAssumption, SideOK, TransportOK
  <2>2. TransportOK'
    BY <1>9 DEF ClaimRead, TransportOK
  <2>3. QED
    BY <1>a, <1>9, <2>1, <2>2 DEF ClaimRead
<1>10. ASSUME NEW w \in Workers, ClaimAccept(w) PROVE Typed
  <2> DEFINE j == task[w].job
  <2>1. j \in Jobs /\ task[w] \in Entry
    BY <1>10, TaskType DEF ClaimAccept, Entry
  <2>2. RunningState[JobType[j]] \in States
    BY <2>1, RunningStateFacts DEF JobQueueAssumption
  <2>3. RowsOK'
    <3>1. CASE attempts[j] >= MaxAttempts
      BY <1>10, <2>1, <3>1 DEF ClaimAccept, Reconciled, FinalStates, RowsOK
    <3>2. CASE ~ (attempts[j] >= MaxAttempts)
      BY <1>10, <2>1, <2>2, <3>2 DEF ClaimAccept, RowsOK, JobQueueAssumption
    <3>3. QED
      BY <3>1, <3>2
  <2>4. SideOK'
    BY <1>10, <2>1 DEF ClaimAccept, Phases, SideOK, JobQueueAssumption
  <2>5. QED
    BY <1>b, <1>10, <2>3, <2>4 DEF ClaimAccept
<1>11. ASSUME NEW w \in Workers, ClaimReject(w) PROVE Typed
  BY <1>a, <1>b, <1>11 DEF ClaimReject, Phases, SideOK
<1>12. ASSUME NEW w \in Workers, Heartbeat(w) PROVE Typed
  <2> DEFINE j == task[w].job
  <2>1. j \in Jobs /\ task[w] \in Entry /\ task[w] # NoTask
    BY <1>12, TaskType DEF Heartbeat, Entry, JobQueueAssumption
  <2>2. RowsOK'
    BY <1>12, <2>1 DEF Heartbeat, Touched, RowsOK, rows
  <2>3. SideOK'
    BY <1>12, <2>1 DEF Heartbeat, Phases, SideOK
  <2>4. QED
    BY <1>b, <1>12, <2>2, <2>3 DEF Heartbeat
<1>13. ASSUME NEW w \in Workers, NEW kind \in {"complete", "fail"}, NEW over \in BOOLEAN,
              NEW next \in {"finish", "idle"}, phase[w] # "idle", Send(w, kind, over, next)
       PROVE  Typed
  <2>1. task[w] \in Entry /\ task[w] # NoTask
    BY <1>13, TaskType DEF JobQueueAssumption
  <2>2. calls' \subseteq Call
    BY <1>13, <2>1 DEF Send, Call, SideOK
  <2>3. SideOK'
    BY <1>13, <2>1, <2>2 DEF Send, Phases, SideOK
  <2>4. QED
    BY <1>a, <1>b, <1>13, <2>3 DEF Send
<1>14. ASSUME NEW w \in Workers, SendComplete(w) \/ SendFail(w) PROVE Typed
  BY <1>13, <1>14 DEF SendComplete, SendFail
<1>15. ASSUME NEW w \in Workers, Timeout(w) \/ Crash(w) PROVE Typed
  <2>1. CASE Timeout(w)
    BY <1>a, <1>b, <2>1 DEF Timeout, Phases, SideOK
  <2>2. CASE Crash(w)
    BY <1>a, <1>b, <2>2 DEF Crash, Phases, SideOK
  <2>3. QED
    BY <1>15, <2>1, <2>2
<1>16. ASSUME NEW c \in calls, Complete(c) PROVE Typed
  <2> DEFINE j == c.entry.job
  <2>1. c \in Call /\ j \in Jobs
    BY <1>16 DEF SideOK, Call, Entry
  <2>2. RowsOK'
    <3>1. status' \in [Jobs -> States \union {"absent"}]
      BY <1>16, <2>1 DEF Complete, FinishDownload, ScanRejects, Finish, RowsOK, FinalStates
    <3>2. /\ reservation' \in [Downloads -> {"none", "active", "overdue", "settled"}]
          /\ files' \in [Downloads -> Nat]
      BY <1>16, <2>1 DEF Complete, FinishDownload, ScanRejects, Finish, Reconciled, RowsOK
    <3>3. QED
      BY <1>16, <3>1, <3>2 DEF Complete, RowsOK
  <2>3. SideOK'
    <3>1. ASSUME NEW next \in {"idle", "failing"}, Reply(c, next) PROVE SideOK'
      BY <2>1, <3>1 DEF Reply, Phases, SideOK, Call
    <3>2. QED
      BY <1>16, <3>1 DEF Complete
  <2>4. QED
    BY <1>b, <1>16, <2>2, <2>3 DEF Complete, Reply
<1>17. ASSUME NEW c \in calls, Fail(c) PROVE Typed
  <2>1. c.entry.job \in Jobs
    BY <1>17 DEF SideOK, Call, Entry
  <2>2. RowsOK'
    BY <1>17, <2>1 DEF Fail, Reconciled, FinalStates, RowsOK
  <2>3. QED
    BY <1>b, <1>17, <2>2 DEF Fail, SideOK
<1>18. ASSUME PublishAbort \/ (\E e \in stream : LoseEntry(e)) \/ (\E c \in calls : LoseCall(c))
       PROVE  Typed
  <2>1. CASE PublishAbort
    BY <1>a, <1>c, <2>1 DEF PublishAbort, TransportOK
  <2>2. CASE \E e \in stream : LoseEntry(e)
    BY <1>a, <1>c, <2>2 DEF LoseEntry, TransportOK
  <2>3. CASE \E c \in calls : LoseCall(c)
    BY <1>a, <1>b, <2>3 DEF LoseCall, SideOK
  <2>4. QED
    BY <1>18, <2>1, <2>2, <2>3
<1>19. CASE UNCHANGED vars
  BY <1>a, <1>b, <1>c, <1>19 DEF vars
<1>20. QED
  BY <1>1, <1>2, <1>3, <1>4, <1>5, <1>6, <1>7, <1>8, <1>9, <1>10, <1>11, <1>12, <1>14, <1>15,
     <1>16, <1>17, <1>18, <1>19
  DEF Next, Time, Dispatcher, Api, Claim, Report, Faults

(* Every variable keeps its type, whatever the dispatcher, the API, the     *)
(* workers and the faults do.                                               *)
THEOREM TypeCorrect == Spec => []TypeOK
BY TypeInit, TypeNext, PTL DEF Spec

----------------------------------------------------------------------------
(* The life of a download: its state, its reservation and its file.         *)

Life == OneSettledFile /\ ReservationFollowsJob

LEMMA LifeInit == Init => Life
BY StateFacts DEF Init, Jobs, Life, OneSettledFile, ReservationFollowsJob

(* A report that the API still accepts is for a job that holds its          *)
(* reservation, so finishing it settles the reservation.                    *)
LEMMA RunningIsHeld ==
    ASSUME TypeOK, Life, NEW d \in Downloads, status[d] \in RunningStates
    PROVE  Held(d) /\ Reconciled(d) = [reservation EXCEPT ![d] = "settled"]
BY StateFacts DEF Life, ReservationFollowsJob, Reconciled

(* The steps that touch no row of the jobs table.                           *)
LEMMA RowsKept ==
    \/ UNCHANGED vars \/ PublishCommit \/ PublishAbort
    \/ \E j \in Jobs, g \in Gens : XAdd(j, g)
    \/ \E w \in Workers : \/ ClaimRead(w) \/ ClaimReject(w) \/ SendComplete(w) \/ SendFail(w)
                          \/ Timeout(w) \/ Crash(w)
    \/ \E e \in stream : LoseEntry(e)
    \/ \E c \in calls : LoseCall(c)
    => UNCHANGED rows
BY DEF vars, PublishCommit, PublishAbort, XAdd, ClaimRead, ClaimReject, SendComplete, SendFail, Send,
       Timeout, Crash, LoseEntry, LoseCall

LEMMA LifeNext == TypeOK /\ Life /\ [Next]_vars => Life'
<1> SUFFICES ASSUME TypeOK, Life, [Next]_vars PROVE Life'
  OBVIOUS
<1> USE StateFacts, RunningStateFacts
<1> DEFINE Untouched == UNCHANGED <<status, reservation, files>>
<1>a. Untouched => Life'
  BY DEF Life, OneSettledFile, ReservationFollowsJob, Held
<1>t. RowsOK /\ SideOK /\ Downloads \intersect Children = {} /\ Downloads \subseteq Jobs
  BY JobQueueAssumption DEF TypeOK, JobQueueAssumption, Jobs
<1>1. ASSUME NEW d \in Downloads, Admit(d) PROVE Life'
  BY <1>1, <1>t DEF Admit, RowsOK, Life, OneSettledFile, ReservationFollowsJob, Held
<1>2. ASSUME NEW j \in Jobs, LeaseExpires(j) PROVE Life'
  BY <1>2, <1>a DEF LeaseExpires
<1>3. ASSUME NEW d \in Downloads, ReservationExpires(d) PROVE Life'
  BY <1>3, <1>t DEF ReservationExpires, RowsOK, Life, OneSettledFile, ReservationFollowsJob, Held
<1>4. ASSUME NEW j \in Jobs, RecoverExpired(j) PROVE Life'
  BY <1>4, <1>t DEF RecoverExpired, RecoveredState, Lost, RowsOK, FinalStates,
                    Life, OneSettledFile, ReservationFollowsJob, Held
<1>5. ASSUME NEW j \in Jobs, Dispatch(j) PROVE Life'
  BY <1>5, <1>t DEF Dispatch, RowsOK, Life, OneSettledFile, ReservationFollowsJob, Held
<1>6. ASSUME NEW d \in Downloads, ReconcileExpired(d) PROVE Life'
  <2>1. CASE status[d] \in ActiveStates /\ lease[d] = "live"
    BY <1>6, <1>t, <2>1 DEF ReconcileExpired, Touched, RowsOK,
                            Life, OneSettledFile, ReservationFollowsJob, Held
  <2>2. CASE ~ (status[d] \in ActiveStates /\ lease[d] = "live")
    <3>1. /\ reservation' = [reservation EXCEPT ![d] = "settled"]
          /\ status' = [status EXCEPT ![d] = ExpiredState(status[d])]
          /\ files' = files
      BY <1>6, <2>2 DEF ReconcileExpired, Overdue, Reconciled, Held
    <3>2. /\ ExpiredState(status[d]) \notin ActiveStates
          /\ ExpiredState(status[d]) = "completed" <=> status[d] = "completed"
      BY DEF ExpiredState, FinalStates
    <3>3. QED
      BY <1>t, <3>1, <3>2 DEF RowsOK, Life, OneSettledFile, ReservationFollowsJob, Held
  <2>3. QED
    BY <2>1, <2>2
<1>7. ASSUME NEW w \in Workers, ClaimAccept(w) PROVE Life'
  <2> DEFINE j == task[w].job
  <2>1. j \in Jobs /\ status[j] = "dispatched"
    BY <1>7, <1>t, TaskType DEF ClaimAccept, Dispatched, Entry
  <2>2. CASE attempts[j] >= MaxAttempts
    BY <1>7, <1>t, <2>1, <2>2
    DEF ClaimAccept, Reconciled, RowsOK, FinalStates, Life, OneSettledFile, ReservationFollowsJob, Held
  <2>3. CASE ~ (attempts[j] >= MaxAttempts)
    <3>1. RunningState[JobType[j]] \in RunningStates
      BY <2>1, JobQueueAssumption DEF JobQueueAssumption
    <3>2. QED
      BY <1>7, <1>t, <2>1, <2>3, <3>1
      DEF ClaimAccept, RowsOK, FinalStates, Life, OneSettledFile, ReservationFollowsJob, Held
  <2>4. QED
    BY <2>2, <2>3
<1>8. ASSUME NEW w \in Workers, Heartbeat(w) PROVE Life'
  BY <1>8, <1>a, <1>t DEF Heartbeat, Touched, rows, RowsOK,
                          Life, OneSettledFile, ReservationFollowsJob, Held
<1>9. ASSUME NEW c \in calls, Complete(c) PROVE Life'
  <2> DEFINE j == c.entry.job
  <2>1. j \in Jobs
    BY <1>9, <1>t DEF SideOK, Call, Entry
  <2>2. CASE Untouched
    BY <1>a, <2>2
  <2>3. ASSUME status[j] \in RunningStates, j \in Downloads, FinishDownload(j) PROVE Life'
    <3>1. reservation' = [reservation EXCEPT ![j] = "settled"]
      BY <2>3, RunningIsHeld DEF FinishDownload
    <3>2. \A d \in Downloads : status'[d] = IF d = j THEN "completed" ELSE status[d]
      BY <1>t, <2>3 DEF FinishDownload, RowsOK
    <3>3. files' = [files EXCEPT ![j] = files[j] + 1] /\ files[j] = 0
      BY <1>t, <2>3 DEF FinishDownload, RowsOK, Life, OneSettledFile
    <3>4. QED
      BY <1>t, <3>1, <3>2, <3>3
      DEF RowsOK, FinalStates, Life, OneSettledFile, ReservationFollowsJob, Held
  <2>4. ASSUME status[j] \in RunningStates, j \in Downloads, ScanRejects(j) PROVE Life'
    BY <1>t, <2>4, RunningIsHeld
    DEF ScanRejects, RowsOK, FinalStates, Life, OneSettledFile, ReservationFollowsJob, Held
  <2>5. ASSUME j \notin Downloads, Finish(j) PROVE Life'
    BY <1>t, <2>5 DEF Finish, RowsOK, Life, OneSettledFile, ReservationFollowsJob, Held
  <2>6. QED
    BY <1>9, <2>2, <2>3, <2>4, <2>5 DEF Complete, Valid
<1>10. ASSUME NEW c \in calls, Fail(c) PROVE Life'
  <2> DEFINE j == c.entry.job
  <2>1. j \in Jobs
    BY <1>10, <1>t DEF SideOK, Call, Entry
  <2>2. CASE Untouched
    BY <1>a, <2>2
  <2>3. CASE j \in Downloads /\ ~ Untouched
    BY <1>10, <1>t, <2>1, <2>3, RunningIsHeld
    DEF Fail, Valid, RowsOK, FinalStates, Life, OneSettledFile, ReservationFollowsJob, Held
  <2>4. CASE j \notin Downloads
    BY <1>10, <1>t, <2>1, <2>4
    DEF Fail, Reconciled, RowsOK, Life, OneSettledFile, ReservationFollowsJob, Held
  <2>5. QED
    BY <2>2, <2>3, <2>4
<1>11. ASSUME UNCHANGED rows PROVE Life'
  BY <1>11, <1>a DEF rows
<1>12. QED
  BY <1>1, <1>2, <1>3, <1>4, <1>5, <1>6, <1>7, <1>8, <1>9, <1>10, <1>11, RowsKept
  DEF Next, Time, Dispatcher, Api, Claim, Report, Faults

(* A download leaves at most one file, exactly when it is completed, and    *)
(* its accounting is closed in the same transaction.                        *)
THEOREM OneSettledFileHolds == Spec => []OneSettledFile
<1>1. Life => OneSettledFile
  BY DEF Life
<1>2. QED
  BY TypeCorrect, LifeInit, LifeNext, <1>1, PTL DEF Spec

(* A job that waits or runs holds its reservation; one that ended through   *)
(* its worker or in the queue has settled it.                               *)
THEOREM ReservationFollowsJobHolds == Spec => []ReservationFollowsJob
<1>1. Life => ReservationFollowsJob
  BY DEF Life
<1>2. QED
  BY TypeCorrect, LifeInit, LifeNext, <1>1, PTL DEF Spec

----------------------------------------------------------------------------
(* Attempts and holders of a lease.                                         *)

(* Why the attempt limit holds: an attempt is counted when a dispatch is    *)
(* claimed, so a dispatch that is still unclaimed is not counted yet, and a *)
(* job only returns to the queue with an attempt left.                      *)
Attempts ==
    \A j \in Jobs :
        /\ attempts[j] <= generation[j]
        /\ status[j] \in {"queued", "dispatched"} => attempts[j] < MaxAttempts
        /\ status[j] = "dispatched" => attempts[j] < generation[j]
        /\ status[j] = "absent" => attempts[j] = 0

Holds(w, j, g) == phase[w] \in HoldingPhases /\ task[w].job = j /\ task[w].gen = g

(* Why a lease has one holder: a worker holds a dispatch that was claimed,  *)
(* and a claimed dispatch cannot be claimed again.                          *)
Holders ==
    /\ \A w \in Workers, j \in Jobs, g \in Gens :
          Holds(w, j, g) => /\ g <= generation[j]
                            /\ g = generation[j] => status[j] # "dispatched"
    /\ \A v, w \in Workers, j \in Jobs, g \in Gens :
          Holds(v, j, g) /\ Holds(w, j, g) => v = w

LEMMA AttemptsInit == Init => Attempts /\ Holders
BY DEF Init, Attempts, Holders, Holds, HoldingPhases

(* The steps that leave a row's state and counters alone.                   *)
LEMMA QuietSteps ==
    \/ UNCHANGED vars \/ PublishCommit \/ PublishAbort
    \/ \E j \in Jobs : LeaseExpires(j) \/ \E g \in Gens : XAdd(j, g)
    \/ \E d \in Downloads : ReservationExpires(d)
    \/ \E w \in Workers : \/ ClaimRead(w) \/ ClaimReject(w) \/ Heartbeat(w) \/ SendComplete(w)
                          \/ SendFail(w) \/ Timeout(w) \/ Crash(w)
    \/ \E e \in stream : LoseEntry(e)
    \/ \E c \in calls : LoseCall(c)
    => UNCHANGED <<status, generation, attempts>>
BY DEF vars, rows, LeaseExpires, ReservationExpires, PublishCommit, PublishAbort, XAdd, ClaimRead,
       ClaimReject, Heartbeat, SendComplete, SendFail, Send, Timeout, Crash, LoseEntry, LoseCall

LEMMA AttemptsNext == TypeOK /\ Attempts /\ [Next]_vars => Attempts'
<1> SUFFICES ASSUME TypeOK, Attempts, [Next]_vars PROVE Attempts'
  OBVIOUS
<1> USE StateFacts, RunningStateFacts
<1>t. RowsOK /\ SideOK /\ MaxAttempts \in Nat \ {0} /\ Downloads \subseteq Jobs
  BY JobQueueAssumption DEF TypeOK, JobQueueAssumption, Jobs
<1>a. UNCHANGED <<status, generation, attempts>> => Attempts'
  BY DEF Attempts
<1>b. ASSUME NEW j \in Jobs, NEW s \in FinalStates, status' = [status EXCEPT ![j] = s],
             UNCHANGED <<generation, attempts>>
      PROVE  Attempts'
  BY <1>b, <1>t DEF Attempts, RowsOK, FinalStates
<1>1. ASSUME NEW d \in Downloads, Admit(d) PROVE Attempts'
  BY <1>1, <1>t DEF Admit, Attempts, RowsOK
<1>2. ASSUME NEW j \in Jobs, RecoverExpired(j) PROVE Attempts'
  BY <1>2, <1>t DEF RecoverExpired, RecoveredState, Attempts, RowsOK
<1>3. ASSUME NEW j \in Jobs, Dispatch(j) PROVE Attempts'
  BY <1>3, <1>t DEF Dispatch, Attempts, RowsOK
<1>4. ASSUME NEW d \in Downloads, ReconcileExpired(d) PROVE Attempts'
  BY <1>4, <1>t DEF ReconcileExpired, ExpiredState, Attempts, RowsOK, FinalStates
<1>5. ASSUME NEW w \in Workers, ClaimAccept(w) PROVE Attempts'
  <2> DEFINE j == task[w].job
  <2>1. j \in Jobs /\ status[j] = "dispatched" /\ RunningState[JobType[j]] \in RunningStates
    BY <1>5, <1>t, TaskType, JobQueueAssumption
    DEF ClaimAccept, Dispatched, Entry, JobQueueAssumption
  <2>2. CASE attempts[j] >= MaxAttempts
    BY <1>5, <1>b, <2>1, <2>2 DEF ClaimAccept, FinalStates
  <2>3. CASE ~ (attempts[j] >= MaxAttempts)
    BY <1>5, <1>t, <2>1, <2>3 DEF ClaimAccept, Attempts, RowsOK
  <2>4. QED
    BY <2>2, <2>3
<1>6. ASSUME NEW c \in calls, Complete(c) PROVE Attempts'
  <2> DEFINE j == c.entry.job
  <2>1. j \in Jobs /\ UNCHANGED <<generation, attempts>>
    BY <1>6, <1>t DEF Complete, SideOK, Call, Entry
  <2>2. CASE UNCHANGED status
    BY <1>a, <2>1, <2>2
  <2>3. ASSUME FinishDownload(j) PROVE Attempts'
    <3>1. PICK spawned \in SUBSET {k \in Children : Parent[k] = j /\ status[k] = "absent"} :
            status' = [k \in Jobs |-> IF k = j THEN "completed"
                                      ELSE IF k \in spawned THEN "queued" ELSE status[k]]
      BY <2>3 DEF FinishDownload
    <3>2. \A k \in spawned : k \in Jobs /\ status[k] = "absent"
      BY DEF Jobs
    <3>3. QED
      BY <1>t, <2>1, <3>1, <3>2 DEF Attempts, RowsOK
  <2>4. ASSUME ScanRejects(j) PROVE Attempts'
    BY <1>b, <2>1, <2>4 DEF ScanRejects, FinalStates
  <2>5. ASSUME Finish(j) PROVE Attempts'
    BY <1>t, <2>1, <2>5 DEF Finish, Attempts, RowsOK
  <2>6. QED
    BY <1>6, <2>2, <2>3, <2>4, <2>5 DEF Complete
<1>7. ASSUME NEW c \in calls, Fail(c) PROVE Attempts'
  <2>1. c.entry.job \in Jobs /\ "failed" \in FinalStates
    BY <1>7, <1>t DEF SideOK, Call, Entry, FinalStates
  <2>2. QED
    BY <1>7, <1>a, <1>b, <2>1 DEF Fail
<1>8. QED
  BY <1>1, <1>2, <1>3, <1>4, <1>5, <1>6, <1>7, <1>a, QuietSteps
  DEF Next, Time, Dispatcher, Api, Claim, Report, Faults

(* A job in the queue or at a worker has an attempt left, and every attempt *)
(* is a dispatch of its own.                                                *)
THEOREM AttemptsBoundedHolds == Spec => []AttemptsBounded
<1>1. Attempts => AttemptsBounded
  BY DEF Attempts, AttemptsBounded
<1>2. QED
  BY TypeCorrect, AttemptsInit, AttemptsNext, <1>1, PTL DEF Spec

(* A worker's step takes up no dispatch unless it claims one.               *)
LEMMA HeldTasks ==
    ASSUME SideOK, [Next]_vars, NEW w \in Workers, NEW j \in Jobs, NEW g \in Gens, Holds(w, j, g)'
    PROVE  Holds(w, j, g) \/ (ClaimAccept(w) /\ task[w].job = j /\ task[w].gen = g)
<1> USE DEF Holds, HoldingPhases, Phases, SideOK
<1>1. UNCHANGED <<phase, task>> => Holds(w, j, g)
  OBVIOUS
<1>2. ASSUME NEW v \in Workers, ClaimRead(v) \/ ClaimReject(v) \/ Timeout(v) \/ Crash(v)
      PROVE  Holds(w, j, g)
  BY <1>2 DEF ClaimRead, ClaimReject, Timeout, Crash
<1>3. ASSUME NEW v \in Workers, ClaimAccept(v)
      PROVE  Holds(w, j, g) \/ (ClaimAccept(w) /\ task[w].job = j /\ task[w].gen = g)
  <2>1. CASE v = w
    BY <1>3, <2>1 DEF ClaimAccept
  <2>2. CASE v # w
    BY <1>3, <2>2 DEF ClaimAccept
  <2>3. QED
    BY <2>1, <2>2
<1>4. ASSUME NEW v \in Workers, Heartbeat(v) PROVE Holds(w, j, g)
  BY <1>4 DEF Heartbeat
<1>5. ASSUME NEW v \in Workers, SendComplete(v) \/ SendFail(v) PROVE Holds(w, j, g)
  <2>1. ASSUME NEW kind \in {"complete", "fail"}, NEW over \in BOOLEAN,
               NEW next \in {"finish", "idle"}, phase[v] \in {"work", "denied", "failing"},
               Send(v, kind, over, next)
        PROVE  Holds(w, j, g)
    <3>1. CASE v = w
      <4>1. phase'[w] = next /\ next # "idle"
        BY <2>1, <3>1 DEF Send
      <4>2. task'[w] = task[w]
        BY <2>1, <3>1, <4>1 DEF Send
      <4>3. QED
        BY <2>1, <3>1, <4>2
    <3>2. CASE v # w
      BY <2>1, <3>2 DEF Send
    <3>3. QED
      BY <3>1, <3>2
  <2>2. QED
    BY <1>5, <2>1 DEF SendComplete, SendFail
<1>6. ASSUME NEW c \in calls, Complete(c) PROVE Holds(w, j, g)
  <2>1. c.worker \in Workers
    BY DEF Call
  <2>2. ASSUME NEW next, Reply(c, next) PROVE Holds(w, j, g)
    BY <2>1, <2>2 DEF Reply
  <2>3. QED
    BY <1>6, <2>2 DEF Complete
<1>7. ASSUME UNCHANGED side PROVE Holds(w, j, g)
  BY <1>1, <1>7 DEF side
<1>8. ASSUME NEW c \in calls, Fail(c) \/ LoseCall(c) PROVE Holds(w, j, g)
  BY <1>1, <1>8 DEF Fail, LoseCall
<1>9. \/ UNCHANGED vars \/ PublishCommit \/ PublishAbort
      \/ \E k \in Jobs : LeaseExpires(k) \/ RecoverExpired(k) \/ Dispatch(k)
                         \/ \E h \in Gens : XAdd(k, h)
      \/ \E d \in Downloads : Admit(d) \/ ReservationExpires(d) \/ ReconcileExpired(d)
      \/ \E e \in stream : LoseEntry(e)
      => UNCHANGED side
  BY DEF vars, PublishCommit, PublishAbort, LeaseExpires, RecoverExpired, Dispatch, XAdd, Admit,
         ReservationExpires, ReconcileExpired, LoseEntry
<1>10. QED
  BY <1>2, <1>3, <1>4, <1>5, <1>6, <1>7, <1>8, <1>9
  DEF Next, Time, Dispatcher, Api, Claim, Report, Faults

(* A generation never goes back, and only a new dispatch makes a row        *)
(* dispatched.                                                              *)
LEMMA DispatchIsNew ==
    ASSUME TypeOK, [Next]_vars, NEW j \in Jobs
    PROVE  /\ generation'[j] \in Nat /\ generation'[j] >= generation[j]
           /\ status'[j] = "dispatched" /\ generation'[j] = generation[j]
              => status[j] = "dispatched"
<1> USE StateFacts, RunningStateFacts
<1> DEFINE New == /\ generation'[j] \in Nat /\ generation'[j] >= generation[j]
                  /\ status'[j] = "dispatched" /\ generation'[j] = generation[j]
                     => status[j] = "dispatched"
<1>t. RowsOK /\ SideOK /\ MaxGen \in Nat /\ Downloads \subseteq Jobs /\ generation[j] \in Nat
  BY JobQueueAssumption DEF TypeOK, RowsOK, JobQueueAssumption, Jobs
<1>a. UNCHANGED <<status, generation, attempts>> => New
  BY <1>t
<1>b. ASSUME NEW k \in Jobs, NEW s \in RunningStates \union FinalStates \union {"queued"},
             status' = [status EXCEPT ![k] = s], UNCHANGED generation
      PROVE  New
  BY <1>b, <1>t DEF RowsOK, FinalStates
<1>1. ASSUME NEW d \in Downloads, Admit(d) PROVE New
  BY <1>1, <1>b, <1>t DEF Admit
<1>2. ASSUME NEW k \in Jobs, RecoverExpired(k) PROVE New
  BY <1>2, <1>b DEF RecoverExpired, RecoveredState, FinalStates
<1>3. ASSUME NEW k \in Jobs, Dispatch(k) PROVE New
  BY <1>3, <1>t DEF Dispatch, RowsOK
<1>4. ASSUME NEW d \in Downloads, ReconcileExpired(d) PROVE New
  BY <1>4, <1>t DEF ReconcileExpired, ExpiredState, RowsOK
<1>5. ASSUME NEW w \in Workers, ClaimAccept(w) PROVE New
  <2>1. task[w].job \in Jobs
    BY <1>5, <1>t, TaskType DEF ClaimAccept, Entry
  <2>2. RunningState[JobType[task[w].job]] \in RunningStates
    BY <2>1, JobQueueAssumption DEF JobQueueAssumption
  <2>3. QED
    BY <1>5, <1>b, <2>1, <2>2 DEF ClaimAccept, FinalStates
<1>6. ASSUME NEW c \in calls, Complete(c) PROVE New
  BY <1>6, <1>t DEF Complete, FinishDownload, ScanRejects, Finish, RowsOK
<1>7. ASSUME NEW c \in calls, Fail(c) PROVE New
  BY <1>7, <1>t DEF Fail, RowsOK
<1>8. QED
  BY <1>1, <1>2, <1>3, <1>4, <1>5, <1>6, <1>7, <1>a, QuietSteps
  DEF Next, Time, Dispatcher, Api, Claim, Report, Faults

LEMMA HoldersNext == TypeOK /\ Holders /\ [Next]_vars => Holders'
<1> SUFFICES ASSUME TypeOK, Holders, [Next]_vars PROVE Holders'
  OBVIOUS
<1>t. RowsOK /\ SideOK
  BY DEF TypeOK
<1> DEFINE Takes(w, j, g) == ClaimAccept(w) /\ task[w].job = j /\ task[w].gen = g
<1>1. ASSUME NEW w \in Workers, NEW j \in Jobs, NEW g \in Gens, Takes(w, j, g), Holds(w, j, g)'
      PROVE  /\ status[j] = "dispatched" /\ g = generation[j]
             /\ status'[j] # "dispatched" /\ generation' = generation
             /\ \A v \in Workers : ~ Holds(v, j, g)
             /\ \A v \in Workers \ {w} : phase'[v] = phase[v] /\ task'[v] = task[v]
  <2>1. status[j] = "dispatched" /\ g = generation[j] /\ generation' = generation
    BY <1>1 DEF ClaimAccept, Dispatched
  <2>2. \A v \in Workers : ~ Holds(v, j, g)
    BY <2>1 DEF Holders
  <2>3. status'[j] # "dispatched"
    <3>1. RunningState[JobType[j]] \in RunningStates
      BY RunningStateFacts, JobQueueAssumption DEF JobQueueAssumption
    <3>2. QED
      BY <1>1, <1>t, <3>1, RunningStateFacts DEF ClaimAccept, RowsOK
  <2>4. \A v \in Workers \ {w} : phase'[v] = phase[v] /\ task'[v] = task[v]
    BY <1>1, <1>t DEF ClaimAccept, SideOK
  <2>5. QED
    BY <2>1, <2>2, <2>3, <2>4
<1>2. ASSUME NEW w \in Workers, NEW j \in Jobs, NEW g \in Gens, Holds(w, j, g)'
      PROVE  g <= generation'[j] /\ (g = generation'[j] => status'[j] # "dispatched")
  <2>1. CASE Takes(w, j, g)
    BY <1>1, <1>2, <1>t, <2>1, DispatchIsNew DEF Gens, RowsOK
  <2>2. CASE Holds(w, j, g)
    BY <1>t, <2>2, DispatchIsNew DEF Holders, Gens, RowsOK
  <2>3. QED
    BY <1>2, <1>t, <2>1, <2>2, HeldTasks
<1>3. ASSUME NEW v \in Workers, NEW w \in Workers, NEW j \in Jobs, NEW g \in Gens,
             Holds(v, j, g)', Holds(w, j, g)'
      PROVE  v = w
  <2>1. CASE Takes(v, j, g)
    BY <1>1, <1>3, <2>1 DEF Holds
  <2>2. CASE Takes(w, j, g)
    BY <1>1, <1>3, <2>2 DEF Holds
  <2>3. CASE Holds(v, j, g) /\ Holds(w, j, g)
    BY <2>3 DEF Holders
  <2>4. QED
    BY <1>3, <1>t, <2>1, <2>2, <2>3, HeldTasks
<1>4. QED
  BY <1>2, <1>3 DEF Holders

(* However often an entry is delivered, one worker at most can still report *)
(* under the running lease of a job.                                        *)
THEOREM OneValidHolderHolds == Spec => []OneValidHolder
<1>1. TypeOK /\ Holders => OneValidHolder
  <2> SUFFICES ASSUME TypeOK, Holders, NEW v \in Workers, NEW w \in Workers,
                      phase[v] \in HoldingPhases, Valid(task[v]),
                      phase[w] \in HoldingPhases, Valid(task[w]), task[v].job = task[w].job
               PROVE  v = w
    BY DEF OneValidHolder
  <2>1. task[v] \in Entry
    BY TaskType DEF TypeOK, HoldingPhases
  <2>2. Holds(v, task[v].job, task[v].gen) /\ Holds(w, task[v].job, task[v].gen)
    BY DEF Holds, Valid
  <2>3. QED
    BY <2>1, <2>2 DEF Holders, Entry
<1>2. QED
  BY TypeCorrect, AttemptsInit, HoldersNext, <1>1, PTL DEF Spec

----------------------------------------------------------------------------
(* The queue implements the contract.                                       *)

(* Only some of the trigger's states are ever reached, and a job that was   *)
(* not submitted holds nothing.                                             *)
Reached ==
    /\ \A j \in Jobs :
          status[j] \in {"absent", "queued", "dispatched"} \union RunningStates \union FinalStates
    /\ \A d \in Downloads : status[d] = "absent" => reservation[d] = "none"

LEMMA ReachedInit == Init => Reached
BY DEF Init, Reached, Jobs

LEMMA ReachedNext == TypeOK /\ Life /\ Reached /\ [Next]_vars => Reached'
<1> SUFFICES ASSUME TypeOK, Life, Reached, [Next]_vars PROVE Reached'
  OBVIOUS
<1> USE StateFacts, RunningStateFacts
<1>t. RowsOK /\ SideOK /\ Downloads \subseteq Jobs /\ Downloads \intersect Children = {}
  BY JobQueueAssumption DEF TypeOK, JobQueueAssumption, Jobs
<1> DEFINE Other == RunningStates \union FinalStates \union {"queued", "dispatched"}
<1>a. UNCHANGED <<status, reservation>> => Reached'
  BY DEF Reached
<1>b. ASSUME NEW j \in Jobs, NEW s \in Other, status' = [status EXCEPT ![j] = s],
             \A d \in Downloads : reservation'[d] # reservation[d] => d = j
      PROVE  Reached'
  BY <1>b, <1>t DEF Reached, RowsOK, FinalStates
<1>1. ASSUME NEW d \in Downloads, Admit(d) PROVE Reached'
  BY <1>1, <1>b, <1>t DEF Admit, RowsOK
<1>2. ASSUME NEW j \in Jobs, LeaseExpires(j) PROVE Reached'
  BY <1>2, <1>a DEF LeaseExpires
<1>3. ASSUME NEW d \in Downloads, ReservationExpires(d) PROVE Reached'
  BY <1>3, <1>t DEF ReservationExpires, Reached, RowsOK
<1>4. ASSUME NEW j \in Jobs, RecoverExpired(j) PROVE Reached'
  BY <1>4, <1>b DEF RecoverExpired, RecoveredState, FinalStates
<1>5. ASSUME NEW j \in Jobs, Dispatch(j) PROVE Reached'
  BY <1>5, <1>b DEF Dispatch
<1>6. ASSUME NEW d \in Downloads, ReconcileExpired(d) PROVE Reached'
  BY <1>6, <1>t
  DEF ReconcileExpired, ExpiredState, Overdue, Touched, Reconciled, Held, FinalStates, Reached, RowsOK
<1>7. ASSUME NEW w \in Workers, ClaimAccept(w) PROVE Reached'
  <2>1. task[w].job \in Jobs
    BY <1>7, <1>t, TaskType DEF ClaimAccept, Entry
  <2>2. RunningState[JobType[task[w].job]] \in RunningStates
    BY <2>1, JobQueueAssumption DEF JobQueueAssumption
  <2>3. QED
    BY <1>7, <1>b, <1>t, <2>1, <2>2 DEF ClaimAccept, Reconciled, FinalStates, RowsOK
<1>8. ASSUME NEW w \in Workers, Heartbeat(w) PROVE Reached'
  BY <1>8, <1>a, <1>t DEF Heartbeat, Touched, Held, rows, Reached, RowsOK
<1>9. ASSUME NEW c \in calls, Complete(c) PROVE Reached'
  <2> DEFINE j == c.entry.job
  <2>1. j \in Jobs
    BY <1>9, <1>t DEF SideOK, Call, Entry
  <2>2. ASSUME j \in Downloads, status[j] \in RunningStates, FinishDownload(j) PROVE Reached'
    <3>1. reservation' = [reservation EXCEPT ![j] = "settled"]
      BY <2>2, RunningIsHeld DEF FinishDownload
    <3>2. QED
      BY <1>t, <2>2, <3>1 DEF FinishDownload, Reached, RowsOK, FinalStates
  <2>3. ASSUME j \in Downloads, status[j] \in RunningStates, ScanRejects(j) PROVE Reached'
    <3>1. reservation' = [reservation EXCEPT ![j] = "settled"]
      BY <2>3, RunningIsHeld DEF ScanRejects
    <3>2. QED
      BY <1>t, <2>3, <3>1 DEF ScanRejects, Reached, RowsOK, FinalStates
  <2>4. ASSUME Finish(j) PROVE Reached'
    BY <1>t, <2>4 DEF Finish, Reached, RowsOK, FinalStates
  <2>5. QED
    BY <1>9, <1>a, <2>1, <2>2, <2>3, <2>4 DEF Complete, Valid
<1>10. ASSUME NEW c \in calls, Fail(c) PROVE Reached'
  <2>1. c.entry.job \in Jobs /\ "failed" \in FinalStates
    BY <1>10, <1>t DEF SideOK, Call, Entry, FinalStates
  <2>2. QED
    BY <1>10, <1>a, <1>b, <1>t, <2>1 DEF Fail, Reconciled, RowsOK
<1>11. ASSUME UNCHANGED rows PROVE Reached'
  BY <1>11, <1>a DEF rows
<1>12. QED
  BY <1>1, <1>2, <1>3, <1>4, <1>5, <1>6, <1>7, <1>8, <1>9, <1>10, <1>11, RowsKept
  DEF Next, Time, Dispatcher, Api, Claim, Report, Faults

(* What the user sees of each state a row reaches.                          *)
LEMMA StageFacts ==
    /\ StageOf("absent") = "none"
    /\ StageOf("queued") = "waiting" /\ StageOf("dispatched") = "waiting"
    /\ \A s \in RunningStates : StageOf(s) = "running"
    /\ StageOf("completed") = "delivered"
    /\ \A s \in FinalStates \ {"completed"} : StageOf(s) = "given_up"
BY RunningStateFacts DEF StageOf, FinalStates

LEMMA ContractInitially == Init => Contract!ContractInit
<1> SUFFICES ASSUME Init PROVE Contract!ContractInit
  OBVIOUS
<1>1. \A d \in Downloads : status[d] = "absent" /\ attempts[d] = 0 /\ reservation[d] = "none"
  BY DEF Init, Jobs
<1>2. Stage = [d \in Downloads |-> "none"]
  BY <1>1, StageFacts DEF Stage
<1>3. Tries = [d \in Downloads |-> 0]
  BY <1>1 DEF Tries
<1>4. Quota = [d \in Downloads |-> "none"]
  BY <1>1 DEF Quota, Held
<1>5. QED
  BY <1>2, <1>3, <1>4 DEF Contract!ContractInit

(* What a step that changes the row of one download shows of it.            *)
LEMMA OneRow ==
    ASSUME TypeOK, NEW d \in Downloads, NEW s, NEW r,
           \A k \in Downloads : status'[k] = IF k = d THEN s ELSE status[k],
           \A k \in Downloads : reservation'[k] = IF k = d THEN r ELSE reservation[k]
    PROVE  /\ Stage' = [Stage EXCEPT ![d] = StageOf(s)]
           /\ r = reservation[d] \/ (Held(d) /\ r \in {"active", "overdue"}) => Quota' = Quota
           /\ r = "active" => Quota' = [Quota EXCEPT ![d] = "held"]
           /\ r = "settled" => Quota' = [Quota EXCEPT ![d] = "settled"]
<1>1. Stage' = [Stage EXCEPT ![d] = StageOf(s)]
  BY DEF Stage
<1>2. Quota' = [k \in Downloads |->
                  IF k = d THEN IF r \in {"active", "overdue"} THEN "held" ELSE r
                  ELSE Quota[k]]
  BY DEF Quota, Held
<1>3. ASSUME r = reservation[d] \/ (Held(d) /\ r \in {"active", "overdue"})
      PROVE  Quota' = Quota
  BY <1>2, <1>3 DEF Quota, Held
<1>4. ASSUME r = "active" PROVE Quota' = [Quota EXCEPT ![d] = "held"]
  BY <1>2, <1>4 DEF Quota
<1>5. ASSUME r = "settled" PROVE Quota' = [Quota EXCEPT ![d] = "settled"]
  BY <1>2, <1>5 DEF Quota
<1>6. QED
  BY <1>1, <1>3, <1>4, <1>5

(* Every step is a step of the contract or invisible to it.                 *)
LEMMA ContractStep ==
    TypeOK /\ Life /\ Attempts /\ Reached /\ [Next]_vars
    => [Contract!ContractNext]_<<Stage, Tries, Quota>>
<1> SUFFICES ASSUME TypeOK, Life, Attempts, Reached, [Next]_vars
             PROVE  [Contract!ContractNext]_<<Stage, Tries, Quota>>
  OBVIOUS
<1> USE StateFacts, RunningStateFacts, StageFacts
<1> DEFINE Step == [Contract!ContractNext]_<<Stage, Tries, Quota>>
           Goes(d, s, r) ==
             /\ \A k \in Downloads : status'[k] = IF k = d THEN s ELSE status[k]
             /\ \A k \in Downloads : reservation'[k] = IF k = d THEN r ELSE reservation[k]
<1>t. RowsOK /\ SideOK /\ Downloads \subseteq Jobs /\ Downloads \intersect Children = {}
  BY JobQueueAssumption DEF TypeOK, JobQueueAssumption, Jobs
<1>a. UNCHANGED attempts => Tries' = Tries
  BY DEF Tries
<1>b. ASSUME \A k \in Downloads : status'[k] = status[k],
             \A k \in Downloads : reservation'[k] = reservation[k],
             \A k \in Downloads : attempts'[k] = attempts[k]
      PROVE  Step
  BY <1>b DEF Stage, Tries, Quota, Held
<1>c. ASSUME NEW d \in Downloads, Goes(d, status[d], "active") \/ Goes(d, status[d], "overdue"),
             Held(d), UNCHANGED attempts
      PROVE  Step
  <2>1. Quota' = Quota
    BY <1>c, OneRow
  <2>2. Stage' = Stage
    BY <1>c DEF Stage
  <2>3. QED
    BY <1>a, <1>c, <2>1, <2>2
<1>d. ASSUME NEW d \in Downloads, NEW s \in FinalStates \ {"completed"},
             status[d] \in ActiveStates, UNCHANGED attempts,
             Goes(d, s, reservation[d]) \/ Goes(d, s, "settled")
      PROVE  Step
  <2>1. Stage[d] \in {"waiting", "running"}
    BY <1>d, <1>t DEF Stage, Reached, FinalStates
  <2>2. Stage' = [Stage EXCEPT ![d] = "given_up"]
    BY <1>d, OneRow
  <2>3. Quota' = Quota \/ Quota' = [Quota EXCEPT ![d] = "settled"]
    BY <1>d, OneRow
  <2>4. Contract!GiveUp(d)
    BY <1>a, <1>d, <2>1, <2>2, <2>3 DEF Contract!GiveUp, Contract!Move, Contract!SettleQuota
  <2>5. QED
    BY <2>4 DEF Contract!ContractNext
<1>1. ASSUME NEW d \in Downloads, Admit(d) PROVE Step
  <2>1. Goes(d, "queued", "active")
    BY <1>1, <1>t DEF Admit, RowsOK
  <2>2. Stage[d] = "none" /\ Tries' = Tries
    BY <1>1, <1>a DEF Admit, Stage
  <2>3. Stage' = [Stage EXCEPT ![d] = "waiting"] /\ Quota' = [Quota EXCEPT ![d] = "held"]
    BY <2>1, OneRow
  <2>4. Contract!Submit(d)
    BY <2>2, <2>3 DEF Contract!Submit, Contract!Move
  <2>5. QED
    BY <2>4 DEF Contract!ContractNext
<1>2. ASSUME NEW j \in Jobs, LeaseExpires(j) PROVE Step
  BY <1>2, <1>b DEF LeaseExpires
<1>3. ASSUME NEW d \in Downloads, ReservationExpires(d) PROVE Step
  <2>1. Goes(d, status[d], "overdue") /\ Held(d) /\ UNCHANGED attempts
    BY <1>3, <1>t DEF ReservationExpires, RowsOK, Held
  <2>2. QED
    BY <1>c, <2>1
<1>4. ASSUME NEW j \in Jobs, RecoverExpired(j) PROVE Step
  <2>1. CASE j \notin Downloads
    BY <1>4, <1>b, <1>t, <2>1 DEF RecoverExpired, RowsOK
  <2>2. CASE j \in Downloads /\ attempts[j] >= MaxAttempts
    <3>1. Goes(j, "dead_letter", reservation[j]) /\ UNCHANGED attempts /\ status[j] \in ActiveStates
      BY <1>4, <1>t, <2>2 DEF RecoverExpired, RecoveredState, Lost, RowsOK
    <3>2. QED
      BY <1>d, <2>2, <3>1 DEF FinalStates
  <2>3. CASE j \in Downloads /\ ~ (attempts[j] >= MaxAttempts)
    <3>1. Goes(j, "queued", reservation[j]) /\ UNCHANGED attempts
      BY <1>4, <1>t, <2>3 DEF RecoverExpired, RecoveredState, RowsOK
    <3>2. Stage' = [Stage EXCEPT ![j] = "waiting"] /\ Quota' = Quota /\ Tries' = Tries
      <4>1. Stage' = [Stage EXCEPT ![j] = StageOf("queued")] /\ Quota' = Quota
        BY <2>3, <3>1, OneRow
      <4>2. QED
        BY <1>a, <3>1, <4>1
    <3>3. CASE status[j] = "dispatched"
      BY <2>3, <3>2, <3>3 DEF Stage
    <3>4. CASE status[j] # "dispatched"
      <4>1. Stage[j] = "running"
        BY <1>4, <1>t, <2>3, <3>4 DEF RecoverExpired, Lost, Reached, Stage, FinalStates
      <4>2. Tries[j] < MaxAttempts
        BY <1>t, <2>3, JobQueueAssumption DEF Tries, RowsOK, JobQueueAssumption
      <4>3. Contract!Requeue(j)
        BY <3>2, <4>1, <4>2 DEF Contract!Requeue, Contract!Move
      <4>4. QED
        BY <2>3, <4>3 DEF Contract!ContractNext
    <3>5. QED
      BY <3>3, <3>4
  <2>4. QED
    BY <2>1, <2>2, <2>3
<1>5. ASSUME NEW j \in Jobs, Dispatch(j) PROVE Step
  <2>1. Stage' = Stage
    BY <1>5, <1>t DEF Dispatch, Stage, RowsOK
  <2>2. Quota' = Quota
    BY <1>5 DEF Dispatch, Quota, Held
  <2>3. QED
    BY <1>5, <1>a, <2>1, <2>2 DEF Dispatch
<1>6. ASSUME NEW d \in Downloads, ReconcileExpired(d) PROVE Step
  <2>1. reservation[d] = "overdue" /\ Held(d) /\ UNCHANGED attempts
    BY <1>6 DEF ReconcileExpired, Overdue, Held
  <2>2. CASE status[d] \in ActiveStates /\ lease[d] = "live"
    <3>1. Goes(d, status[d], "active")
      BY <1>6, <1>t, <2>1, <2>2 DEF ReconcileExpired, Touched, RowsOK
    <3>2. QED
      BY <1>c, <2>1, <3>1
  <2>3. CASE ~ (status[d] \in ActiveStates /\ lease[d] = "live")
    <3>1. Goes(d, ExpiredState(status[d]), "settled")
      BY <1>6, <1>t, <2>1, <2>3 DEF ReconcileExpired, Reconciled, RowsOK
    <3>2. CASE status[d] \in ActiveStates
      <4>1. ExpiredState(status[d]) \in FinalStates \ {"completed"}
        BY <3>2 DEF ExpiredState, FinalStates
      <4>2. QED
        BY <1>d, <2>1, <3>1, <3>2, <4>1
    <3>3. CASE status[d] \notin ActiveStates
      <4>1. status[d] \in FinalStates \ {"completed"}
        BY <1>t, <2>1, <3>3 DEF Reached, Life, OneSettledFile
      <4>2. ExpiredState(status[d]) = status[d]
        BY <4>1 DEF ExpiredState, FinalStates
      <4>3. Stage' = Stage /\ Stage[d] = "given_up"
        BY <3>1, <4>1, <4>2 DEF Stage
      <4>4. Quota' = [Quota EXCEPT ![d] = "settled"] /\ Quota[d] = "held"
        <5>1. Quota' = [Quota EXCEPT ![d] = "settled"]
          BY <3>1, OneRow
        <5>2. QED
          BY <2>1, <5>1 DEF Quota
      <4>5. Contract!Release(d)
        BY <1>a, <2>1, <4>3, <4>4 DEF Contract!Release, Contract!SettleQuota
      <4>6. QED
        BY <4>5 DEF Contract!ContractNext
    <3>4. QED
      BY <3>2, <3>3
  <2>4. QED
    BY <2>2, <2>3
<1>7. ASSUME NEW w \in Workers, ClaimAccept(w) PROVE Step
  <2> DEFINE j == task[w].job
  <2>1. j \in Jobs /\ status[j] = "dispatched" /\ attempts[j] < MaxAttempts
    BY <1>7, <1>t, TaskType DEF ClaimAccept, Dispatched, Entry, Attempts
  <2>2. /\ ~ (attempts[j] >= MaxAttempts)
        /\ RunningState[JobType[j]] \in RunningStates
    BY <1>t, <2>1, JobQueueAssumption DEF RowsOK, JobQueueAssumption
  <2>3. /\ status' = [status EXCEPT ![j] = RunningState[JobType[j]]]
        /\ attempts' = [attempts EXCEPT ![j] = @ + 1]
        /\ reservation' = reservation
    BY <1>7, <2>2 DEF ClaimAccept
  <2>4. CASE j \notin Downloads
    BY <1>b, <1>t, <2>3, <2>4 DEF RowsOK
  <2>5. CASE j \in Downloads
    <3>1. Stage' = [Stage EXCEPT ![j] = "running"] /\ Stage[j] = "waiting" /\ Quota' = Quota
      BY <1>t, <2>1, <2>2, <2>3, <2>5 DEF Stage, Quota, Held, RowsOK
    <3>2. Tries' = [Tries EXCEPT ![j] = @ + 1] /\ Tries[j] < MaxAttempts
      BY <1>t, <2>1, <2>3, <2>5 DEF Tries, RowsOK
    <3>3. Contract!Start(j)
      BY <3>1, <3>2 DEF Contract!Start, Contract!Move
    <3>4. QED
      BY <2>5, <3>3 DEF Contract!ContractNext
  <2>6. QED
    BY <2>4, <2>5
<1>8. ASSUME NEW w \in Workers, Heartbeat(w) PROVE Step
  <2> DEFINE j == task[w].job
  <2>1. /\ UNCHANGED <<status, attempts>>
        /\ UNCHANGED reservation \/ reservation' = Touched(j)
    BY <1>8 DEF Heartbeat, rows
  <2>2. CASE UNCHANGED reservation
    BY <1>b, <2>1, <2>2
  <2>3. CASE reservation' = Touched(j) /\ j \in Downloads /\ Held(j)
    BY <1>c, <1>t, <2>1, <2>3 DEF Touched, RowsOK
  <2>4. QED
    BY <2>1, <2>2, <2>3 DEF Touched
<1>9. ASSUME NEW c \in calls, Complete(c) PROVE Step
  <2> DEFINE j == c.entry.job
  <2>1. j \in Jobs /\ UNCHANGED attempts
    BY <1>9, <1>t DEF Complete, SideOK, Call, Entry
  <2>2. CASE UNCHANGED <<status, reservation>>
    BY <1>b, <2>1, <2>2
  <2>3. ASSUME j \in Downloads, status[j] \in RunningStates, FinishDownload(j) PROVE Step
    <3>1. Goes(j, "completed", "settled")
      BY <1>t, <2>3, RunningIsHeld DEF FinishDownload, RowsOK
    <3>2. Stage' = [Stage EXCEPT ![j] = "delivered"] /\ Quota' = [Quota EXCEPT ![j] = "settled"]
      BY <2>3, <3>1, OneRow
    <3>3. Contract!Deliver(j)
      BY <1>a, <2>1, <2>3, <3>2
      DEF Stage, Contract!Deliver, Contract!Move, Contract!SettleQuota
    <3>4. QED
      BY <2>3, <3>3 DEF Contract!ContractNext
  <2>4. ASSUME j \in Downloads, status[j] \in RunningStates, ScanRejects(j) PROVE Step
    <3>1. Goes(j, "failed", "settled")
      BY <1>t, <2>4, RunningIsHeld DEF ScanRejects, RowsOK
    <3>2. QED
      BY <1>d, <2>1, <2>4, <3>1 DEF FinalStates
  <2>5. ASSUME j \notin Downloads, Finish(j) PROVE Step
    BY <1>b, <1>t, <2>1, <2>5 DEF Finish
  <2>6. QED
    BY <1>9, <2>2, <2>3, <2>4, <2>5 DEF Complete, Valid
<1>10. ASSUME NEW c \in calls, Fail(c) PROVE Step
  <2> DEFINE j == c.entry.job
  <2>1. j \in Jobs /\ UNCHANGED attempts
    BY <1>10, <1>t DEF Fail, SideOK, Call, Entry
  <2>2. CASE UNCHANGED <<status, reservation>>
    BY <1>b, <2>1, <2>2
  <2>3. CASE j \in Downloads /\ ~ UNCHANGED <<status, reservation>>
    <3>1. Goes(j, "failed", "settled") /\ status[j] \in RunningStates
      BY <1>10, <1>t, <2>1, <2>3, RunningIsHeld DEF Fail, Valid, RowsOK
    <3>2. QED
      BY <1>d, <2>1, <2>3, <3>1 DEF FinalStates
  <2>4. CASE j \notin Downloads
    BY <1>10, <1>b, <1>t, <2>1, <2>4 DEF Fail, Reconciled, RowsOK
  <2>5. QED
    BY <2>2, <2>3, <2>4
<1>11. ASSUME UNCHANGED rows PROVE Step
  BY <1>11, <1>b DEF rows
<1>12. QED
  BY <1>1, <1>2, <1>3, <1>4, <1>5, <1>6, <1>7, <1>8, <1>9, <1>10, <1>11, RowsKept
  DEF Next, Time, Dispatcher, Api, Claim, Report, Faults

(* The queue implements the contract with the user: a download runs at most *)
(* MaxAttempts times, is delivered and charged in one step, and holds its   *)
(* quota until it ends.                                                     *)
THEOREM KeepsContractHolds == Spec => KeepsContract
<1>1. Init => Contract!ContractInit
  BY ContractInitially
<1>2. TypeOK /\ Life /\ Attempts /\ Reached /\ [Next]_vars
      => [Contract!ContractNext]_Contract!contract
  BY ContractStep DEF Contract!contract
<1>3. Spec => [](TypeOK /\ Life /\ Attempts /\ Reached)
  BY TypeInit, TypeNext, LifeInit, LifeNext, AttemptsInit, AttemptsNext, ReachedInit, ReachedNext, PTL
  DEF Spec
<1>4. QED
  BY <1>1, <1>2, <1>3, PTL DEF Spec, KeepsContract, Contract!ContractSpec

----------------------------------------------------------------------------
(* What a step may do to the state of a job.                                *)

Ended(j) == status[j] \in FinalStates
RunsAsItsType(j) == status[j] \in RunningStates => status[j] = RunningState[JobType[j]]

Moves(j) == status'[j] # status[j] => ~ Ended(j) /\ RunsAsItsType(j)'

(* States are changed for jobs that have not ended, and a job that runs     *)
(* runs in the state of its type.                                           *)
LEMMA StatusMoves ==
    TypeOK /\ [Next]_vars => \A j \in Jobs : Moves(j) /\ generation'[j] >= generation[j]
<1> SUFFICES ASSUME TypeOK, [Next]_vars, NEW k \in Jobs
             PROVE  Moves(k) /\ generation'[k] >= generation[k]
  OBVIOUS
<1> USE StateFacts, RunningStateFacts
<1> DEFINE Goal == Moves(k) /\ generation'[k] >= generation[k]
<1>t. RowsOK /\ SideOK /\ Downloads \subseteq Jobs
  BY DEF TypeOK, Jobs
<1>g. generation[k] \in Nat /\ generation[k] >= generation[k]
  BY <1>t DEF RowsOK
<1>a. UNCHANGED <<status, generation>> => Goal
  BY <1>g DEF Moves
<1>b. ASSUME NEW j \in Jobs, NEW s, status' = [status EXCEPT ![j] = s], ~ Ended(j),
             s \notin RunningStates, UNCHANGED generation
      PROVE  Goal
  BY <1>b, <1>g, <1>t DEF Moves, RunsAsItsType, RowsOK
<1>n. \A s \in {"queued", "dispatched", "completed", "failed", "dead_letter", "expired"} :
          s \notin RunningStates
  BY DEF FinalStates
<1>r. \A s \in LeasedStates \union {"absent"} : s \notin FinalStates
  BY DEF LeasedStates, FinalStates
<1>1. ASSUME NEW d \in Downloads, Admit(d) PROVE Goal
  BY <1>1, <1>b, <1>n, <1>r, <1>t DEF Admit, Ended
<1>2. ASSUME NEW j \in Jobs, RecoverExpired(j) PROVE Goal
  BY <1>2, <1>b, <1>n, <1>r DEF RecoverExpired, RecoveredState, Lost, Ended
<1>3. ASSUME NEW j \in Jobs, Dispatch(j) PROVE Goal
  <2>1. generation'[k] >= generation[k]
    BY <1>3, <1>t DEF Dispatch, RowsOK
  <2>2. Moves(k)
    BY <1>3, <1>n, <1>t DEF Dispatch, Moves, Ended, RunsAsItsType, RowsOK, FinalStates
  <2> QED
    BY <2>1, <2>2
<1>4. ASSUME NEW d \in Downloads, ReconcileExpired(d) PROVE Goal
  <2>1. CASE UNCHANGED status
    BY <1>4, <1>a, <2>1 DEF ReconcileExpired
  <2>2. CASE status' = [status EXCEPT ![d] = ExpiredState(status[d])]
    <3>1. CASE status[d] \in ActiveStates
      <4>1. ExpiredState(status[d]) \in {"expired", "dead_letter"}
        BY <3>1 DEF ExpiredState
      <4> QED
        BY <1>4, <1>b, <1>n, <1>t, <2>2, <3>1, <4>1 DEF ReconcileExpired, Ended
    <3>2. CASE status[d] \notin ActiveStates
      <4>1. ExpiredState(status[d]) = status[d]
        BY <3>2 DEF ExpiredState
      <4>2. status'[k] = status[k]
        BY <1>t, <2>2, <4>1 DEF RowsOK
      <4> QED
        BY <1>4, <1>g, <4>2 DEF ReconcileExpired, Moves
    <3> QED
      BY <3>1, <3>2
  <2> QED
    BY <1>4, <2>1, <2>2 DEF ReconcileExpired
<1>5. ASSUME NEW w \in Workers, ClaimAccept(w) PROVE Goal
  <2> DEFINE j == task[w].job
  <2>1. j \in Jobs /\ status[j] = "dispatched" /\ UNCHANGED generation
    BY <1>5, <1>t, TaskType DEF ClaimAccept, Dispatched, Entry
  <2>2. \/ status' = [status EXCEPT ![j] = "dead_letter"]
        \/ status' = [status EXCEPT ![j] = RunningState[JobType[j]]]
    BY <1>5 DEF ClaimAccept
  <2>3. Moves(k)
    BY <1>n, <1>r, <1>t, <2>1, <2>2 DEF Moves, Ended, RunsAsItsType, RowsOK
  <2> QED
    BY <1>g, <2>1, <2>3
<1>6. ASSUME NEW c \in calls, Complete(c) PROVE Goal
  <2> DEFINE j == c.entry.job
  <2>1. j \in Jobs /\ UNCHANGED generation
    BY <1>6, <1>t DEF Complete, SideOK, Call, Entry
  <2>2. CASE UNCHANGED status
    BY <1>a, <2>1, <2>2
  <2>3. ASSUME status[j] \in RunningStates, FinishDownload(j) PROVE Goal
    <3>1. PICK spawned \in SUBSET {i \in Children : Parent[i] = j /\ status[i] = "absent"} :
            status' = [i \in Jobs |-> IF i = j THEN "completed"
                                      ELSE IF i \in spawned THEN "queued" ELSE status[i]]
      BY <2>3 DEF FinishDownload
    <3>2. \/ k = j /\ status'[k] = "completed"
          \/ status[k] = "absent" /\ status'[k] = "queued"
          \/ status'[k] = status[k]
      BY <3>1
    <3>3. Moves(k)
      BY <1>n, <1>r, <2>3, <3>2 DEF Moves, Ended, RunsAsItsType
    <3> QED
      BY <1>g, <2>1, <3>3
  <2>4. ASSUME status[j] \in RunningStates, ScanRejects(j) \/ Finish(j) PROVE Goal
    BY <1>b, <1>n, <1>r, <2>1, <2>4 DEF ScanRejects, Finish, Ended
  <2> QED
    BY <1>6, <2>2, <2>3, <2>4 DEF Complete, Valid
<1>7. ASSUME NEW c \in calls, Fail(c) PROVE Goal
  <2>1. c.entry.job \in Jobs
    BY <1>7, <1>t DEF SideOK, Call, Entry
  <2> QED
    BY <1>7, <1>a, <1>b, <1>n, <1>r, <2>1 DEF Fail, Valid, Ended
<1> QED
  BY <1>1, <1>2, <1>3, <1>4, <1>5, <1>6, <1>7, <1>a, QuietSteps
  DEF Next, Time, Dispatcher, Api, Claim, Report, Faults

(* EndedForGood: a job that has ended stays as it is, and generations only  *)
(* grow, whatever reports, claims and expiries come after.                  *)
THEOREM EndedForGoodHolds == Spec => EndedForGood
<1>1. TypeOK /\ [Next]_vars
      => \A j \in Jobs : /\ status[j] \in FinalStates => status'[j] = status[j]
                         /\ generation'[j] >= generation[j]
  BY StatusMoves DEF Moves, Ended
<1> QED
  BY <1>1, TypeCorrect, PTL DEF Spec, EndedForGood

(* A chain is permitted if its first step and the chain behind it are.      *)
LEMMA PathFrom ==
    ASSUME NEW s, NEW q \in Seq(States), Len(q) > 0, Permitted(s, q[1]), PermittedPath(q)
    PROVE  PermittedPath(<<s>> \o q)
<1> DEFINE p == <<s>> \o q
<1>1. Len(p) = Len(q) + 1 /\ p[1] = s /\ \A i \in 1..Len(q) : p[i + 1] = q[i]
  OBVIOUS
<1>2. Len(q) \in Nat
  OBVIOUS
<1> HIDE DEF p
<1>3. ASSUME NEW i \in 1..Len(p) - 1 PROVE Permitted(p[i], p[i + 1])
  <2>1. CASE i = 1
    BY <1>1, <1>2, <2>1
  <2>2. CASE i # 1
    <3>1. i - 1 \in 1..Len(q) - 1 /\ p[i] = q[i - 1] /\ p[i + 1] = q[i]
      <4>1. i - 1 \in 1..Len(q) /\ i \in 1..Len(q)
        BY <1>1, <1>2, <2>2
      <4>2. p[(i - 1) + 1] = q[i - 1] /\ p[i + 1] = q[i] /\ (i - 1) + 1 = i
        BY <1>1, <4>1
      <4> QED
        BY <1>2, <4>1, <4>2
    <3>2. Permitted(q[i - 1], q[(i - 1) + 1]) /\ (i - 1) + 1 = i
      BY <3>1 DEF PermittedPath
    <3> QED
      BY <3>1, <3>2
  <2> QED
    BY <2>1, <2>2
<1> QED
  BY <1>3 DEF PermittedPath, p

(* The chains of states that the handlers flush, job type by job type.      *)
LEMMA PathsPermitted ==
    /\ Permitted("queued", "dispatched") /\ Permitted("queued", "expired")
    /\ Permitted("dispatched", "dead_letter")
    /\ \A t \in JobTypes : Permitted("dispatched", RunningState[t])
    /\ \A s \in LeasedStates : /\ PermittedPath(<<s, "failed", "queued">>)
                               /\ PermittedPath(<<s, "failed", "dead_letter">>)
    /\ \A t \in JobTypes : PermittedPath(<<RunningState[t]>> \o CompletionPath[t])
<1> USE DEF Permitted
<1>s. /\ LeasedStates \union {"queued", "failed", "completed"} \subseteq States
      /\ {"scanning", "processing", "generating_link"} \subseteq States
  BY DEF States, ActiveStates, FinalStates, LeasedStates
<1>1. Permitted("queued", "dispatched") /\ Permitted("queued", "expired")
  BY <1>s DEF Successors
<1>2. /\ "dead_letter" \in Successors["dispatched"]
      /\ RunningStates \subseteq Successors["dispatched"]
  BY <1>s, RunningStateFacts DEF Successors, LeasedStates
<1>3. \A s \in LeasedStates : "failed" \in Successors[s]
  BY <1>s DEF Successors, LeasedStates
<1>4. {"queued", "dead_letter"} \subseteq Successors["failed"]
  BY <1>s DEF Successors
<1>5. ASSUME NEW s \in LeasedStates, NEW e \in {"queued", "dead_letter"}
      PROVE  PermittedPath(<<s, "failed", e>>)
  BY <1>3, <1>4 DEF PermittedPath
<1>6. /\ "scanning" \in Successors["downloading"] /\ "scanning" \in Successors["receiving"]
      /\ "processing" \in Successors["scanning"]
      /\ "generating_link" \in Successors["processing"]
      /\ "completed" \in Successors["generating_link"]
      /\ "completed" \in Successors["uploading"]
  BY <1>s DEF Successors, LeasedStates
<1>7. ASSUME NEW t \in JobTypes PROVE PermittedPath(<<RunningState[t]>> \o CompletionPath[t])
  <2>1. CASE t = "telegram_upload"
    <3>1. RunningState[t] = "uploading" /\ CompletionPath[t] = <<"completed">>
      BY <2>1 DEF RunningState, CompletionPath, JobTypes
    <3>2. <<"completed">> \in Seq(States) /\ Len(<<"completed">>) > 0
      BY <1>s
    <3>3. Permitted(RunningState[t], <<"completed">>[1])
      BY <1>6, <3>1
    <3>4. PermittedPath(<<"completed">>)
      BY <1>6 DEF PermittedPath
    <3> HIDE DEF Permitted
    <3> QED
      BY <3>1, <3>2, <3>3, <3>4, PathFrom
  <2>2. CASE t = "media_process"
    <3>1. RunningState[t] = "processing" /\ CompletionPath[t] = <<"generating_link", "completed">>
      BY <2>2 DEF RunningState, CompletionPath, JobTypes
    <3>2. <<"generating_link", "completed">> \in Seq(States) /\ Len(<<"generating_link", "completed">>) > 0
      BY <1>s
    <3>3. Permitted(RunningState[t], <<"generating_link", "completed">>[1])
      BY <1>6, <3>1
    <3>4. PermittedPath(<<"generating_link", "completed">>)
      BY <1>6 DEF PermittedPath
    <3> HIDE DEF Permitted
    <3> QED
      BY <3>1, <3>2, <3>3, <3>4, PathFrom
  <2>3. CASE t \in {"external_download", "telegram_download"}
    <3>1. RunningState[t] \in {"downloading", "receiving"} /\ CompletionPath[t] = <<"scanning", "processing", "generating_link", "completed">>
      BY <2>3 DEF RunningState, CompletionPath, JobTypes
    <3>2. <<"scanning", "processing", "generating_link", "completed">> \in Seq(States) /\ Len(<<"scanning", "processing", "generating_link", "completed">>) > 0
      BY <1>s
    <3>3. Permitted(RunningState[t], <<"scanning", "processing", "generating_link", "completed">>[1])
      BY <1>6, <3>1
    <3>4. PermittedPath(<<"scanning", "processing", "generating_link", "completed">>)
      BY <1>6 DEF PermittedPath
    <3> HIDE DEF Permitted
    <3> QED
      BY <3>1, <3>2, <3>3, <3>4, PathFrom
  <2> QED
    BY <2>1, <2>2, <2>3 DEF JobTypes
<1> QED
  BY <1>1, <1>2, <1>5, <1>7, RunningStateFacts

(* TriggerNeverRefuses: the trigger on job states passes every chain that   *)
(* the dispatcher and the API flush.                                        *)
THEOREM TriggerNeverRefusesHolds == Spec => []TriggerNeverRefuses
<1> DEFINE Types == \A j \in Jobs : RunsAsItsType(j)
<1>1. Init => Types
  BY RunningStateFacts DEF Init, RunsAsItsType
<1>2. TypeOK /\ Types /\ [Next]_vars => Types'
  <2> SUFFICES ASSUME TypeOK, Types, [Next]_vars, NEW j \in Jobs PROVE RunsAsItsType(j)'
    OBVIOUS
  <2>1. Moves(j) /\ RunsAsItsType(j)
    BY StatusMoves
  <2> QED
    BY <2>1 DEF Moves, RunsAsItsType
<1>3. Types => TriggerNeverRefuses
  <2> SUFFICES ASSUME Types PROVE TriggerNeverRefuses
    OBVIOUS
  <2>1. \A j \in Jobs : JobType[j] \in JobTypes
    BY JobQueueAssumption DEF JobQueueAssumption
  <2> QED
    BY <2>1, PathsPermitted DEF RunsAsItsType, TriggerNeverRefuses
<1> QED
  BY <1>1, <1>2, <1>3, TypeCorrect, PTL DEF Spec

=============================================================================
