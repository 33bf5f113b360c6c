---------------------------- MODULE JobStates ----------------------------
(***************************************************************************)
(* The job states, the sets of them that the services test, and the        *)
(* transition relation that the PostgreSQL trigger enforces on every       *)
(* UPDATE of jobs.status.                                                  *)
(***************************************************************************)
EXTENDS Naturals, Sequences

JobTypes == {"external_download", "telegram_download", "telegram_upload", "media_process"}

(* The types a finished download may schedule; they hold no reservation.    *)
ChildTypes == {"telegram_upload", "media_process"}

(* The state a claim moves a job of each type to.                           *)
RunningState ==
    [t \in JobTypes |-> CASE t = "external_download" -> "downloading"
                          [] t = "telegram_download" -> "receiving"
                          [] t = "telegram_upload"   -> "uploading"
                          [] t = "media_process"     -> "processing"]

RunningStates == {RunningState[t] : t \in JobTypes}

(* The states whose lease recover_expired_jobs looks at.                    *)
LeasedStates ==
    {"dispatched", "downloading", "receiving", "scanning", "processing",
     "remuxing", "transcoding", "uploading", "generating_link"}

(* ACTIVE_JOB_STATES: a job in one of them counts against concurrent_jobs.  *)
ActiveStates == {"pending", "quota_reserved", "queued"} \union LeasedStates

FinalStates == {"completed", "failed", "dead_letter", "expired"}

States == ActiveStates \union FinalStates \union {"cancelled", "cancelled_by_migration"}

(***************************************************************************)
(* validate_job_state_transition: what the trigger lets an UPDATE change.  *)
(***************************************************************************)
Successors ==
    [s \in States |->
       CASE s = "pending"        -> {"quota_reserved", "failed", "cancelled"}
         [] s = "quota_reserved" -> {"queued", "failed", "cancelled"}
         [] s = "queued"         -> {"dispatched", "cancelled", "expired"}
         [] s = "dispatched"     -> {"downloading", "receiving", "scanning", "processing",
                                     "uploading", "failed", "cancelled", "dead_letter"}
         [] s \in {"downloading", "receiving"}
                                 -> {"scanning", "processing", "failed", "cancelled"}
         [] s = "scanning"       -> {"processing", "generating_link", "failed", "cancelled"}
         [] s = "processing"     -> {"remuxing", "transcoding", "uploading",
                                     "generating_link", "failed", "cancelled"}
         [] s \in {"remuxing", "transcoding"}
                                 -> {"uploading", "generating_link", "completed",
                                     "failed", "cancelled"}
         [] s = "uploading"      -> {"generating_link", "completed", "failed", "cancelled"}
         [] s = "generating_link" -> {"completed", "failed", "cancelled"}
         [] s = "failed"         -> {"queued", "dead_letter", "expired"}
         [] s \in {"completed", "cancelled"} -> {"expired"}
         [] OTHER                -> {}]

Permitted(s, t) ==
    \/ s = t
    \/ /\ t = "cancelled_by_migration"
       /\ s \notin {"completed", "expired", "cancelled_by_migration", "dead_letter"}
    \/ t \in Successors[s]

(* A handler flushes a chain of states; one refused step rolls all of it    *)
(* back.                                                                    *)
PermittedPath(path) == \A i \in 1..Len(path) - 1 : Permitted(path[i], path[i + 1])

(* Wrong: media processing goes straight to completed.                      *)
CompletionPathDirect ==
    [t \in JobTypes |->
       IF t \in ChildTypes THEN <<"completed">>
       ELSE <<"scanning", "processing", "generating_link", "completed">>]

(* The states a successful completion of each job type flushes in turn.     *)
CompletionPath ==
    [t \in JobTypes |->
       CASE t = "telegram_upload" -> <<"completed">>
         [] t = "media_process"   -> <<"generating_link", "completed">>
         [] OTHER -> <<"scanning", "processing", "generating_link", "completed">>]
============================================================================
