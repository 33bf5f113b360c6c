--------------------------- MODULE DownloadLinks ---------------------------
(***************************************************************************)
(* Direct download links of one user: their creation, the sessions opened  *)
(* from them, and the requests authorized for a session.                   *)
(*                                                                         *)
(* A request is a transaction that locks the rows of the link, of its file *)
(* and of its session before it decides, and commits later; what other     *)
(* transactions commit in between it does not see.  A link is created by a *)
(* handler of the bot, which has locked the user's row.  Plans do not      *)
(* change here, and nothing in the code revokes a link.                    *)
(***************************************************************************)
EXTENDS Connections

CONSTANTS
    Links,         \* links the user creates
    Files,
    FileOf,        \* [Links -> Files]
    OneTime,       \* links created with one_time
    Requests,      \* transactions under way at once
    LinkLimit,     \* plan.active_link_limit
    SessionLimit,  \* link.policy["concurrent_downloads"]
    RangeLimit,    \* link.policy["range_limit"]
    ResumeLimit    \* link.policy["resume_limit"]

ASSUME DownloadAssumption ==
    /\ Links \subseteq Keys
    /\ FileOf \in [Links -> Files]
    /\ OneTime \subseteq Links
    /\ IsFiniteSet(Files) /\ IsFiniteSet(Links) /\ IsFiniteSet(DownloadSessions)
    /\ LinkLimit \in Nat /\ SessionLimit \in Nat /\ RangeLimit \in Nat /\ ResumeLimit \in Nat

VARIABLES
    link,       \* [Links -> {"absent", "active", "exhausted"}]: status
    overdue,    \* links whose expires_at has passed
    txn,        \* [Requests -> Txn]
    ranges,     \* range_requests of the session
    resumes     \* resume_count of the session

linkVars == <<link, overdue, txn, ranges, resumes>>

Demands == {"plain", "range", "resume"}
Txn == [kind : {"none", "create", "open", "fetch"}, link : Links \union {None},
        client : Clients \union {None}, session : DownloadSessions \union {None},
        demand : Demands]
NoTxn == [kind |-> "none", link |-> None, client |-> None, session |-> None,
          demand |-> "plain"]

LinksInit ==
    /\ link = [l \in Links |-> "absent"]
    /\ overdue = {}
    /\ txn = [r \in Requests |-> NoTxn]
    /\ ranges = [s \in DownloadSessions |-> 0]
    /\ resumes = [s \in DownloadSessions |-> 0]

SessionsOf(l) == {s \in DownloadSessions : session[s].key = l}

(* The other transactions that hold a row which belongs to file f.          *)
Holders(f, kinds) == {r \in Requests : txn[r].kind \in kinds /\ FileOf[txn[r].link] = f}

Begin(r, kind, l, c, s, demand) ==
    /\ txn[r] = NoTxn
    /\ txn' = [txn EXCEPT ![r] = [kind |-> kind, link |-> l, client |-> c, session |-> s,
                                  demand |-> demand]]

Ends(r, kind) == txn[r].kind = kind /\ txn' = [txn EXCEPT ![r] = NoTxn]

(* The transaction is rolled back; Redis is not.                            *)
Rollback(r) ==
    /\ txn[r] # NoTxn
    /\ txn' = [txn EXCEPT ![r] = NoTxn]
    /\ UNCHANGED <<connectionVars, link, overdue, ranges, resumes>>

----------------------------------------------------------------------------
(* create_link.                                                             *)

UsableLinks == {l \in Links : link[l] = "active" /\ l \notin overdue}

(* Wrong: the user's row is read without a lock.                            *)
UserUnlocked == TRUE

(* get_or_create locks the user's row before the handler, to its commit.    *)
UserFree == \A r \in Requests : txn[r].kind # "create"

BeginCreate(r, l) ==
    /\ link[l] = "absent" /\ UserFree
    /\ Cardinality(UsableLinks) < LinkLimit
    /\ Begin(r, "create", l, None, None, "plain")
    /\ UNCHANGED <<connectionVars, link, overdue, ranges, resumes>>

CommitCreate(r) ==
    /\ Ends(r, "create")
    /\ link' = [link EXCEPT ![txn[r].link] = "active"]
    /\ UNCHANGED <<connectionVars, overdue, ranges, resumes>>

----------------------------------------------------------------------------
(* authorize without a session: the first request opens one.                *)

(* Wrong: the rows are read without a lock.                                 *)
NothingLocked(l) == TRUE

(* Wrong: the link's row is locked, its file is not.                        *)
LinkRowFree(l) == \A r \in Requests : txn[r].kind \in {"open", "fetch"} => txn[r].link # l

RowsFree(l) == Holders(FileOf[l], {"open", "fetch"}) = {}

ActiveSessions == {s \in DownloadSessions : Live(s)}

BeginOpen(r, l, c) ==
    /\ RowsFree(l)
    /\ link[l] = "active" /\ l \notin overdue
    /\ Cardinality(ActiveSessions) < SessionLimit
    /\ Begin(r, "open", l, c, None, "plain")
    /\ UNCHANGED <<connectionVars, link, overdue, ranges, resumes>>

(* Wrong: the downloads are compared before this one is counted.            *)
UsedBefore(l) ==
    IF l \in OneTime /\ SessionsOf(l) # {} THEN [link EXCEPT ![l] = "exhausted"] ELSE link

Used(l) == IF l \in OneTime THEN [link EXCEPT ![l] = "exhausted"] ELSE link

CommitOpen(r, s) ==
    /\ Ends(r, "open")
    /\ s \in DownloadSessions /\ session[s] = NoRow
    /\ LET l == txn[r].link
       IN  /\ session' = [session EXCEPT ![s] =
                            [state |-> "active", key |-> l, client |-> txn[r].client]]
           /\ lapsed' = IF l \in overdue THEN lapsed \union {s} ELSE lapsed
           /\ link' = Used(l)
    /\ UNCHANGED <<counter, restarted, active, traffic, collector, overdue, ranges, resumes>>

----------------------------------------------------------------------------
(* authorize with a session.                                                *)

Ranges(s, demand) == ranges[s] + (IF demand = "plain" THEN 0 ELSE 1)
Resumes(s, demand) == resumes[s] + (IF demand = "resume" THEN 1 ELSE 0)

(* The counter is raised before the transaction commits.                    *)
BeginFetch(r, s, c, demand) ==
    /\ session[s].key \in Links /\ RowsFree(session[s].key)
    /\ Live(s) /\ session[s].client = c
    /\ Ranges(s, demand) <= RangeLimit /\ Resumes(s, demand) <= ResumeLimit
    /\ MayAcquire(s)
    /\ counter' = Acquired(s)
    /\ Begin(r, "fetch", session[s].key, c, s, demand)
    /\ UNCHANGED <<session, lapsed, restarted, active, traffic, collector, link, overdue, ranges,
                   resumes>>

(* The commit, and the X-Accel-Redirect answer on which Nginx starts.       *)
CommitFetch(r) ==
    /\ Ends(r, "fetch")
    /\ LET s == txn[r].session
           demand == txn[r].demand
       IN  /\ active' = [active EXCEPT ![s] = @ + 1]
           /\ inflight' = [inflight EXCEPT ![<<s, demand # "plain">>] = @ + 1]
           /\ ranges' = [ranges EXCEPT ![s] = Ranges(s, demand)]
           /\ resumes' = [resumes EXCEPT ![s] = Resumes(s, demand)]
    /\ UNCHANGED <<session, lapsed, counter, restarted, log, collector, link, overdue>>

----------------------------------------------------------------------------
(* Time: a link ends no later than its file and its reference, a session no *)
(* later than its link.                                                     *)

LinkLapses(l) ==
    /\ link[l] # "absent" /\ l \notin overdue
    /\ overdue' = overdue \union {l}
    /\ lapsed' = lapsed \union SessionsOf(l)
    /\ UNCHANGED <<session, counter, restarted, active, traffic, collector, link, txn, ranges,
                   resumes>>

SessionLapses(s) ==
    /\ session[s] # NoRow /\ s \notin lapsed
    /\ lapsed' = lapsed \union {s}
    /\ UNCHANGED <<session, counter, restarted, active, traffic, collector, linkVars>>

LinksNext ==
    \/ \E r \in Requests, l \in Links : BeginCreate(r, l)
    \/ \E r \in Requests : CommitCreate(r)
    \/ \E r \in Requests, l \in Links, c \in Clients : BeginOpen(r, l, c)
    \/ \E r \in Requests, s \in DownloadSessions : CommitOpen(r, s)
    \/ \E r \in Requests, s \in DownloadSessions, c \in Clients, demand \in Demands :
          BeginFetch(r, s, c, demand)
    \/ \E r \in Requests : CommitFetch(r)
    \/ \E r \in Requests : Rollback(r)
    \/ \E l \in Links : LinkLapses(l)
    \/ \E s \in DownloadSessions : SessionLapses(s)

===========================================================================
