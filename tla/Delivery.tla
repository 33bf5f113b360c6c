----------------------------- MODULE Delivery ------------------------------
(***************************************************************************)
(* Delivery of files: download links and stream tokens side by side, over  *)
(* the connections, the log and the collector they share.                  *)
(***************************************************************************)
EXTENDS DownloadLinks, StreamTokens

vars == <<connectionVars, linkVars, tokenVars>>

Init == ConnectionsInit /\ LinksInit /\ TokensInit

Next ==
    \/ ConnectionsNext /\ UNCHANGED <<linkVars, tokenVars>>
    \/ LinksNext /\ UNCHANGED tokenVars
    \/ TokensNext /\ UNCHANGED linkVars

Spec == Init /\ [][Next]_vars

(* The collector's process is restarted whenever it ends; everything else   *)
(* may stop.                                                                *)
FairSpec == Spec /\ WF_vars(Collect /\ UNCHANGED <<linkVars, tokenVars>>)

----------------------------------------------------------------------------
(* Every variable has its type, and the collector's positions are in the    *)
(* log.                                                                     *)
TypeOK ==
    /\ session \in [Sessions -> Row]
    /\ lapsed \subseteq Sessions
    /\ counter \in [Sessions -> Nat]
    /\ restarted \subseteq Sessions
    /\ active \in [Sessions -> Nat]
    /\ inflight \in [Sessions \X BOOLEAN -> Nat]
    /\ log \in Seq(Line) /\ Len(log) <= MaxLines
    /\ recorded \subseteq 1..Len(log)
    /\ cycle \in {"idle", "read", "release"}
    /\ cursor \in 0..Len(log) /\ batch \in 0..Len(log)
    /\ releasing \subseteq recorded
    /\ failures \in 0..MaxFailures
    /\ link \in [Links -> {"absent", "active", "exhausted"}]
    /\ overdue \subseteq Links
    /\ txn \in [Requests -> Txn]
    /\ ranges \in [DownloadSessions -> 0..RangeLimit]
    /\ resumes \in [DownloadSessions -> 0..ResumeLimit]
    /\ token \in [Tokens -> {"absent", "valid", "expired"}]
    /\ bound \in [Tokens -> StreamSessions \union {None}]
    /\ play \in [Players -> Play]

(* The connections that the counter of a session no longer knows of once it *)
(* has expired early.                                                       *)
Forgotten(s) == IF s \in restarted THEN Limit(s) ELSE 0

(* The limit holds up to the session's last second, although the counter    *)
(* that enforces it lives in Redis, is lowered from a log, and no failure   *)
(* of the API, of Nginx or of the collector is undone in it; in the last    *)
(* second it holds once more for those who come after the counter expired.  *)
ConnectionsBounded == \A s \in Sessions : Live(s) => Open(s) <= Limit(s) + Forgotten(s)

(* The row never counts fewer connections than there are responses under    *)
(* way and lines not yet recorded, and Redis none fewer than the row and    *)
(* the releases still to come, but for what an early expiry made it forget: *)
(* what a failure loses only makes the limit tighter.                       *)
Unrecorded == DOMAIN log \ recorded

CountersCover ==
    \A s \in Sessions :
        /\ active[s] >= Open(s) + Cardinality(LinesOf(s, Unrecorded))
        /\ Live(s) => counter[s] + Forgotten(s)
                          >= active[s] + Cardinality(LinesOf(s, releasing))

(* A one-time link opens one session, however many requests race for it.    *)
OneTimeOpensOnce == \A l \in OneTime : Cardinality(SessionsOf(l)) <= 1

(* The limit on sessions is exact among the links of one file, whose        *)
(* requests wait for each other at the file's row.                          *)
LimitPerFile ==
    \A f \in Files :
        Cardinality({s \in ActiveSessions : FileOf[session[s].key] = f}) <= SessionLimit

(* The first request of a link checks the limit on active sessions          *)
(* atomically: it is never exceeded.                                        *)
SessionsWithinLimit == Cardinality(ActiveSessions) <= SessionLimit

(* The limit on links is exact over all files: create_link counts the links *)
(* of every file, and two handlers of one user wait for each other.         *)
LinksWithinLimit == Cardinality(UsableLinks) <= LinkLimit

(* A token has one session, so it plays for one client.                     *)
OneSessionPerToken ==
    \A t \in Tokens : {s \in StreamSessions : session[s].key = t} \subseteq {bound[t]}

(* Every line is charged sooner or later, in spite of failures and of lost  *)
(* cursors, unless the log has a line that cannot be stored.                *)
LinesCharged ==
    \A i \in 1..MaxLines :
        i \in DOMAIN log ~> i \in recorded \/ \E k \in DOMAIN log : ~ Storable(k)

(* The rows and responses as the contract of DeliveryContract sees them.    *)
Owners == [s \in Sessions |-> session[s].key]
Users == [s \in Sessions |-> session[s].client]
LiveSessions == {s \in Sessions : Live(s)}
Responses == [s \in Sessions |-> Open(s)]

Contract ==
    INSTANCE DeliveryContract WITH
        owner <- Owners, user <- Users, usable <- LiveSessions, sending <- Responses,
        late <- restarted

(* Requests that compare with a limit in one transaction and act on it in   *)
(* the commit, or in Nginx, implement the contract, which compares in the   *)
(* step that acts.                                                          *)
KeepsDeliveryContract == Contract!ContractSpec

===========================================================================
