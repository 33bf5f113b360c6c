---------------------------- MODULE Connections ----------------------------
(***************************************************************************)
(* What downloads and streams share: session rows, the Redis counter of    *)
(* open connections per session, the responses Nginx is sending, its       *)
(* delivery log, and the usage collector that reads the log.               *)
(*                                                                         *)
(* One action is one committed transaction, one Redis command, or the end  *)
(* of one response.  The collector is a single sequential process; a cycle *)
(* that fails, by an exception or by the end of the process, forgets what  *)
(* it had in memory.  The log is one day's file, a sequence of complete    *)
(* lines that carry a session; a line is known by its place in it.         *)
(***************************************************************************)
EXTENDS Naturals, Sequences, FiniteSets

CONSTANTS
    DownloadSessions,     \* download_sessions rows
    StreamSessions,       \* stream_sessions rows
    Clients,              \* a client: its address and user agent
    Keys,                 \* the links and tokens that sessions belong to
    None,                 \* no key, no client, no session
    DownloadConnections,  \* link.policy["connection_limit"]
    StreamConnections,    \* token.maximum_connections
    MaxLines,             \* bound: lines of the log
    MaxFailures           \* bound: failed cycles of the collector, and lost cursors

Sessions == DownloadSessions \union StreamSessions

ASSUME ConnectionsAssumption ==
    /\ DownloadSessions \intersect StreamSessions = {}
    /\ None \notin Sessions \union Clients \union Keys
    /\ DownloadConnections \in Nat /\ StreamConnections \in Nat
    /\ MaxLines \in Nat /\ MaxFailures \in Nat

VARIABLES
    session,    \* [Sessions -> Row]
    lapsed,     \* sessions whose expires_at has passed
    counter,    \* Redis: <purpose>:connections:<session>, 0 when there is no key
    restarted,  \* sessions whose counter expired in their last second
    active,     \* active_connections of the row
    inflight,   \* responses under way, per session and by whether a range was asked for
    log,        \* the delivery log
    recorded,   \* lines with a bandwidth_usage row, and the usage record added with it
    cursor,     \* Redis: lines of the log already consumed
    cycle,      \* where the collector's cycle is
    batch,      \* lines up to this one are in the current cycle
    releasing,  \* lines whose connection the cycle has still to release
    failures    \* failures so far

Row == [state : {"absent", "active", "completed"}, key : Keys \union {None},
        client : Clients \union {None}]
NoRow == [state |-> "absent", key |-> None, client |-> None]
Line == [session : Sessions, content : {"whole", "part", "unstorable"}]

traffic == <<inflight, log>>
collector == <<recorded, cursor, cycle, batch, releasing, failures>>
connectionVars == <<session, lapsed, counter, restarted, active, traffic, collector>>

ConnectionsInit ==
    /\ session = [s \in Sessions |-> NoRow]
    /\ lapsed = {}
    /\ counter = [s \in Sessions |-> 0]
    /\ restarted = {}
    /\ active = [s \in Sessions |-> 0]
    /\ inflight = [r \in Sessions \X BOOLEAN |-> 0]
    /\ log = << >>
    /\ recorded = {}
    /\ cursor = 0
    /\ cycle = "idle"
    /\ batch = 0
    /\ releasing = {}
    /\ failures = 0

Limit(s) == IF s \in DownloadSessions THEN DownloadConnections ELSE StreamConnections

(* A row is live while a request for it can still be granted.               *)
Live(s) == session[s].state = "active" /\ s \notin lapsed

----------------------------------------------------------------------------
(* The two Lua scripts on the counter.                                      *)

(* Wrong: the limit is compared after the increment.                        *)
MayAcquireLate(s) == counter[s] <= Limit(s)

MayAcquire(s) == counter[s] < Limit(s)

Acquired(s) == [counter EXCEPT ![s] = @ + 1]

(* Wrong: the key is lowered even when it is gone.                          *)
ReleasedBlindly(s) == [counter EXCEPT ![s] = @ - 1]

Released(s) == [counter EXCEPT ![s] = IF @ <= 1 THEN 0 ELSE @ - 1]

(* Every acquisition renews the key's EXPIRE: to what is left of the        *)
(* session in whole seconds, so that the key may go in the session's last   *)
(* second, but to a minute at least, so that a key which is acquired again  *)
(* after that outlives the session.                                         *)
CounterExpires(s) ==
    /\ counter[s] > 0 /\ (s \in lapsed \/ s \notin restarted)
    /\ counter' = [counter EXCEPT ![s] = 0]
    /\ restarted' = IF s \in lapsed THEN restarted ELSE restarted \union {s}
    /\ UNCHANGED <<session, lapsed, active, traffic, collector>>

----------------------------------------------------------------------------
(* Nginx.                                                                   *)

Open(s) == inflight[<<s, TRUE>>] + inflight[<<s, FALSE>>]

(* A response ends and is logged with the Range header of its request.      *)
(* Only one without a range can be whole: status 200 and every byte of the  *)
(* file.  Only one with a range can be beyond storing: its numbers may      *)
(* exceed their BIGINT columns.  A player may send a range, too.            *)
Finish(s, ranged, content) ==
    /\ inflight[<<s, ranged>>] > 0
    /\ content = "whole" => ~ ranged
    /\ content = "unstorable" => ranged \/ s \in StreamSessions
    /\ Len(log) < MaxLines
    /\ inflight' = [inflight EXCEPT ![<<s, ranged>>] = @ - 1]
    /\ log' = Append(log, [session |-> s, content |-> content])
    /\ UNCHANGED <<session, lapsed, counter, restarted, active, collector>>

(* A response ends and leaves no line with the session in it: the answer of *)
(* the API never reached Nginx, or Nginx died.                              *)
Vanish(s, ranged) ==
    /\ inflight[<<s, ranged>>] > 0
    /\ inflight' = [inflight EXCEPT ![<<s, ranged>>] = @ - 1]
    /\ UNCHANGED <<session, lapsed, counter, restarted, active, log, collector>>

----------------------------------------------------------------------------
(* The usage collector.                                                     *)

(* read_complete_lines: any number of lines may be complete, or fit.        *)
Read ==
    /\ cycle = "idle"
    /\ \E last \in cursor + 1 .. Len(log) : batch' = last
    /\ cycle' = "read"
    /\ UNCHANGED <<session, lapsed, counter, restarted, active, traffic, recorded, cursor,
                   releasing, failures>>

(* Wrong: a line that already has its row is taken again.                   *)
NewLinesAgain == cursor + 1 .. batch

(* on_conflict_do_nothing on (log_source, log_event_id).                    *)
NewLines == (cursor + 1 .. batch) \ recorded

LinesOf(s, lines) == {i \in lines : log[i].session = s}

Less(n, m) == IF n <= m THEN 0 ELSE n - m

Storable(i) == log[i].content # "unstorable"

(* The transaction: rows, bytes and connections, and completed downloads.   *)
Record ==
    /\ cycle = "read" /\ \A i \in cursor + 1 .. batch : Storable(i)
    /\ recorded' = recorded \union NewLines
    /\ active' = [s \in Sessions |-> Less(active[s], Cardinality(LinesOf(s, NewLines)))]
    /\ session' = [s \in Sessions |->
                      IF s \in DownloadSessions
                           /\ \E i \in LinesOf(s, NewLines) : log[i].content = "whole"
                      THEN [session[s] EXCEPT !.state = "completed"] ELSE session[s]]
    /\ releasing' = NewLines
    /\ cycle' = "release"
    /\ UNCHANGED <<lapsed, counter, restarted, traffic, cursor, batch, failures>>

(* One line that cannot be stored fails the transaction, and with it the    *)
(* cycle; the next cycle reads the same lines again.                        *)
RecordFails ==
    /\ cycle = "read" /\ \E i \in cursor + 1 .. batch : ~ Storable(i)
    /\ cycle' = "idle"
    /\ UNCHANGED <<session, lapsed, counter, restarted, active, traffic, recorded, cursor,
                   batch, releasing, failures>>

ReleaseOne ==
    /\ cycle = "release"
    /\ \E i \in releasing :
          /\ \A k \in releasing : i <= k
          /\ counter' = Released(log[i].session)
          /\ releasing' = releasing \ {i}
    /\ UNCHANGED <<session, lapsed, restarted, active, traffic, recorded, cursor, cycle,
                   batch, failures>>

(* Wrong: the cursor goes to the end the file has now.                      *)
ConsumedAll == Len(log)

Consumed == batch

SaveCursor ==
    /\ cycle = "release" /\ releasing = {}
    /\ cursor' = Consumed
    /\ cycle' = "idle"
    /\ UNCHANGED <<session, lapsed, counter, restarted, active, traffic, recorded, batch,
                   releasing, failures>>

CycleFails ==
    /\ cycle # "idle" /\ failures < MaxFailures
    /\ cycle' = "idle"
    /\ releasing' = {}
    /\ failures' = failures + 1
    /\ UNCHANGED <<session, lapsed, counter, restarted, active, traffic, recorded, cursor, batch>>

(* The cursor is a key with an expiry.                                      *)
CursorLost ==
    /\ cycle = "idle" /\ cursor > 0 /\ failures < MaxFailures
    /\ cursor' = 0
    /\ failures' = failures + 1
    /\ UNCHANGED <<session, lapsed, counter, restarted, active, traffic, recorded, cycle,
                   batch, releasing>>

Collect == Read \/ Record \/ RecordFails \/ ReleaseOne \/ SaveCursor

ConnectionsNext ==
    \/ \E s \in Sessions : CounterExpires(s)
    \/ \E s \in Sessions, ranged \in BOOLEAN, content \in {"whole", "part", "unstorable"} :
          Finish(s, ranged, content)
    \/ \E s \in Sessions, ranged \in BOOLEAN : Vanish(s, ranged)
    \/ Collect
    \/ CycleFails
    \/ CursorLost

===========================================================================
