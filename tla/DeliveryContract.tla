-------------------------- MODULE DeliveryContract --------------------------
(***************************************************************************)
(* What the delivery of files promises, without transactions, locks,       *)
(* counters, logs and a collector: links, sessions and responses come one  *)
(* at a time, each within its limit at the moment it comes.  A link or a   *)
(* token that ends takes its sessions with it; a response under way stays. *)
(* In its last second a session may grant its limit a second time.         *)
(***************************************************************************)
EXTENDS Naturals, FiniteSets

CONSTANTS
    Links, Files, FileOf, OneTime, Tokens, Clients, None,
    DownloadSessions, StreamSessions,
    LinkLimit, SessionLimit, RangeLimit, ResumeLimit, DownloadConnections, StreamConnections

VARIABLES
    link,      \* [Links -> {"absent", "active", "exhausted"}]
    overdue,   \* links whose time has passed
    token,     \* [Tokens -> {"absent", "valid", "expired"}]
    owner,     \* [Sessions -> the link or token of the session, or None]
    user,      \* [Sessions -> the client it is bound to, or None]
    usable,    \* sessions for which a request can be granted
    late,      \* sessions that have come to their last second
    ranges, resumes,
    sending    \* [Sessions -> Nat]: responses under way

doors == <<link, overdue, token>>
sessions == <<owner, user, usable, late>>
answers == <<ranges, resumes, sending>>
contract == <<doors, sessions, answers>>

Sessions == DownloadSessions \union StreamSessions

ContractInit ==
    /\ link = [l \in Links |-> "absent"] /\ overdue = {}
    /\ token = [t \in Tokens |-> "absent"]
    /\ owner = [s \in Sessions |-> None] /\ user = [s \in Sessions |-> None]
    /\ usable = {} /\ late = {}
    /\ ranges = [s \in DownloadSessions |-> 0] /\ resumes = [s \in DownloadSessions |-> 0]
    /\ sending = [s \in Sessions |-> 0]

MakeLink(l) ==
    /\ link[l] = "absent"
    /\ Cardinality({k \in Links \ overdue : link[k] = "active"}) < LinkLimit
    /\ link' = [link EXCEPT ![l] = "active"]
    /\ UNCHANGED <<overdue, token, sessions, answers>>

MakeToken(t) ==
    /\ token[t] = "absent" /\ token' = [token EXCEPT ![t] = "valid"]
    /\ UNCHANGED <<link, overdue, sessions, answers>>

(* A session keeps its link or token and its client for good.               *)
Bind(s, key, c) ==
    /\ owner[s] = None
    /\ owner' = [owner EXCEPT ![s] = key]
    /\ user' = [user EXCEPT ![s] = c]

OfFile(l) == {k \in Links : FileOf[k] = FileOf[l]}

OpenDownload(l, s, c) ==
    /\ link[l] = "active"
    /\ Cardinality({d \in DownloadSessions \cap usable : owner[d] \in OfFile(l)}) < SessionLimit
    /\ Bind(s, l, c)
    /\ usable' = usable \/ (usable' = usable \union {s} /\ l \notin overdue)
    /\ link' = IF l \in OneTime THEN [link EXCEPT ![l] = "exhausted"] ELSE link
    /\ UNCHANGED <<overdue, token, late, answers>>

Send(s) == sending' = [sending EXCEPT ![s] = @ + 1]

(* How many responses may be under way with a limit of n.                   *)
Allowed(s, n) == IF s \in late THEN 2 * n ELSE n

(* The first request of a token opens its session, with or without an       *)
(* answer.                                                                  *)
OpenStream(t, s, c) ==
    /\ token[t] # "absent" /\ \A x \in StreamSessions : owner[x] # t
    /\ Bind(s, t, c)
    /\ usable' = usable \/ (usable' = usable \union {s} /\ token[t] = "valid")
    /\ UNCHANGED sending \/ (Send(s) /\ (s \in usable' => sending'[s] <= Allowed(s, StreamConnections)))
    /\ UNCHANGED <<doors, late, ranges, resumes>>

AnswerDownload(s) ==
    /\ owner[s] # None
    /\ s \in usable => sending[s] < Allowed(s, DownloadConnections)
    /\ Send(s)
    /\ \E ranged, resumed \in {0, 1} :
          /\ ranges' = [ranges EXCEPT ![s] = @ + ranged] /\ ranges'[s] <= RangeLimit
          /\ resumes' = [resumes EXCEPT ![s] = @ + resumed] /\ resumes'[s] <= ResumeLimit
    /\ UNCHANGED <<doors, sessions>>

AnswerStream(s) ==
    /\ owner[s] # None
    /\ s \in usable => sending[s] < Allowed(s, StreamConnections)
    /\ Send(s)
    /\ UNCHANGED <<doors, sessions, ranges, resumes>>

AnswerEnds(s) ==
    /\ sending[s] > 0 /\ sending' = [sending EXCEPT ![s] = @ - 1]
    /\ UNCHANGED <<doors, sessions, ranges, resumes>>

LinkEnds(l) ==
    /\ link[l] # "absent" /\ overdue' = overdue \union {l}
    /\ usable' = usable \ {s \in DownloadSessions : owner[s] = l}
    /\ UNCHANGED <<link, token, owner, user, late, answers>>

TokenEnds(t) ==
    /\ token[t] = "valid" /\ token' = [token EXCEPT ![t] = "expired"]
    /\ usable' = usable \ {s \in StreamSessions : owner[s] = t}
    /\ UNCHANGED <<link, overdue, owner, user, late, answers>>

SessionsEnd ==
    /\ usable' \subseteq usable
    /\ UNCHANGED <<doors, owner, user, late, answers>>

LastSecond(s) ==
    /\ late' = late \union {s}
    /\ UNCHANGED <<doors, owner, user, usable, answers>>

ContractNext ==
    \/ \E l \in Links : MakeLink(l) \/ LinkEnds(l)
    \/ \E t \in Tokens : MakeToken(t) \/ TokenEnds(t)
    \/ \E l \in Links, s \in DownloadSessions, c \in Clients : OpenDownload(l, s, c)
    \/ \E t \in Tokens, s \in StreamSessions, c \in Clients : OpenStream(t, s, c)
    \/ \E s \in DownloadSessions : AnswerDownload(s)
    \/ \E s \in StreamSessions : AnswerStream(s)
    \/ \E s \in Sessions : AnswerEnds(s) \/ LastSecond(s)
    \/ SessionsEnd

ContractSpec == ContractInit /\ [][ContractNext]_contract
=============================================================================
