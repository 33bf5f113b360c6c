----------------------- MODULE DeliveryContractProofs -----------------------
(***************************************************************************)
(* Delivery implements DeliveryContract, for any links, tokens, sessions,  *)
(* clients and limits.  Most steps of transactions, of Redis and of the    *)
(* collector are none of the contract; a commit is one, with the guard of  *)
(* the contract, because Ownership, Limits and Covered carry to it what    *)
(* the transaction found when it compared.                                 *)
(***************************************************************************)
EXTENDS DeliveryProofs

(* A session is opened for a client, a stream is under way only for a token *)
(* that was made, and no session outlives its token.                        *)
TokensAlive ==
    /\ \A r \in Requests : txn[r].kind = "open" => txn[r].client \in Clients
    /\ \A p \in Players : play[p] # NoPlay => token[play[p].token] # "absent"
    /\ \A t \in Tokens : token[t] = "expired" /\ bound[t] # None => bound[t] \in lapsed

LEMMA TokensAliveInitially == Init => TokensAlive
BY DEF Init, LinksInit, NoTxn, TokensInit, TokensAlive

LEMMA TokensAliveKept ==
    ASSUME Ownership, TokensAlive, [Next]_vars
    PROVE  TokensAlive'
<1> USE StreamAssumption, ConnectionsAssumption DEF TokensAlive
<1>1. ASSUME lapsed \subseteq lapsed', UNCHANGED <<token, bound, play>>,
             \A r \in Requests : txn'[r].kind = "open" => txn'[r].client \in Clients
      PROVE  TokensAlive'
  BY <1>1
<1>2. CASE ConnectionsNext /\ UNCHANGED <<linkVars, tokenVars>>
  <2>1. UNCHANGED <<lapsed, token, bound, play, txn>>
    BY <1>2 DEF ConnectionsNext, CounterExpires, Finish, Vanish, Collect, Read, Record, ReleaseOne,
                RecordFails, SaveCursor, CycleFails, CursorLost, tokenVars, linkVars
  <2> QED
    BY <1>1, <2>1
<1>3. CASE LinksNext /\ UNCHANGED tokenVars
  <2>1. lapsed \subseteq lapsed'
    BY <1>3 DEF LinksNext, BeginCreate, CommitCreate, BeginOpen, CommitOpen, BeginFetch,
                CommitFetch, Rollback, LinkLapses, SessionLapses, connectionVars
  <2>2. \A r \in Requests : txn'[r].kind = "open" =>
              txn'[r] = txn[r] \/ txn'[r].client \in Clients
    <3>1. CASE \E r \in Requests : Rollback(r) \/ CommitCreate(r) \/ CommitFetch(r)
      BY <3>1 DEF Rollback, CommitCreate, CommitFetch, Ends, NoTxn, Ownership, TypeOK
    <3>2. CASE \E r \in Requests, s \in DownloadSessions : CommitOpen(r, s)
      BY <3>2 DEF CommitOpen, Ends, NoTxn, Ownership, TypeOK
    <3>3. CASE \E r \in Requests, l \in Links : BeginCreate(r, l)
      BY <3>3 DEF BeginCreate, Begin, Ownership, TypeOK
    <3>4. CASE \E r \in Requests, l \in Links, c \in Clients : BeginOpen(r, l, c)
      BY <3>4 DEF BeginOpen, Begin, Ownership, TypeOK
    <3>5. CASE \E r \in Requests, s \in DownloadSessions, c \in Clients, demand \in Demands :
                 BeginFetch(r, s, c, demand)
      BY <3>5 DEF BeginFetch, Begin, Ownership, TypeOK
    <3>6. CASE \/ \E l \in Links : LinkLapses(l)
               \/ \E s \in DownloadSessions : SessionLapses(s)
      BY <3>6 DEF LinkLapses, SessionLapses, linkVars
    <3> QED
      BY <1>3, <3>1, <3>2, <3>3, <3>4, <3>5, <3>6 DEF LinksNext
  <2> QED
    BY <1>1, <1>3, <2>1, <2>2 DEF tokenVars
<1>4. CASE UNCHANGED linkVars /\ \E t \in Tokens : CreateToken(t)
  BY <1>4 DEF linkVars, CreateToken, Ownership, TypeOK, connectionVars
<1>5. CASE UNCHANGED linkVars /\ \E t \in Tokens : TokenLapses(t)
  BY <1>5 DEF linkVars, TokenLapses, Ownership, TypeOK
<1>6. CASE UNCHANGED linkVars /\
           \E p \in Players, t \in Tokens, s \in StreamSessions, c \in Clients,
              kind \in {"manifest", "media"} : BeginPlay(p, t, s, c, kind)
  BY <1>6 DEF linkVars, BeginPlay, Ownership, TypeOK
<1>7. CASE UNCHANGED linkVars /\ \E p \in Players : CommitPlay(p)
  <2> PICK p \in Players : CommitPlay(p)
    BY <1>7
  <2>1. \A q \in Players : play'[q] # NoPlay => play'[q] = play[q]
    BY DEF CommitPlay, Ownership, TypeOK
  <2>2. UNCHANGED token /\ lapsed \subseteq lapsed'
    BY DEF CommitPlay
  <2>3. ASSUME NEW t \in Tokens, token[t] = "expired", bound'[t] # None
        PROVE  bound'[t] \in lapsed'
    <3>1. CASE bound'[t] = bound[t]
      BY <2>2, <2>3, <3>1
    <3>2. CASE bound'[t] # bound[t]
      BY <2>3, <3>2 DEF CommitPlay, Ownership, TypeOK
    <3> QED
      BY <3>1, <3>2
  <2> QED
    BY <1>7, <2>1, <2>2, <2>3 DEF linkVars
<1>8. CASE UNCHANGED linkVars /\ \E p \in Players : RollbackPlay(p)
  BY <1>8 DEF linkVars, RollbackPlay, connectionVars, Ownership, TypeOK
<1>9. CASE UNCHANGED vars
  BY <1>9 DEF vars, connectionVars, linkVars, tokenVars
<1> QED
  BY <1>2, <1>3, <1>4, <1>5, <1>6, <1>7, <1>8, <1>9 DEF Next, TokensNext

LEMMA TokensAliveHolds == Spec => []TokensAlive
BY TokensAliveInitially, TokensAliveKept, OwnershipHolds, PTL DEF Spec

----------------------------------------------------------------------------
(* The contract has its own instance of FiniteSets.                         *)
LEMMA SameCardinality == ASSUME NEW S PROVE Contract!Cardinality(S) = Cardinality(S)
BY DEF Contract!Cardinality, Cardinality

(* The responses of the contract.                                           *)

LEMMA OthersSendTheSame ==
    ASSUME Ownership, NEW s \in Sessions, NEW ranged \in BOOLEAN, NEW n,
           inflight' = [inflight EXCEPT ![<<s, ranged>>] = n],
           NEW x \in Sessions, x # s
    PROVE  Open(x)' = Open(x)
<1>1. inflight'[<<x, TRUE>>] = inflight[<<x, TRUE>>]
  BY DEF Ownership, TypeOK
<1>2. inflight'[<<x, FALSE>>] = inflight[<<x, FALSE>>]
  BY DEF Ownership, TypeOK
<1> QED
  BY <1>1, <1>2 DEF Open

LEMMA AnotherResponse ==
    ASSUME Ownership, NEW s \in Sessions, NEW ranged \in BOOLEAN, NEW n \in {0, 1},
           inflight' = [inflight EXCEPT ![<<s, ranged>>] = @ + n]
    PROVE  Responses' = [Responses EXCEPT ![s] = @ + n]
<1>1. Open(s)' = Open(s) + n
  BY OneResponseMore
<1>2. \A x \in Sessions : x # s => Open(x)' = Open(x)
  BY OthersSendTheSame
<1> QED
  BY <1>1, <1>2 DEF Responses

LEMMA AResponseEnds ==
    ASSUME Ownership, NEW s \in Sessions, NEW ranged \in BOOLEAN,
           inflight[<<s, ranged>>] > 0,
           inflight' = [inflight EXCEPT ![<<s, ranged>>] = @ - 1]
    PROVE  Responses[s] > 0 /\ Responses' = [Responses EXCEPT ![s] = @ - 1]
<1>1. Open(s)' = Open(s) - 1
  BY OneResponseLess
<1>2. \A x \in Sessions : x # s => Open(x)' = Open(x)
  BY OthersSendTheSame
<1>3. Open(s) > 0
  <2>1. inflight[<<s, TRUE>>] \in Nat /\ inflight[<<s, FALSE>>] \in Nat
    BY DEF Ownership, TypeOK
  <2>2. inflight[<<s, TRUE>>] > 0 \/ inflight[<<s, FALSE>>] > 0
    <3>1. CASE ranged = TRUE
      BY <3>1
    <3>2. CASE ranged = FALSE
      BY <3>2
    <3> QED
      BY <3>1, <3>2
  <2> QED
    BY <2>1, <2>2 DEF Open
<1> QED
  BY <1>1, <1>2, <1>3 DEF Responses

(* A request that counted itself in Redis leaves room for its response.     *)
LEMMA RoomForOne ==
    ASSUME Ownership, Covered, NEW s \in Sessions, Usable(s), Pending(s)
    PROVE  Open(s) < Limit(s) + Forgotten(s)
<1>1. Cover(s)
  BY DEF Covered
<1>2. Place(s) = 1
  BY DEF Place
<1> QED
  BY <1>1, <1>2, CoverNumbers DEF Cover

LEMMA RoomIsAllowed ==
    ASSUME NEW s \in Sessions
    PROVE  Contract!Allowed(s, Limit(s)) = Limit(s) + Forgotten(s)
<1>1. Limit(s) \in Nat
  BY ConnectionsAssumption DEF Limit
<1> QED
  BY <1>1 DEF Contract!Allowed, Forgotten

(* What the contract does not see.                                          *)
LEMMA Unseen ==
    ASSUME UNCHANGED <<session, lapsed, restarted, inflight, link, overdue, token, ranges, resumes>>
    PROVE  UNCHANGED Contract!contract
<1>1. UNCHANGED <<Owners, Users>>
  BY DEF Owners, Users
<1>2. UNCHANGED LiveSessions
  BY DEF LiveSessions, Live
<1>3. UNCHANGED Responses
  BY DEF Responses, Open
<1> QED
  BY <1>1, <1>2, <1>3 DEF Contract!contract, Contract!doors, Contract!sessions, Contract!answers

LEMMA SameRows ==
    ASSUME UNCHANGED <<session, lapsed, restarted>>
    PROVE  UNCHANGED Contract!sessions
<1>1. UNCHANGED <<Owners, Users>>
  BY DEF Owners, Users
<1>2. UNCHANGED LiveSessions
  BY DEF LiveSessions, Live
<1> QED
  BY <1>1, <1>2 DEF Contract!sessions

LEMMA SameResponses ==
    ASSUME UNCHANGED inflight
    PROVE  UNCHANGED Responses
BY DEF Responses, Open

----------------------------------------------------------------------------
(* One lemma per step that the contract sees.                               *)

LEMMA ConnectionSteps ==
    ASSUME Ownership, ConnectionsNext, UNCHANGED <<linkVars, tokenVars>>
    PROVE  [Contract!ContractNext]_<<session, lapsed, restarted, inflight, link, overdue, token,
                                     ranges, resumes>>
<1> USE DEF linkVars, tokenVars
<1>1. ASSUME NEW s \in Sessions, NEW ranged \in BOOLEAN,
             inflight[<<s, ranged>>] > 0,
             inflight' = [inflight EXCEPT ![<<s, ranged>>] = @ - 1],
             UNCHANGED <<session, lapsed, restarted>>
      PROVE  Contract!ContractNext
  <2>1. Responses[s] > 0 /\ Responses' = [Responses EXCEPT ![s] = @ - 1]
    BY <1>1, AResponseEnds
  <2>2. Contract!AnswerEnds(s)
    BY <1>1, <2>1, SameRows DEF Contract!AnswerEnds, Contract!doors
  <2> QED
    BY <2>2 DEF Contract!ContractNext, Contract!Sessions, Sessions
<1>2. CASE Record
  <2>1. /\ \A s \in Sessions : /\ session'[s].key = session[s].key
                               /\ session'[s].client = session[s].client
                               /\ session'[s].state \in {session[s].state, "completed"}
        /\ UNCHANGED <<lapsed, restarted>>
    BY <1>2 DEF Record, Ownership, TypeOK, Row
  <2>2. UNCHANGED <<Owners, Users>>
    BY <2>1 DEF Owners, Users
  <2>3. LiveSessions' \subseteq LiveSessions
    BY <2>1 DEF LiveSessions, Live
  <2>4. UNCHANGED Responses
    BY <1>2, SameResponses DEF Record, traffic
  <2>5. Contract!SessionsEnd
    BY <2>1, <2>2, <2>3, <2>4 DEF Contract!SessionsEnd, Contract!doors, Contract!answers
  <2> QED
    BY <2>5 DEF Contract!ContractNext
<1>3. CASE \E s \in Sessions : CounterExpires(s)
  <2> PICK s \in Sessions : CounterExpires(s)
    BY <1>3
  <2>1. UNCHANGED <<session, lapsed, inflight>>
    BY DEF CounterExpires, traffic
  <2>2. UNCHANGED <<Owners, Users, LiveSessions, Responses>>
    BY <2>1, SameResponses DEF Owners, Users, LiveSessions, Live
  <2>3. CASE s \in lapsed
    BY <2>1, <2>3 DEF CounterExpires
  <2>4. CASE s \notin lapsed
    <3>1. restarted' = restarted \union {s}
      BY <2>4 DEF CounterExpires
    <3>2. Contract!LastSecond(s)
      BY <2>2, <3>1 DEF Contract!LastSecond, Contract!doors, Contract!answers
    <3> QED
      BY <3>2 DEF Contract!ContractNext, Contract!Sessions, Sessions
  <2> QED
    BY <2>3, <2>4
<1>4. CASE ~ Record /\ ~ \E s \in Sessions : CounterExpires(s)
  BY <1>1, <1>4 DEF ConnectionsNext, Finish, Vanish, Collect, Read, RecordFails, ReleaseOne,
                    SaveCursor, CycleFails, CursorLost, traffic
<1> QED
  BY <1>2, <1>3, <1>4

LEMMA CommitCreateMakes ==
    ASSUME Ownership, Limits, NEW r \in Requests, CommitCreate(r), UNCHANGED tokenVars
    PROVE  Contract!ContractNext
<1> DEFINE l == txn[r].link
<1>1. /\ l \in Links /\ link[l] = "absent"
      /\ txn[r].kind = "create" /\ link' = [link EXCEPT ![l] = "active"]
      /\ UNCHANGED <<overdue, token, session, lapsed, restarted, inflight, ranges, resumes>>
  BY DEF CommitCreate, Ends, Ownership, TxnsSound, TxnSound, connectionVars, traffic, tokenVars
<1>2. Creating
  BY <1>1 DEF Creating
<1>3. {k \in Links \ overdue : link[k] = "active"} = UsableLinks
  BY DEF UsableLinks
<1>4. Cardinality({k \in Links \ overdue : link[k] = "active"}) < LinkLimit
  BY <1>2, <1>3 DEF Limits, LinksFit
<1>5. Contract!MakeLink(l)
  BY <1>1, <1>4, SameCardinality, SameRows, SameResponses DEF Contract!MakeLink, Contract!answers
<1> QED
  BY <1>1, <1>5 DEF Contract!ContractNext

LEMMA CommitOpenOpens ==
    ASSUME Ownership, TokensAlive, Limits, NEW r \in Requests, NEW s \in DownloadSessions, CommitOpen(r, s),
           UNCHANGED tokenVars
    PROVE  Contract!ContractNext
<1> USE ConnectionsAssumption
<1> DEFINE l == txn[r].link
           c == txn[r].client
<1>1. /\ l \in Links /\ link[l] = "active" /\ txn[r].kind = "open"
      /\ session[s] = NoRow /\ s \in Sessions
      /\ session' = [session EXCEPT ![s] = [state |-> "active", key |-> l, client |-> c]]
      /\ lapsed' = IF l \in overdue THEN lapsed \union {s} ELSE lapsed
      /\ link' = IF l \in OneTime THEN [link EXCEPT ![l] = "exhausted"] ELSE link
      /\ UNCHANGED <<restarted, overdue, token, inflight, ranges, resumes>>
  BY DEF CommitOpen, Ends, Used, Ownership, TxnsSound, TxnSound, traffic, tokenVars, Sessions
<1>2. session \in [Sessions -> Row]
  BY DEF Ownership, TypeOK
<1>3. Contract!Bind(s, l, c)
  <2> HIDE DEF l, c
  <2>1. session' = [session EXCEPT ![s] = [state |-> "active", key |-> l, client |-> c]]
    BY <1>1
  <2>2. \A x \in Sessions : /\ session'[x].key = IF x = s THEN l ELSE session[x].key
                            /\ session'[x].client = IF x = s THEN c ELSE session[x].client
    BY <1>1, <1>2, <2>1
  <2>3. Owners' = [Owners EXCEPT ![s] = l] /\ Users' = [Users EXCEPT ![s] = c]
    BY <1>1, <2>2 DEF Owners, Users
  <2>4. Owners[s] = None
    BY <1>1 DEF Owners, NoRow
  <2> QED
    BY <2>3, <2>4 DEF Contract!Bind
<1>4. Cardinality({d \in DownloadSessions \cap LiveSessions : Owners[d] \in Contract!OfFile(l)})
        < SessionLimit
  <2> DEFINE D == {d \in DownloadSessions \cap LiveSessions : Owners[d] \in Contract!OfFile(l)}
             f == FileOf[l]
  <2>1. f \in Files /\ Opening(f)
    BY <1>1, DownloadAssumption DEF Opening
  <2>2. D \subseteq SessionsOn(f)
    BY DEF Contract!OfFile, LiveSessions, Owners, SessionsOn, ActiveSessions
  <2>3. /\ Cardinality(D) \in Nat /\ Cardinality(SessionsOn(f)) \in Nat
        /\ Cardinality(D) <= Cardinality(SessionsOn(f))
    BY <2>1, <2>2, CountedSetsFinite, SmallerFits
  <2>4. Cardinality(SessionsOn(f)) < SessionLimit
    BY <2>1 DEF Limits, SessionsFit
  <2> QED
    BY <2>3, <2>4, DownloadAssumption
<1>5. LiveSessions' = LiveSessions \/ (LiveSessions' = LiveSessions \union {s} /\ l \notin overdue)
  <2>1. \A x \in Sessions : x # s => (Live(x)' <=> Live(x))
    BY <1>1, <1>2 DEF Live
  <2>2. ~ Live(s) /\ (Live(s)' => l \notin overdue)
    BY <1>1, <1>2 DEF Live, NoRow
  <2> QED
    BY <1>1, <2>1, <2>2 DEF LiveSessions
<1>6. UNCHANGED Responses
  BY <1>1, SameResponses
<1>7. Contract!OpenDownload(l, s, c)
  BY <1>1, <1>3, <1>4, <1>5, <1>6, SameCardinality DEF Contract!OpenDownload, Contract!answers
<1>8. c \in Clients
  BY <1>1 DEF TokensAlive
<1> QED
  BY <1>1, <1>7, <1>8 DEF Contract!ContractNext

LEMMA CommitFetchAnswers ==
    ASSUME Ownership, Covered, NEW r \in Requests, CommitFetch(r), UNCHANGED tokenVars
    PROVE  Contract!ContractNext
<1> USE ConnectionsAssumption, DownloadAssumption
<1> DEFINE s == txn[r].session
           demand == txn[r].demand
           ranged == IF demand = "plain" THEN 0 ELSE 1
           resumed == IF demand = "resume" THEN 1 ELSE 0
<1>1. /\ s \in DownloadSessions /\ s \in Sessions /\ txn[r].kind = "fetch"
      /\ session[s].key \in Links
      /\ Ranges(s, demand) <= RangeLimit /\ Resumes(s, demand) <= ResumeLimit
      /\ inflight' = [inflight EXCEPT ![<<s, demand # "plain">>] = @ + 1]
      /\ ranges' = [ranges EXCEPT ![s] = Ranges(s, demand)]
      /\ resumes' = [resumes EXCEPT ![s] = Resumes(s, demand)]
      /\ UNCHANGED <<link, overdue, token, session, lapsed, restarted>>
  BY DEF CommitFetch, Ends, Ownership, TxnsSound, TxnSound, tokenVars, Sessions
<1>2. Owners[s] # None
  BY <1>1 DEF Owners
<1>3. s \in LiveSessions => Responses[s] < Contract!Allowed(s, DownloadConnections)
  <2>1. ASSUME Live(s) PROVE Open(s) < Contract!Allowed(s, Limit(s))
    BY <1>1, <2>1, RoomForOne, RoomIsAllowed DEF Live, Usable, Pending
  <2> QED
    BY <1>1, <2>1 DEF LiveSessions, Responses, Limit
<1>4. Contract!Send(s)
  <2>1. (demand # "plain") \in BOOLEAN
    OBVIOUS
  <2> QED
    BY <1>1, <2>1, AnotherResponse DEF Contract!Send
<1>5. /\ ranged \in {0, 1} /\ resumed \in {0, 1}
      /\ ranges' = [ranges EXCEPT ![s] = @ + ranged] /\ ranges'[s] <= RangeLimit
      /\ resumes' = [resumes EXCEPT ![s] = @ + resumed] /\ resumes'[s] <= ResumeLimit
  BY <1>1 DEF Ownership, TypeOK, Ranges, Resumes
<1>6. UNCHANGED <<Contract!doors, Contract!sessions>>
  BY <1>1, SameRows DEF Contract!doors
<1>7. Contract!AnswerDownload(s)
  <2> HIDE DEF s, ranged, resumed
  <2> QED
    BY <1>2, <1>3, <1>4, <1>5, <1>6 DEF Contract!AnswerDownload
<1> QED
  BY <1>1, <1>7 DEF Contract!ContractNext

LEMMA LinkLapsesEnds ==
    ASSUME Ownership, NEW l \in Links, LinkLapses(l), UNCHANGED tokenVars
    PROVE  Contract!ContractNext
<1>1. /\ link[l] # "absent" /\ overdue' = overdue \union {l}
      /\ lapsed' = lapsed \union SessionsOf(l)
      /\ UNCHANGED <<session, restarted, link, token, inflight, ranges, resumes>>
  BY DEF LinkLapses, traffic, tokenVars
<1>2. UNCHANGED <<Owners, Users, Responses>>
  BY <1>1, SameResponses DEF Owners, Users
<1>3. LiveSessions' = LiveSessions \ {s \in DownloadSessions : Owners[s] = l}
  BY <1>1 DEF LiveSessions, Live, SessionsOf, Owners, Sessions
<1>4. Contract!LinkEnds(l)
  BY <1>1, <1>2, <1>3 DEF Contract!LinkEnds, Contract!answers
<1> QED
  BY <1>4 DEF Contract!ContractNext

LEMMA SessionLapsesEnds ==
    ASSUME Ownership, NEW s \in DownloadSessions, SessionLapses(s), UNCHANGED tokenVars
    PROVE  Contract!ContractNext
<1>1. lapsed' = lapsed \union {s} /\ UNCHANGED <<session, restarted, inflight, linkVars, token>>
  BY DEF SessionLapses, traffic, tokenVars
<1>2. UNCHANGED <<Owners, Users, Responses>>
  BY <1>1, SameResponses DEF Owners, Users
<1>3. LiveSessions' \subseteq LiveSessions
  BY <1>1 DEF LiveSessions, Live
<1>4. Contract!SessionsEnd
  BY <1>1, <1>2, <1>3 DEF Contract!SessionsEnd, Contract!answers, Contract!doors, linkVars
<1> QED
  BY <1>4 DEF Contract!ContractNext

LEMMA TokenLapsesEnds ==
    ASSUME Ownership, NEW t \in Tokens, TokenLapses(t), UNCHANGED linkVars
    PROVE  Contract!ContractNext
<1> USE ConnectionsAssumption
<1>1. /\ token[t] = "valid" /\ token' = [token EXCEPT ![t] = "expired"]
      /\ lapsed' = IF bound[t] = None THEN lapsed ELSE lapsed \union {bound[t]}
      /\ UNCHANGED <<session, restarted, inflight, linkVars>>
  BY DEF TokenLapses, traffic
<1>2. UNCHANGED <<Owners, Users, Responses>>
  BY <1>1, SameResponses DEF Owners, Users
<1>3. \A s \in Sessions : s \in lapsed' <=>
                              s \in lapsed \/ (s \in StreamSessions /\ Owners[s] = t)
  BY <1>1 DEF Ownership, TypeOK, BoundIsKey, Owners, Sessions
<1>4. LiveSessions' = LiveSessions \ {s \in StreamSessions : Owners[s] = t}
  BY <1>1, <1>3 DEF LiveSessions, Live
<1>5. Contract!TokenEnds(t)
  BY <1>1, <1>2, <1>4 DEF Contract!TokenEnds, Contract!answers, linkVars
<1> QED
  BY <1>5 DEF Contract!ContractNext

LEMMA CreateTokenMakes ==
    ASSUME NEW t \in Tokens, CreateToken(t), UNCHANGED linkVars
    PROVE  Contract!ContractNext
<1>1. /\ token[t] = "absent" /\ token' = [token EXCEPT ![t] = "valid"]
      /\ UNCHANGED <<session, lapsed, restarted, inflight, linkVars>>
  BY DEF CreateToken, connectionVars, traffic
<1>2. Contract!MakeToken(t)
  BY <1>1, SameRows, SameResponses DEF Contract!MakeToken, Contract!answers, linkVars
<1> QED
  BY <1>2 DEF Contract!ContractNext

(* The first request of a token.                                            *)
LEMMA CommitPlayOpens ==
    ASSUME Ownership, TokensAlive, Covered, NEW p \in Players, CommitPlay(p), play[p].new,
           UNCHANGED linkVars
    PROVE  Contract!ContractNext
<1> USE ConnectionsAssumption
<1> DEFINE t == play[p].token
           c == play[p].client
           n == IF play[p].kind = "media" THEN 1 ELSE 0
<1> PICK s : s = play[p].session
  OBVIOUS
<1>1. /\ play[p] # NoPlay /\ t \in Tokens /\ c \in Clients /\ s \in StreamSessions
      /\ s \in Sessions /\ bound[t] = None /\ session[s] = NoRow /\ token[t] # "absent"
  BY DEF CommitPlay, Ownership, PlaysSound, PlaySound, TokensAlive, Sessions
<1>2. /\ session' = [session EXCEPT ![s] = [state |-> "active", key |-> t, client |-> c]]
      /\ lapsed' = IF token[t] = "expired" THEN lapsed \union {s} ELSE lapsed
      /\ inflight' = [inflight EXCEPT ![<<s, FALSE>>] = @ + n]
      /\ UNCHANGED <<token, restarted>>
  BY DEF CommitPlay
<1>3. session \in [Sessions -> Row] /\ token[t] \in {"valid", "expired"}
  BY <1>1 DEF Ownership, TypeOK
<1>4. Contract!Bind(s, t, c)
  <2> HIDE DEF t, c
  <2>1. \A x \in Sessions : /\ session'[x].key = IF x = s THEN t ELSE session[x].key
                            /\ session'[x].client = IF x = s THEN c ELSE session[x].client
    BY <1>2, <1>3
  <2>2. Owners' = [Owners EXCEPT ![s] = t] /\ Users' = [Users EXCEPT ![s] = c]
    BY <1>1, <2>1 DEF Owners, Users
  <2>3. Owners[s] = None
    BY <1>1 DEF Owners, NoRow
  <2> QED
    BY <2>2, <2>3 DEF Contract!Bind
<1>5. \A x \in StreamSessions : Owners[x] # t
  BY <1>1 DEF Owners, Ownership, BoundIsKey, Sessions
<1>6. LiveSessions' = LiveSessions
         \/ (LiveSessions' = LiveSessions \union {s} /\ token[t] = "valid")
  <2>1. \A x \in Sessions : x # s => (Live(x)' <=> Live(x))
    BY <1>2, <1>3 DEF Live
  <2>2. ~ Live(s) /\ (Live(s)' => token[t] = "valid")
    BY <1>1, <1>2, <1>3 DEF Live, NoRow
  <2> QED
    BY <1>1, <2>1, <2>2 DEF LiveSessions
<1>7. Responses' = [Responses EXCEPT ![s] = @ + n]
  <2>1. n \in {0, 1} /\ FALSE \in BOOLEAN
    OBVIOUS
  <2> QED
    BY <1>1, <1>2, <2>1, AnotherResponse
<1>8. \/ UNCHANGED Responses
      \/ /\ Contract!Send(s)
         /\ s \in LiveSessions' => Responses'[s] <= Contract!Allowed(s, StreamConnections)
  <2>1. Open(s) \in Nat /\ Limit(s) \in Nat /\ Forgotten(s) \in Nat
    BY <1>1, CoverNumbers
  <2>2. CASE play[p].kind = "media"
    <3>1. Responses' = [Responses EXCEPT ![s] = @ + 1]
      BY <1>7, <2>2
    <3>2. ASSUME s \in LiveSessions'
          PROVE  Responses'[s] <= Contract!Allowed(s, StreamConnections)
      <4>1. Usable(s)
        BY <1>1, <1>2, <3>2 DEF Usable, NoRow, LiveSessions, Live
      <4>2. Limit(s) = StreamConnections
        BY <1>1 DEF Limit
      <4>3. Open(s) < Limit(s) + Forgotten(s)
        BY <1>1, <2>2, <4>1, RoomForOne DEF Pending
      <4>4. Contract!Allowed(s, StreamConnections) = Limit(s) + Forgotten(s)
        BY <1>1, <4>2, RoomIsAllowed
      <4>5. Responses'[s] = Open(s) + 1
        BY <1>1, <3>1 DEF Responses
      <4> QED
        BY <2>1, <4>3, <4>4, <4>5
    <3> QED
      BY <3>1, <3>2 DEF Contract!Send
  <2>3. CASE play[p].kind # "media"
    <3>1. Responses' = [Responses EXCEPT ![s] = @ + 0]
      BY <1>7, <2>3
    <3>2. Responses[s] = Open(s)
      BY <1>1 DEF Responses
    <3> QED
      BY <1>1, <2>1, <3>1, <3>2 DEF Responses
  <2> QED
    BY <2>2, <2>3
<1>9. Contract!OpenStream(t, s, c)
  BY <1>1, <1>2, <1>4, <1>5, <1>6, <1>8
  DEF Contract!OpenStream, Contract!doors, linkVars
<1> QED
  BY <1>1, <1>9 DEF Contract!ContractNext

(* A later request of a token; a token that has ended took its session with *)
(* it before.                                                               *)
LEMMA CommitPlayAnswers ==
    ASSUME Ownership, TokensAlive, Covered, NEW p \in Players, CommitPlay(p), ~ play[p].new,
           UNCHANGED linkVars
    PROVE  [Contract!ContractNext]_<<session, lapsed, restarted, inflight, link, overdue, token,
                                     ranges, resumes>>
<1> USE ConnectionsAssumption
<1> DEFINE t == play[p].token
           n == IF play[p].kind = "media" THEN 1 ELSE 0
<1> PICK s : s = play[p].session
  OBVIOUS
<1>1. /\ play[p] # NoPlay /\ t \in Tokens /\ s \in StreamSessions /\ s \in Sessions
      /\ bound[t] = s /\ session[s].key = t
  BY DEF CommitPlay, Ownership, PlaysSound, PlaySound, BoundIsKey, Sessions
<1>2. /\ inflight' = [inflight EXCEPT ![<<s, FALSE>>] = @ + n]
      /\ UNCHANGED <<session, token, restarted>>
  BY DEF CommitPlay
<1>3. UNCHANGED lapsed
  BY <1>1 DEF CommitPlay, TokensAlive
<1>4. inflight \in [Sessions \X BOOLEAN -> Nat]
  BY DEF Ownership, TypeOK
<1>5. CASE play[p].kind = "media"
  <2>1. Owners[s] # None
    BY <1>1, StreamAssumption DEF Owners
  <2>2. s \in LiveSessions => Responses[s] < Contract!Allowed(s, StreamConnections)
    <3>1. ASSUME Live(s) PROVE Open(s) < Contract!Allowed(s, Limit(s))
      BY <1>1, <1>5, <3>1, RoomForOne, RoomIsAllowed DEF Live, Usable, Pending
    <3> QED
      BY <1>1, <3>1 DEF LiveSessions, Responses, Limit
  <2>3. Contract!Send(s)
    <3>1. inflight' = [inflight EXCEPT ![<<s, FALSE>>] = @ + 1]
      BY <1>2, <1>5
    <3>2. FALSE \in BOOLEAN /\ 1 \in {0, 1}
      OBVIOUS
    <3>3. Responses' = [Responses EXCEPT ![s] = @ + 1]
      BY <1>1, <3>1, <3>2, AnotherResponse
    <3> QED
      BY <3>3 DEF Contract!Send
  <2>4. Contract!AnswerStream(s)
    BY <1>2, <1>3, <2>1, <2>2, <2>3, SameRows
    DEF Contract!AnswerStream, Contract!doors, linkVars
  <2> QED
    BY <1>1, <2>4 DEF Contract!ContractNext
<1>6. CASE play[p].kind # "media"
  <2>1. inflight' = [inflight EXCEPT ![<<s, FALSE>>] = @ + 0]
    BY <1>2, <1>6
  <2>2. inflight[<<s, FALSE>>] \in Nat
    BY <1>1, <1>4
  <2>3. UNCHANGED inflight
    BY <1>1, <1>4, <2>1, <2>2
  <2> QED
    BY <1>2, <1>3, <2>3 DEF linkVars
<1> QED
  BY <1>5, <1>6

----------------------------------------------------------------------------
LEMMA ContractInitially == Init => Contract!ContractInit
<1> SUFFICES ASSUME Init PROVE Contract!ContractInit
  OBVIOUS
<1> USE DEF Init, ConnectionsInit, LinksInit, TokensInit
<1>1. /\ Owners = [s \in Sessions |-> None] /\ Users = [s \in Sessions |-> None]
      /\ LiveSessions = {}
  BY DEF Owners, Users, LiveSessions, Live, NoRow
<1>2. Responses = [s \in Sessions |-> 0]
  <2>1. ASSUME NEW s \in Sessions PROVE Open(s) = 0
    <3>1. inflight[<<s, TRUE>>] = 0 /\ inflight[<<s, FALSE>>] = 0
      OBVIOUS
    <3> QED
      BY <3>1 DEF Open
  <2> QED
    BY <2>1 DEF Responses
<1>3. Contract!Sessions = Sessions
  BY DEF Contract!Sessions, Sessions
<1> QED
  BY <1>1, <1>2, <1>3 DEF Contract!ContractInit

(* A commit, a lapse and the end of a response are steps of the contract,   *)
(* everything else is none.                                                 *)
LEMMA ContractStep ==
    ASSUME Ownership, TokensAlive, Limits, Covered, [Next]_vars
    PROVE  [Contract!ContractNext]_Contract!contract
<1> DEFINE seen == <<session, lapsed, restarted, inflight, link, overdue, token, ranges, resumes>>
<1>1. CASE LinksNext /\ UNCHANGED tokenVars
  <2>1. CASE \E r \in Requests : CommitCreate(r)
    BY <1>1, <2>1, CommitCreateMakes
  <2>2. CASE \E r \in Requests, s \in DownloadSessions : CommitOpen(r, s)
    BY <1>1, <2>2, CommitOpenOpens
  <2>3. CASE \E r \in Requests : CommitFetch(r)
    BY <1>1, <2>3, CommitFetchAnswers
  <2>4. CASE \E l \in Links : LinkLapses(l)
    BY <1>1, <2>4, LinkLapsesEnds
  <2>5. CASE \E s \in DownloadSessions : SessionLapses(s)
    BY <1>1, <2>5, SessionLapsesEnds
  <2>6. CASE \/ \E r \in Requests, l \in Links : BeginCreate(r, l)
             \/ \E r \in Requests, l \in Links, c \in Clients : BeginOpen(r, l, c)
             \/ \E r \in Requests, s \in DownloadSessions, c \in Clients, demand \in Demands :
                   BeginFetch(r, s, c, demand)
             \/ \E r \in Requests : Rollback(r)
    <3>1. UNCHANGED seen
      BY <1>1, <2>6 DEF BeginCreate, BeginOpen, BeginFetch, Rollback, connectionVars, traffic,
                        tokenVars
    <3> QED
      BY <3>1, Unseen
  <2> QED
    BY <1>1, <2>1, <2>2, <2>3, <2>4, <2>5, <2>6 DEF LinksNext
<1>2. CASE TokensNext /\ UNCHANGED linkVars
  <2>1. CASE \E t \in Tokens : CreateToken(t)
    BY <1>2, <2>1, CreateTokenMakes
  <2>2. CASE \E t \in Tokens : TokenLapses(t)
    BY <1>2, <2>2, TokenLapsesEnds
  <2>3. CASE \E p \in Players : CommitPlay(p)
    <3> PICK p \in Players : CommitPlay(p)
      BY <2>3
    <3>1. CASE play[p].new
      BY <1>2, <3>1, CommitPlayOpens
    <3>2. CASE ~ play[p].new
      BY <1>2, <3>2, CommitPlayAnswers, Unseen
    <3> QED
      BY <3>1, <3>2
  <2>4. CASE \/ \E p \in Players, t \in Tokens, s \in StreamSessions, c \in Clients,
                   kind \in {"manifest", "media"} : BeginPlay(p, t, s, c, kind)
             \/ \E p \in Players : RollbackPlay(p)
    <3>1. UNCHANGED seen
      BY <1>2, <2>4 DEF BeginPlay, RollbackPlay, connectionVars, traffic, linkVars
    <3> QED
      BY <3>1, Unseen
  <2> QED
    BY <1>2, <2>1, <2>2, <2>3, <2>4 DEF TokensNext
<1>3. CASE ConnectionsNext /\ UNCHANGED <<linkVars, tokenVars>>
  BY <1>3, ConnectionSteps, Unseen
<1>4. CASE UNCHANGED vars
  <2>1. UNCHANGED seen
    BY <1>4 DEF vars, connectionVars, traffic, linkVars, tokenVars
  <2> QED
    BY <2>1, Unseen
<1> QED
  BY <1>1, <1>2, <1>3, <1>4 DEF Next

(* KeepsDeliveryContract: a limit that is compared under the locks of one   *)
(* transaction, or in Redis before the commit, still holds in the step that *)
(* makes the link, opens the session or sends the response; in a session's  *)
(* last second the limit on responses may be granted twice.                 *)
THEOREM KeepsDeliveryContractHolds == Spec => KeepsDeliveryContract
<1>1. Ownership /\ TokensAlive /\ Limits /\ Covered /\ [Next]_vars
        => [Contract!ContractNext]_Contract!contract
  BY ContractStep
<1> QED
  BY <1>1, ContractInitially, OwnershipHolds, TokensAliveHolds, LimitsHold, CoverHolds, PTL
  DEF Spec, KeepsDeliveryContract, Contract!ContractSpec

============================================================================
