--------------------------- MODULE DeliveryProofs ---------------------------
(***************************************************************************)
(* Proofs about Delivery for any links, tokens, sessions, clients, limits  *)
(* and bounds.  Three inductive invariants build on each other: Ownership  *)
(* (what locked rows guarantee to the transaction that holds them), the    *)
(* limits on links and sessions, and the cover of connections by the two   *)
(* counters.                                                               *)
(***************************************************************************)
EXTENDS Delivery, FiniteSetTheorems, TLAPS


(* What an open transaction has found under its locks is still so.          *)
TxnSound(r) ==
    /\ txn[r].kind # "none" => txn[r].link \in Links
    /\ txn[r].kind = "create" => link[txn[r].link] = "absent"
    /\ txn[r].kind = "open" => link[txn[r].link] = "active"
    /\ txn[r].kind = "fetch" =>
          /\ txn[r].session \in DownloadSessions
          /\ session[txn[r].session].key = txn[r].link
          /\ Ranges(txn[r].session, txn[r].demand) <= RangeLimit
          /\ Resumes(txn[r].session, txn[r].demand) <= ResumeLimit

TxnsSound == \A r \in Requests : TxnSound(r)

OnRows(r) == txn[r].kind \in {"open", "fetch"}
SameFile(q, r) == FileOf[txn[q].link] = FileOf[txn[r].link]

RowsHeldOnce ==
    \A q, r \in Requests : OnRows(q) /\ OnRows(r) /\ SameFile(q, r) => q = r

UserHeldOnce ==
    \A q, r \in Requests : txn[q].kind = "create" /\ txn[r].kind = "create" => q = r

(* A one-time link that is not exhausted has no session.                    *)
OneTimeSound ==
    /\ \A l \in OneTime, s \in DownloadSessions :
          session[s].key = l => link[l] = "exhausted"
    /\ \A l \in OneTime, s, t \in DownloadSessions :
          session[s].key = l /\ session[t].key = l => s = t

PlaySound(p) ==
    play[p] # NoPlay =>
        /\ play[p].kind # "none"
        /\ play[p].token \in Tokens
        /\ play[p].client \in Clients
        /\ play[p].session \in StreamSessions
        /\ IF play[p].new
           THEN bound[play[p].token] = None /\ session[play[p].session] = NoRow
           ELSE bound[play[p].token] = play[p].session

PlaysSound == \A p \in Players : PlaySound(p)

(* Two requests share neither a token nor a session.                        *)
PlaysApart ==
    \A p, q \in Players :
        play[p] # NoPlay /\ play[q] # NoPlay
            /\ (play[p].token = play[q].token \/ play[p].session = play[q].session)
        => p = q

BoundIsKey ==
    \A t \in Tokens, s \in StreamSessions : session[s].key = t <=> bound[t] = s

Ownership ==
    /\ TypeOK
    /\ TxnsSound /\ RowsHeldOnce /\ UserHeldOnce /\ OneTimeSound
    /\ PlaysSound /\ PlaysApart /\ BoundIsKey

LinkSide == TxnsSound /\ RowsHeldOnce /\ UserHeldOnce /\ OneTimeSound
TokenSide == PlaysSound /\ PlaysApart /\ BoundIsKey

----------------------------------------------------------------------------
(* The connections never change what rows belong to.                        *)
SameKeys ==
    /\ \A s \in Sessions : session'[s].key = session[s].key
    /\ \A s \in StreamSessions : session'[s] = session[s]

(* Lines of the log can be counted.                                         *)
LEMMA LinesCounted ==
    ASSUME Len(log) \in Nat, NEW s, NEW lines \in SUBSET (1..Len(log))
    PROVE  IsFiniteSet(LinesOf(s, lines)) /\ Cardinality(LinesOf(s, lines)) \in Nat
<1>1. IsFiniteSet(1..Len(log))
  BY FS_Interval
<1>2. LinesOf(s, lines) \subseteq 1..Len(log)
  BY DEF LinesOf
<1> QED
  BY <1>1, <1>2, FS_Subset, FS_CardinalityType

LEMMA CompletedIsRow ==
    ASSUME NEW row \in Row PROVE [row EXCEPT !.state = "completed"] \in Row
BY DEF Row

LEMMA ReleasedIsCounter ==
    ASSUME counter \in [Sessions -> Nat], NEW s \in Sessions
    PROVE  Released(s) \in [Sessions -> Nat]
BY DEF Released

LEMMA NoTxnIsTxn == NoTxn \in Txn
BY DEF NoTxn, Txn, Demands

LEMMA NoPlayIsPlay == NoPlay \in Play
BY DEF NoPlay, Play

LEMMA InitOwnership == Init => Ownership
<1> SUFFICES ASSUME Init PROVE Ownership
  OBVIOUS
<1> USE ConnectionsAssumption, DownloadAssumption, StreamAssumption
    DEF Init, ConnectionsInit, LinksInit, TokensInit
<1>1. TypeOK
  BY DEF TypeOK, Row, NoRow, Txn, NoTxn, Demands, Play, NoPlay, Line, Sessions
<1>2. LinkSide
  BY DEF LinkSide, TxnsSound, TxnSound, RowsHeldOnce, OnRows, UserHeldOnce,
         OneTimeSound, NoTxn, NoRow, Sessions
<1>3. TokenSide
  BY DEF TokenSide, PlaysSound, PlaySound, PlaysApart, BoundIsKey, NoRow, Sessions
<1> QED
  BY <1>1, <1>2, <1>3 DEF Ownership, LinkSide, TokenSide

(* Of the variables of the connections, links and tokens only the rows of   *)
(* sessions matter to each other's owners.                                  *)
LEMMA ConnectionsKeepOwnership ==
    ASSUME Ownership, ConnectionsNext, UNCHANGED <<linkVars, tokenVars>>
    PROVE  Ownership'
<1> USE ConnectionsAssumption, DownloadAssumption, StreamAssumption DEF linkVars, tokenVars
<1>1. TypeOK' /\ SameKeys
  <2> USE DEF Ownership, TypeOK, traffic, collector, SameKeys
  <2>1. CASE \E s \in Sessions : CounterExpires(s)
    BY <2>1 DEF CounterExpires
  <2>2. CASE \E s \in Sessions, ranged \in BOOLEAN, content \in {"whole", "part", "unstorable"} :
               Finish(s, ranged, content)
    <3> PICK s \in Sessions, ranged \in BOOLEAN, content \in {"whole", "part", "unstorable"} :
             Finish(s, ranged, content)
      BY <2>2
    <3>1. [session |-> s, content |-> content] \in Line
      BY DEF Line
    <3>2. log' \in Seq(Line) /\ Len(log') = Len(log) + 1 /\ Len(log') <= MaxLines
      BY <3>1 DEF Finish
    <3>3. inflight' \in [Sessions \X BOOLEAN -> Nat]
      BY DEF Finish
    <3>4. UNCHANGED <<session, lapsed, counter, restarted, active, collector>>
      BY DEF Finish
    <3>5. /\ recorded' \subseteq 1..Len(log') /\ releasing' \subseteq recorded'
          /\ cursor' \in 0..Len(log') /\ batch' \in 0..Len(log')
      BY <3>2, <3>4
    <3> QED
      BY <3>2, <3>3, <3>4, <3>5
  <2>3. CASE \E s \in Sessions, ranged \in BOOLEAN : Vanish(s, ranged)
    <3>1. inflight' \in [Sessions \X BOOLEAN -> Nat]
      BY <2>3 DEF Vanish
    <3>2. UNCHANGED <<session, lapsed, counter, restarted, active, log, collector>>
      BY <2>3 DEF Vanish
    <3> QED
      BY <3>1, <3>2
  <2>4. CASE Read
    BY <2>4 DEF Read
  <2>5. CASE Record
    <3>1. NewLines \subseteq 1..Len(log)
      BY DEF NewLines
    <3>2. \A s \in Sessions : Less(active[s], Cardinality(LinesOf(s, NewLines))) \in Nat
      <4>1. \A s \in Sessions : Cardinality(LinesOf(s, NewLines)) \in Nat
        BY <3>1, LinesCounted
      <4>2. \A s \in Sessions : active[s] \in Nat
        OBVIOUS
      <4> QED
        BY <4>1, <4>2 DEF Less
    <3>3. active' \in [Sessions -> Nat]
      BY <2>5, <3>2 DEF Record
    <3>4. session' \in [Sessions -> Row]
      BY <2>5, CompletedIsRow DEF Record
    <3>5. recorded' \subseteq 1..Len(log) /\ releasing' \subseteq recorded' /\ cycle' = "release"
      BY <2>5, <3>1 DEF Record
    <3>6. UNCHANGED <<lapsed, counter, restarted, traffic, cursor, batch, failures>>
      BY <2>5 DEF Record
    <3>7. SameKeys
      BY <2>5, <3>4 DEF Record, Row, Sessions
    <3> QED
      BY <3>3, <3>4, <3>5, <3>6, <3>7
  <2>6. CASE ReleaseOne
    <3> USE <2>6 DEF ReleaseOne
    <3>1. PICK i \in releasing : counter' = Released(log[i].session)
      OBVIOUS
    <3>2. log[i] \in Line
      OBVIOUS
    <3>3. Released(log[i].session) \in [Sessions -> Nat]
      BY <3>2, ReleasedIsCounter DEF Line
    <3>4. counter' \in [Sessions -> Nat]
      BY <3>1, <3>3
    <3> QED
      BY <3>4
  <2>7. CASE SaveCursor
    BY <2>7 DEF SaveCursor, Consumed
  <2>8. CASE CycleFails
    BY <2>8 DEF CycleFails
  <2>9. CASE CursorLost
    BY <2>9 DEF CursorLost
  <2>10. CASE RecordFails
    BY <2>10 DEF RecordFails
  <2> QED
    BY <2>1, <2>2, <2>3, <2>4, <2>5, <2>6, <2>7, <2>8, <2>9, <2>10 DEF ConnectionsNext, Collect
<1>2. LinkSide'
  BY <1>1 DEF Ownership, LinkSide, SameKeys, TxnsSound, TxnSound, RowsHeldOnce, OnRows, SameFile,
         UserHeldOnce, OneTimeSound, Ranges, Resumes, Sessions
<1>3. TokenSide'
  BY <1>1 DEF Ownership, TokenSide, SameKeys, PlaysSound, PlaySound, PlaysApart, BoundIsKey,
              Sessions
<1> QED
  BY <1>1, <1>2, <1>3 DEF Ownership, LinkSide, TokenSide


----------------------------------------------------------------------------
LEMMA LinksKeepType ==
    ASSUME Ownership, LinksNext, UNCHANGED tokenVars
    PROVE  TypeOK'
<1> USE ConnectionsAssumption, DownloadAssumption, StreamAssumption
    DEF Ownership, TypeOK, tokenVars, linkVars, connectionVars, traffic, collector
<1>1. CASE \E r \in Requests, l \in Links : BeginCreate(r, l)
  <2>1. txn' \in [Requests -> Txn]
    BY <1>1 DEF BeginCreate, Begin, Txn, Demands
  <2> QED
    BY <1>1, <2>1 DEF BeginCreate
<1>2. CASE \E r \in Requests : CommitCreate(r)
  <2> PICK r \in Requests : CommitCreate(r)
    BY <1>2
  <2> USE DEF CommitCreate, Ends
  <2>1. link' \in [Links -> {"absent", "active", "exhausted"}]
    OBVIOUS
  <2>2. txn' \in [Requests -> Txn]
    BY NoTxnIsTxn
  <2> QED
    BY <2>1, <2>2
<1>3. CASE \E r \in Requests, l \in Links, c \in Clients : BeginOpen(r, l, c)
  <2>1. txn' \in [Requests -> Txn]
    BY <1>3 DEF BeginOpen, Begin, Txn, Demands
  <2> QED
    BY <1>3, <2>1 DEF BeginOpen
<1>4. CASE \E r \in Requests, s \in DownloadSessions : CommitOpen(r, s)
  <2> PICK r \in Requests, s \in DownloadSessions : CommitOpen(r, s)
    BY <1>4
  <2> USE DEF CommitOpen, Ends
  <2>1. [state |-> "active", key |-> txn[r].link, client |-> txn[r].client] \in Row
    BY DEF Row, Txn
  <2>2. session' \in [Sessions -> Row]
    BY <2>1
  <2>3. link' \in [Links -> {"absent", "active", "exhausted"}]
    BY DEF Used
  <2>4. lapsed' \subseteq Sessions
    BY DEF Sessions
  <2> QED
    BY <2>2, <2>3, <2>4, NoTxnIsTxn
<1>5. CASE \E r \in Requests, s \in DownloadSessions, c \in Clients, demand \in Demands :
             BeginFetch(r, s, c, demand)
  <2> PICK r \in Requests, s \in DownloadSessions, c \in Clients, demand \in Demands :
           BeginFetch(r, s, c, demand)
    BY <1>5
  <2> USE DEF BeginFetch, Begin
  <2>1. txn' \in [Requests -> Txn]
    BY DEF Txn
  <2>2. counter' \in [Sessions -> Nat]
    BY DEF Acquired, Sessions
  <2> QED
    BY <2>1, <2>2
<1>6. CASE \E r \in Requests : CommitFetch(r)
  <2> PICK r \in Requests : CommitFetch(r)
    BY <1>6
  <2> USE DEF CommitFetch, Ends
  <2> DEFINE s == txn[r].session
             demand == txn[r].demand
  <2>1. /\ s \in DownloadSessions
        /\ Ranges(s, demand) <= RangeLimit /\ Resumes(s, demand) <= ResumeLimit
    BY DEF TxnsSound, TxnSound
  <2>2. Ranges(s, demand) \in 0..RangeLimit /\ Resumes(s, demand) \in 0..ResumeLimit
    BY <2>1 DEF Ranges, Resumes
  <2>3. /\ ranges' \in [DownloadSessions -> 0..RangeLimit]
        /\ resumes' \in [DownloadSessions -> 0..ResumeLimit]
    BY <2>2
  <2>4. active' \in [Sessions -> Nat]
    BY <2>1 DEF Sessions
  <2>5. inflight' \in [Sessions \X BOOLEAN -> Nat]
    <3>1. <<s, demand # "plain">> \in Sessions \X BOOLEAN
      BY <2>1 DEF Sessions
    <3> QED
      BY <3>1
  <2> QED
    BY <2>3, <2>4, <2>5, NoTxnIsTxn
<1>7. CASE \E r \in Requests : Rollback(r)
  BY <1>7, NoTxnIsTxn DEF Rollback
<1>8. CASE \E l \in Links : LinkLapses(l)
  BY <1>8 DEF LinkLapses, SessionsOf, Sessions
<1>9. CASE \E s \in DownloadSessions : SessionLapses(s)
  BY <1>9 DEF SessionLapses, Sessions
<1> QED
  BY <1>1, <1>2, <1>3, <1>4, <1>5, <1>6, <1>7, <1>8, <1>9 DEF LinksNext

LEMMA LinksKeepLinkSide ==
    ASSUME Ownership, LinksNext, UNCHANGED tokenVars
    PROVE  LinkSide'
<1> USE ConnectionsAssumption, DownloadAssumption, StreamAssumption
    DEF Ownership, TypeOK, linkVars, connectionVars, LinkSide
<1>1. CASE \E r \in Requests, l \in Links : BeginCreate(r, l)
  <2> PICK r \in Requests, l \in Links : BeginCreate(r, l)
    BY <1>1
  <2> USE DEF BeginCreate, Begin, UserFree
  <2>1. TxnsSound'
    BY DEF TxnsSound, TxnSound, Ranges, Resumes
  <2>2. RowsHeldOnce' /\ UserHeldOnce'
    BY DEF RowsHeldOnce, OnRows, SameFile, UserHeldOnce
  <2> QED
    BY <2>1, <2>2 DEF OneTimeSound
<1>2. CASE \E r \in Requests : CommitCreate(r)
  <2> PICK r \in Requests : CommitCreate(r)
    BY <1>2
  <2> USE DEF CommitCreate, Ends
  <2>1. TxnsSound'
    BY DEF TxnsSound, TxnSound, Ranges, Resumes, UserHeldOnce, SameFile, NoTxn
  <2>2. RowsHeldOnce' /\ UserHeldOnce'
    BY DEF RowsHeldOnce, OnRows, SameFile, UserHeldOnce, NoTxn
  <2>3. OneTimeSound'
    BY DEF OneTimeSound, TxnsSound, TxnSound
  <2> QED
    BY <2>1, <2>2, <2>3
<1>3. CASE \E r \in Requests, l \in Links, c \in Clients : BeginOpen(r, l, c)
  <2> PICK r \in Requests, l \in Links, c \in Clients : BeginOpen(r, l, c)
    BY <1>3
  <2> USE DEF BeginOpen, Begin, RowsFree, Holders
  <2>1. TxnsSound'
    BY DEF TxnsSound, TxnSound, Ranges, Resumes
  <2>2. RowsHeldOnce' /\ UserHeldOnce'
    BY DEF RowsHeldOnce, OnRows, SameFile, UserHeldOnce
  <2> QED
    BY <2>1, <2>2 DEF OneTimeSound
<1>4. CASE \E r \in Requests, s \in DownloadSessions : CommitOpen(r, s)
  <2> PICK r \in Requests, s \in DownloadSessions : CommitOpen(r, s)
    BY <1>4
  <2> USE DEF CommitOpen, Ends
  <2>1. \A q \in Requests : txn[q].kind = "fetch" => txn[q].session # s
    <3> TAKE q \in Requests
    <3>1. session[s].key = None /\ None \notin Links
      BY DEF NoRow
    <3> QED
      BY <3>1 DEF TxnsSound, TxnSound
  <2>2. /\ txn[r].link \in Links
        /\ \A q \in Requests : txn[q].kind = "open" /\ q # r => txn[q].link # txn[r].link
        /\ \A q \in Requests : txn[q].kind = "create" => txn[q].link # txn[r].link
    BY DEF TxnsSound, TxnSound, RowsHeldOnce, OnRows, SameFile
  <2>3. TxnsSound'
    BY <2>1, <2>2 DEF TxnsSound, TxnSound, Ranges, Resumes, NoTxn, Used, Sessions
  <2>4. RowsHeldOnce' /\ UserHeldOnce'
    BY DEF RowsHeldOnce, OnRows, SameFile, UserHeldOnce, NoTxn
  <2>5. OneTimeSound'
    <3>1. \A t \in DownloadSessions :
              session'[t].key = IF t = s THEN txn[r].link ELSE session[t].key
      BY DEF Sessions
    <3>2. \A l \in OneTime : link'[l] = "exhausted" <=> l = txn[r].link \/ link[l] = "exhausted"
      BY DEF Used
    <3>3. link[txn[r].link] = "active"
      BY DEF TxnsSound, TxnSound
    <3>4. \A l \in OneTime, t \in DownloadSessions : session'[t].key = l => link'[l] = "exhausted"
      BY <3>1, <3>2 DEF OneTimeSound
    <3>5. \A l \in OneTime, t, x \in DownloadSessions :
              session'[t].key = l /\ session'[x].key = l => t = x
      BY <3>1, <3>3 DEF OneTimeSound
    <3> QED
      BY <3>4, <3>5 DEF OneTimeSound
  <2> QED
    BY <2>3, <2>4, <2>5
<1>5. CASE \E r \in Requests, s \in DownloadSessions, c \in Clients, demand \in Demands :
             BeginFetch(r, s, c, demand)
  <2> PICK r \in Requests, s \in DownloadSessions, c \in Clients, demand \in Demands :
           BeginFetch(r, s, c, demand)
    BY <1>5
  <2> USE DEF BeginFetch, Begin, RowsFree, Holders
  <2>1. TxnsSound'
    BY DEF TxnsSound, TxnSound, Ranges, Resumes
  <2>2. RowsHeldOnce' /\ UserHeldOnce'
    BY DEF RowsHeldOnce, OnRows, SameFile, UserHeldOnce
  <2> QED
    BY <2>1, <2>2 DEF OneTimeSound
<1>6. CASE \E r \in Requests : CommitFetch(r)
  <2> PICK r \in Requests : CommitFetch(r)
    BY <1>6
  <2> USE DEF CommitFetch, Ends
  <2>1. \A q \in Requests :
            txn[q].kind = "fetch" /\ q # r => txn[q].session # txn[r].session
    <3> TAKE q \in Requests
    <3>1. TxnSound(q) /\ TxnSound(r)
      BY DEF TxnsSound
    <3>2. txn[q].kind = "fetch" /\ q # r => txn[q].link # txn[r].link
      BY DEF RowsHeldOnce, OnRows, SameFile
    <3> QED
      BY <3>1, <3>2 DEF TxnSound
  <2>2. TxnsSound'
    BY <2>1 DEF TxnsSound, TxnSound, Ranges, Resumes, NoTxn
  <2>3. RowsHeldOnce' /\ UserHeldOnce'
    BY DEF RowsHeldOnce, OnRows, SameFile, UserHeldOnce, NoTxn
  <2> QED
    BY <2>2, <2>3 DEF OneTimeSound
<1>7. CASE \E r \in Requests : Rollback(r)
  <2> PICK r \in Requests : Rollback(r)
    BY <1>7
  <2> USE DEF Rollback
  <2>1. TxnsSound'
    BY DEF TxnsSound, TxnSound, Ranges, Resumes, NoTxn
  <2>2. RowsHeldOnce' /\ UserHeldOnce'
    BY DEF RowsHeldOnce, OnRows, SameFile, UserHeldOnce, NoTxn
  <2> QED
    BY <2>1, <2>2 DEF OneTimeSound
<1>8. CASE \/ \E l \in Links : LinkLapses(l)
           \/ \E s \in DownloadSessions : SessionLapses(s)
  <2>1. UNCHANGED <<link, txn, ranges, resumes, session>>
    BY <1>8 DEF LinkLapses, SessionLapses
  <2>2. TxnsSound'
    BY <2>1 DEF TxnsSound, TxnSound, Ranges, Resumes
  <2> QED
    BY <2>1, <2>2 DEF RowsHeldOnce, OnRows, SameFile, UserHeldOnce, OneTimeSound
<1> QED
  BY <1>1, <1>2, <1>3, <1>4, <1>5, <1>6, <1>7, <1>8 DEF LinksNext

LEMMA LinksKeepOwnership ==
    ASSUME Ownership, LinksNext, UNCHANGED tokenVars
    PROVE  Ownership'
<1>1. \A s \in StreamSessions : session'[s] = session[s]
  <2>1. \/ UNCHANGED session
        \/ \E r \in Requests, s \in DownloadSessions : CommitOpen(r, s)
    BY DEF LinksNext, BeginCreate, CommitCreate, BeginOpen, BeginFetch, CommitFetch, Rollback,
           LinkLapses, SessionLapses, connectionVars
  <2>2. ASSUME NEW r \in Requests, NEW s \in DownloadSessions, CommitOpen(r, s)
        PROVE  \A t \in StreamSessions : session'[t] = session[t]
    BY <2>2, ConnectionsAssumption DEF Ownership, TypeOK, CommitOpen, Sessions
  <2> QED
    BY <2>1, <2>2
<1>2. TokenSide'
  BY <1>1 DEF Ownership, TokenSide, tokenVars, PlaysSound, PlaySound, PlaysApart, BoundIsKey
<1> QED
  BY <1>2, LinksKeepType, LinksKeepLinkSide DEF Ownership, LinkSide, TokenSide

----------------------------------------------------------------------------
LEMMA TokensKeepType ==
    ASSUME Ownership, TokensNext, UNCHANGED linkVars
    PROVE  TypeOK'
<1> USE ConnectionsAssumption, StreamAssumption
    DEF Ownership, TypeOK, linkVars, connectionVars, traffic, collector
<1>1. CASE \E t \in Tokens : CreateToken(t)
  BY <1>1 DEF CreateToken
<1>2. CASE \E t \in Tokens : TokenLapses(t)
  BY <1>2 DEF TokenLapses, Sessions
<1>3. CASE \E p \in Players, t \in Tokens, s \in StreamSessions, c \in Clients,
             kind \in {"manifest", "media"} : BeginPlay(p, t, s, c, kind)
  <2> PICK p \in Players, t \in Tokens, s \in StreamSessions, c \in Clients,
           kind \in {"manifest", "media"} : BeginPlay(p, t, s, c, kind)
    BY <1>3
  <2> USE DEF BeginPlay
  <2>1. play' \in [Players -> Play]
    BY DEF Play
  <2>2. counter' \in [Sessions -> Nat]
    BY DEF Acquired, Sessions
  <2> QED
    BY <2>1, <2>2
<1>4. CASE \E p \in Players : CommitPlay(p)
  <2> PICK p \in Players : CommitPlay(p)
    BY <1>4
  <2> USE DEF CommitPlay
  <2> DEFINE s == play[p].session
             t == play[p].token
  <2>1. s \in StreamSessions /\ t \in Tokens /\ play[p].client \in Clients
    BY DEF PlaysSound, PlaySound
  <2>2. [state |-> "active", key |-> t, client |-> play[p].client] \in Row
    BY <2>1 DEF Row
  <2>3. session' \in [Sessions -> Row] /\ lapsed' \subseteq Sessions
    BY <2>1, <2>2 DEF Sessions
  <2>4. bound' \in [Tokens -> StreamSessions \union {None}]
    BY <2>1
  <2>5. active' \in [Sessions -> Nat]
    BY <2>1 DEF Sessions
  <2>6. inflight' \in [Sessions \X BOOLEAN -> Nat]
    <3>1. <<s, FALSE>> \in Sessions \X BOOLEAN
      BY <2>1 DEF Sessions
    <3>2. inflight' = [inflight EXCEPT ![<<s, FALSE>>] =
                           @ + (IF play[p].kind = "media" THEN 1 ELSE 0)]
      OBVIOUS
    <3>3. inflight[<<s, FALSE>>] + (IF play[p].kind = "media" THEN 1 ELSE 0) \in Nat
      BY <3>1
    <3> QED
      BY <3>2, <3>3
  <2>7. play' \in [Players -> Play]
    BY NoPlayIsPlay
  <2> QED
    BY <2>3, <2>4, <2>5, <2>6, <2>7
<1>5. CASE \E p \in Players : RollbackPlay(p)
  BY <1>5, NoPlayIsPlay DEF RollbackPlay
<1> QED
  BY <1>1, <1>2, <1>3, <1>4, <1>5 DEF TokensNext

(* Whoever begins to play finds nobody else at the token or the session.    *)
LEMMA PlayIsAlone ==
    ASSUME Ownership, NEW p \in Players, NEW t \in Tokens, NEW s \in StreamSessions,
           NEW c \in Clients, NEW kind \in {"manifest", "media"}, BeginPlay(p, t, s, c, kind)
    PROVE  \A q \in Players : play[q] # NoPlay => play[q].token # t /\ play[q].session # s
<1> SUFFICES ASSUME NEW q \in Players, play[q] # NoPlay
             PROVE  play[q].token # t /\ play[q].session # s
  OBVIOUS
<1> USE ConnectionsAssumption, StreamAssumption DEF Ownership, TypeOK
<1>1. play[q].token # t
  BY DEF BeginPlay, TokenFree
<1>2. CASE bound[t] = s
  <2>1. session[s].key = t /\ t # None
    BY <1>2 DEF BoundIsKey
  <2>2. PlaySound(q)
    BY DEF PlaysSound
  <2>3. CASE play[q].new
    BY <1>1, <2>1, <2>2, <2>3 DEF PlaySound, NoRow
  <2>4. CASE ~ play[q].new
    BY <1>1, <2>1, <2>2, <2>4 DEF PlaySound, BoundIsKey
  <2> QED
    BY <2>3, <2>4
<1>3. CASE Fresh(s)
  BY <1>1, <1>3 DEF Fresh
<1> QED
  BY <1>2, <1>3 DEF BeginPlay, SessionFor

LEMMA TokensKeepTokenSide ==
    ASSUME Ownership, TokensNext, UNCHANGED linkVars
    PROVE  TokenSide'
<1> USE ConnectionsAssumption, StreamAssumption
    DEF Ownership, TypeOK, linkVars, connectionVars, TokenSide
<1>1. CASE \/ \E t \in Tokens : CreateToken(t)
           \/ \E t \in Tokens : TokenLapses(t)
  <2>1. UNCHANGED <<session, bound, play>>
    BY <1>1 DEF CreateToken, TokenLapses
  <2> QED
    BY <2>1 DEF PlaysSound, PlaySound, PlaysApart, BoundIsKey
<1>2. CASE \E p \in Players, t \in Tokens, s \in StreamSessions, c \in Clients,
             kind \in {"manifest", "media"} : BeginPlay(p, t, s, c, kind)
  <2> PICK p \in Players, t \in Tokens, s \in StreamSessions, c \in Clients,
           kind \in {"manifest", "media"} : BeginPlay(p, t, s, c, kind)
    BY <1>2
  <2> DEFINE asked == [kind |-> kind, token |-> t, client |-> c, session |-> s,
                       new |-> bound[t] = None]
  <2>1. /\ play' = [play EXCEPT ![p] = asked] /\ play[p] = NoPlay
        /\ UNCHANGED <<session, bound>>
    BY DEF BeginPlay
  <2>2. \/ bound[t] = None /\ session[s] = NoRow /\ \A q \in Players : play[q].session # s
        \/ bound[t] = s /\ bound[t] # None
    BY DEF BeginPlay, SessionFor, Fresh, Sessions
  <2>3. PlaysSound'
    <3> SUFFICES ASSUME NEW q \in Players PROVE PlaySound(q)'
      BY DEF PlaysSound
    <3>1. CASE q = p
      BY <2>1, <2>2, <3>1 DEF PlaySound
    <3>2. CASE q # p
      BY <2>1, <3>2 DEF PlaysSound, PlaySound
    <3> QED
      BY <3>1, <3>2
  <2>4. \A q \in Players : play[q] # NoPlay => play[q].token # t /\ play[q].session # s
    BY PlayIsAlone
  <2>5. PlaysApart'
    BY <2>1, <2>4 DEF PlaysApart
  <2>6. BoundIsKey'
    BY <2>1 DEF BoundIsKey
  <2> QED
    BY <2>3, <2>5, <2>6
<1>3. CASE \E p \in Players : CommitPlay(p)
  <2> PICK p \in Players : CommitPlay(p)
    BY <1>3
  <2> DEFINE s == play[p].session
             t == play[p].token
  <2>1. /\ play[p] # NoPlay /\ play' = [play EXCEPT ![p] = NoPlay]
        /\ \A q \in Players : play[q] # NoPlay /\ q # p
                                 => play[q].token # t /\ play[q].session # s
    BY DEF CommitPlay, PlaysApart
  <2>2. /\ s \in StreamSessions /\ t \in Tokens
        /\ play[p].new => bound[t] = None /\ session[s] = NoRow
    BY <2>1 DEF PlaysSound, PlaySound
  <2>3. \A x \in Sessions : session'[x].key = IF play[p].new /\ x = s THEN t ELSE session[x].key
    BY DEF CommitPlay
  <2>4. \A x \in Sessions : x # s => session'[x] = session[x]
    BY DEF CommitPlay
  <2>5. \A x \in Tokens : bound'[x] = IF play[p].new /\ x = t THEN s ELSE bound[x]
    BY DEF CommitPlay
  <2>6. PlaysSound'
    <3> SUFFICES ASSUME NEW q \in Players, q # p, play[q] # NoPlay PROVE PlaySound(q)'
      BY <2>1 DEF PlaysSound, PlaySound
    <3>1. PlaySound(q)
      BY DEF PlaysSound
    <3>2. play[q].token # t /\ play[q].session # s
      BY <2>1
    <3> QED
      BY <2>1, <2>4, <2>5, <3>1, <3>2 DEF PlaySound, Sessions
  <2>7. PlaysApart'
    BY <2>1 DEF PlaysApart
  <2>8. BoundIsKey'
    <3> SUFFICES ASSUME NEW x \in Tokens, NEW y \in StreamSessions
                 PROVE  session'[y].key = x <=> bound'[x] = y
      BY DEF BoundIsKey
    <3> y \in Sessions
      BY DEF Sessions
    <3>0. session[y].key = x <=> bound[x] = y
      BY DEF BoundIsKey
    <3>1. CASE play[p].new
      <4>1. session[y].key # t
        BY <2>2, <3>1 DEF BoundIsKey, Sessions
      <4>2. bound[x] # s
        BY <2>2, <3>1 DEF BoundIsKey, NoRow, Sessions
      <4> QED
        BY <2>3, <2>5, <3>0, <3>1, <4>1, <4>2
    <3>2. CASE ~ play[p].new
      BY <2>3, <2>5, <3>0, <3>2
    <3> QED
      BY <3>1, <3>2
  <2> QED
    BY <2>6, <2>7, <2>8
<1>4. CASE \E p \in Players : RollbackPlay(p)
  BY <1>4 DEF RollbackPlay, PlaysSound, PlaySound, PlaysApart, BoundIsKey
<1> QED
  BY <1>1, <1>2, <1>3, <1>4 DEF TokensNext

LEMMA TokensKeepOwnership ==
    ASSUME Ownership, TokensNext, UNCHANGED linkVars
    PROVE  Ownership'
<1>1. \A s \in DownloadSessions : session'[s] = session[s]
  <2>1. UNCHANGED session \/ \E p \in Players : CommitPlay(p)
    BY DEF TokensNext, CreateToken, TokenLapses, BeginPlay, RollbackPlay, connectionVars
  <2>2. ASSUME NEW p \in Players, CommitPlay(p)
        PROVE  \A s \in DownloadSessions : session'[s] = session[s]
    <3>1. play[p].session \in StreamSessions
      BY <2>2 DEF CommitPlay, Ownership, PlaysSound, PlaySound
    <3> QED
      BY <2>2, <3>1, ConnectionsAssumption DEF CommitPlay, Ownership, TypeOK, Sessions
  <2> QED
    BY <2>1, <2>2
<1>2. LinkSide'
  BY <1>1 DEF Ownership, LinkSide, linkVars, TxnsSound, TxnSound, RowsHeldOnce, OnRows, SameFile,
         UserHeldOnce, OneTimeSound, Ranges, Resumes
<1> QED
  BY <1>2, TokensKeepType, TokensKeepTokenSide DEF Ownership, LinkSide, TokenSide

LEMMA StutterKeepsOwnership ==
    ASSUME Ownership, UNCHANGED vars
    PROVE  Ownership'
BY DEF vars, connectionVars, traffic, collector, linkVars, tokenVars, Ownership, TypeOK, TxnsSound,
       TxnSound, RowsHeldOnce, OnRows, SameFile, UserHeldOnce, OneTimeSound, Ranges, Resumes,
       PlaysSound, PlaySound, PlaysApart, BoundIsKey

THEOREM OwnershipHolds == Spec => []Ownership
<1>1. Ownership /\ [Next]_vars => Ownership'
  BY ConnectionsKeepOwnership, LinksKeepOwnership, TokensKeepOwnership, StutterKeepsOwnership
  DEF Next
<1> QED
  BY <1>1, InitOwnership, PTL DEF Spec

(* Every variable has its type: in particular no session counts more ranges *)
(* or resumptions than the link's policy allows, however requests overlap,  *)
(* because a request holds its rows from the comparison to the commit.      *)
THEOREM TypeCorrect == Spec => []TypeOK
<1>1. Ownership => TypeOK
  BY DEF Ownership
<1> QED
  BY <1>1, OwnershipHolds, PTL

(* A one-time link opens one session.                                       *)
THEOREM OneTimeOpensOnceHolds == Spec => []OneTimeOpensOnce
<1>1. Ownership => OneTimeOpensOnce
  <2> SUFFICES ASSUME Ownership, NEW l \in OneTime PROVE Cardinality(SessionsOf(l)) <= 1
    BY DEF OneTimeOpensOnce
  <2>1. CASE SessionsOf(l) = {}
    BY <2>1, FS_EmptySet
  <2>2. CASE SessionsOf(l) # {}
    <3>1. PICK s \in DownloadSessions : SessionsOf(l) = {s}
      BY <2>2 DEF Ownership, OneTimeSound, SessionsOf
    <3>2. Cardinality({s}) = 1
      BY FS_Singleton
    <3> QED
      BY <3>1, <3>2
  <2> QED
    BY <2>1, <2>2
<1> QED
  BY <1>1, OwnershipHolds, PTL

(* A token has one session.                                                 *)
THEOREM OneSessionPerTokenHolds == Spec => []OneSessionPerToken
<1>1. Ownership => OneSessionPerToken
  BY DEF Ownership, BoundIsKey, OneSessionPerToken
<1> QED
  BY <1>1, OwnershipHolds, PTL

----------------------------------------------------------------------------
(* The limits on sessions per file and on links.  A transaction that has    *)
(* compared with a limit holds its place until it ends, as it has locked    *)
(* the row that all others wait for.                                        *)

SessionsOn(f) == {s \in ActiveSessions : FileOf[session[s].key] = f}

Opening(f) == \E r \in Requests : txn[r].kind = "open" /\ FileOf[txn[r].link] = f
Creating == \E r \in Requests : txn[r].kind = "create"

SessionsFit(f) ==
    /\ Cardinality(SessionsOn(f)) <= SessionLimit
    /\ Opening(f) => Cardinality(SessionsOn(f)) < SessionLimit

LinksFit ==
    /\ Cardinality(UsableLinks) <= LinkLimit
    /\ Creating => Cardinality(UsableLinks) < LinkLimit

Limits == LinksFit /\ \A f \in Files : SessionsFit(f)

LEMMA SmallerFits ==
    ASSUME NEW B, IsFiniteSet(B), NEW A \in SUBSET B
    PROVE  /\ IsFiniteSet(A) /\ Cardinality(A) \in Nat /\ Cardinality(B) \in Nat
           /\ Cardinality(A) <= Cardinality(B)
BY FS_Subset, FS_CardinalityType

LEMMA OneMoreFits ==
    ASSUME NEW B, IsFiniteSet(B), NEW x, NEW A \in SUBSET (B \union {x})
    PROVE  /\ Cardinality(A) \in Nat /\ Cardinality(B) \in Nat
           /\ Cardinality(A) <= Cardinality(B) + 1
<1>1. /\ IsFiniteSet(B \union {x})
      /\ Cardinality(B \union {x}) = IF x \in B THEN Cardinality(B) ELSE Cardinality(B) + 1
  BY FS_AddElement
<1>2. Cardinality(B) \in Nat
  BY FS_CardinalityType
<1>3. Cardinality(A) \in Nat /\ Cardinality(A) <= Cardinality(B \union {x})
  BY <1>1, SmallerFits
<1> QED
  BY <1>1, <1>2, <1>3

LEMMA CountedSetsFinite ==
    /\ IsFiniteSet(ActiveSessions) /\ IsFiniteSet(UsableLinks)
    /\ \A f \in Files : IsFiniteSet(SessionsOn(f))
<1>1. IsFiniteSet(ActiveSessions) /\ IsFiniteSet(UsableLinks)
  BY DownloadAssumption, FS_Subset DEF ActiveSessions, UsableLinks
<1>2. ASSUME NEW f \in Files PROVE IsFiniteSet(SessionsOn(f))
  BY <1>1, FS_Subset DEF SessionsOn
<1> QED
  BY <1>1, <1>2

(* What cannot break a limit: nothing counted is added, nobody starts.      *)
NoMoreSessions ==
    \A s \in DownloadSessions : Live(s)' => Live(s) /\ session'[s].key = session[s].key
NoMoreLinks ==
    \A l \in Links : link'[l] = "active" /\ l \notin overdue'
                        => link[l] = "active" /\ l \notin overdue
NobodyStarts ==
    \A q \in Requests : txn'[q].kind \in {"open", "create"} => txn'[q] = txn[q]

LEMMA SessionsKeepFitting ==
    ASSUME NEW f \in Files, SessionsFit(f), NoMoreSessions, Opening(f)' => Opening(f)
    PROVE  SessionsFit(f)'
<1>1. SessionsOn(f)' \subseteq SessionsOn(f)
  BY DEF NoMoreSessions, SessionsOn, ActiveSessions
<1>2. /\ Cardinality(SessionsOn(f)') \in Nat /\ Cardinality(SessionsOn(f)) \in Nat
      /\ Cardinality(SessionsOn(f)') <= Cardinality(SessionsOn(f))
  BY <1>1, CountedSetsFinite, SmallerFits
<1> QED
  BY <1>2, DownloadAssumption DEF SessionsFit

LEMMA LinksKeepFitting ==
    ASSUME LinksFit, NoMoreLinks, Creating' => Creating
    PROVE  LinksFit'
<1>1. UsableLinks' \subseteq UsableLinks
  BY DEF NoMoreLinks, UsableLinks
<1>2. /\ Cardinality(UsableLinks') \in Nat /\ Cardinality(UsableLinks) \in Nat
      /\ Cardinality(UsableLinks') <= Cardinality(UsableLinks)
  BY <1>1, CountedSetsFinite, SmallerFits
<1> QED
  BY <1>2, DownloadAssumption DEF LinksFit

LEMMA OthersAddNothing ==
    ASSUME Ownership, [Next]_vars,
           ~ \E r \in Requests, l \in Links : BeginCreate(r, l),
           ~ \E r \in Requests : CommitCreate(r),
           ~ \E r \in Requests, l \in Links, c \in Clients : BeginOpen(r, l, c),
           ~ \E r \in Requests, s \in DownloadSessions : CommitOpen(r, s)
    PROVE  NoMoreSessions /\ NoMoreLinks /\ NobodyStarts
<1> USE ConnectionsAssumption DEF Live, Sessions
<1>1. CASE UNCHANGED <<session, lapsed, linkVars>>
  BY <1>1 DEF NoMoreSessions, NoMoreLinks, NobodyStarts, linkVars
<1>2. CASE ConnectionsNext /\ UNCHANGED <<linkVars, tokenVars>>
  <2>1. CASE Record
    BY <1>2, <2>1 DEF Record, Ownership, TypeOK, Row, linkVars, NoMoreSessions, NoMoreLinks,
                      NobodyStarts
  <2>2. CASE ~ Record
    <3>1. UNCHANGED <<session, lapsed, linkVars>>
      BY <1>2, <2>2 DEF ConnectionsNext, CounterExpires, Finish, Vanish, Collect, Read, RecordFails,
                        ReleaseOne, SaveCursor, CycleFails, CursorLost
    <3> QED
      BY <1>1, <3>1
  <2> QED
    BY <2>1, <2>2
<1>3. CASE LinksNext /\ UNCHANGED tokenVars
  <2>1. CASE \E r \in Requests, s \in DownloadSessions, c \in Clients, demand \in Demands :
               BeginFetch(r, s, c, demand)
    BY <2>1 DEF BeginFetch, Begin, Ownership, TypeOK, NoMoreSessions, NoMoreLinks, NobodyStarts
  <2>2. CASE \E r \in Requests : CommitFetch(r)
    BY <2>2 DEF CommitFetch, Ends, NoTxn, Ownership, TypeOK, NoMoreSessions, NoMoreLinks,
                NobodyStarts
  <2>3. CASE \E r \in Requests : Rollback(r)
    BY <2>3 DEF Rollback, connectionVars, NoTxn, Ownership, TypeOK, NoMoreSessions, NoMoreLinks,
                NobodyStarts
  <2>4. CASE \/ \E l \in Links : LinkLapses(l)
             \/ \E s \in DownloadSessions : SessionLapses(s)
    BY <2>4 DEF LinkLapses, SessionLapses, linkVars, NoMoreSessions, NoMoreLinks, NobodyStarts
  <2> QED
    BY <1>3, <2>1, <2>2, <2>3, <2>4 DEF LinksNext
<1>4. CASE TokensNext /\ UNCHANGED linkVars
  <2>1. CASE \E p \in Players : CommitPlay(p)
    <3> PICK p \in Players : CommitPlay(p)
      BY <2>1
    <3>1. play[p].session \in StreamSessions
      BY DEF CommitPlay, Ownership, PlaysSound, PlaySound
    <3>2. \A s \in DownloadSessions : session'[s] = session[s]
      BY <3>1 DEF CommitPlay, Ownership, TypeOK
    <3>3. lapsed \subseteq lapsed'
      BY DEF CommitPlay
    <3> QED
      BY <1>4, <3>2, <3>3 DEF linkVars, NoMoreSessions, NoMoreLinks, NobodyStarts
  <2>2. CASE \E t \in Tokens : TokenLapses(t)
    BY <1>4, <2>2 DEF TokenLapses, linkVars, NoMoreSessions, NoMoreLinks, NobodyStarts
  <2>3. CASE /\ ~ \E p \in Players : CommitPlay(p)
             /\ ~ \E t \in Tokens : TokenLapses(t)
    <3>1. UNCHANGED <<session, lapsed, linkVars>>
      BY <1>4, <2>3 DEF TokensNext, CreateToken, BeginPlay, RollbackPlay, connectionVars
    <3> QED
      BY <1>1, <3>1
  <2> QED
    BY <2>1, <2>2, <2>3
<1>5. CASE UNCHANGED vars
  BY <1>1, <1>5 DEF vars, connectionVars
<1> QED
  BY <1>2, <1>3, <1>4, <1>5 DEF Next

LEMMA StepKeepsLimits == Ownership /\ Limits /\ [Next]_vars => Limits'
<1> SUFFICES ASSUME Ownership, Limits, [Next]_vars
             PROVE  LinksFit' /\ \A f \in Files : SessionsFit(f)'
  BY DEF Limits
<1>0. LinksFit /\ \A f \in Files : SessionsFit(f)
  BY DEF Limits
<1> USE DownloadAssumption DEF Ownership, TypeOK
<1>1. CASE \E r \in Requests, l \in Links : BeginCreate(r, l)
  <2> PICK r \in Requests, l \in Links : BeginCreate(r, l)
    BY <1>1
  <2>1. NoMoreSessions /\ \A f \in Files : Opening(f)' => Opening(f)
    BY DEF BeginCreate, Begin, connectionVars, NoMoreSessions, Live, Opening
  <2>2. UsableLinks' = UsableLinks /\ Cardinality(UsableLinks) < LinkLimit
    BY DEF BeginCreate, UsableLinks
  <2>3. LinksFit'
    BY <1>0, <2>2 DEF LinksFit
  <2> QED
    BY <1>0, <2>1, <2>3, SessionsKeepFitting
<1>2. CASE \E r \in Requests : CommitCreate(r)
  <2> PICK r \in Requests : CommitCreate(r)
    BY <1>2
  <2>1. NoMoreSessions /\ \A f \in Files : Opening(f)' => Opening(f)
    BY DEF CommitCreate, Ends, NoTxn, connectionVars, NoMoreSessions, Live, Opening
  <2>2. UsableLinks' \subseteq UsableLinks \union {txn[r].link}
    BY DEF CommitCreate, UsableLinks
  <2>3. Creating /\ ~ Creating'
    BY DEF CommitCreate, Ends, NoTxn, Creating, UserHeldOnce
  <2>4. /\ Cardinality(UsableLinks') \in Nat /\ Cardinality(UsableLinks) \in Nat
        /\ Cardinality(UsableLinks') <= Cardinality(UsableLinks) + 1
    BY <2>2, CountedSetsFinite, OneMoreFits
  <2>5. LinksFit'
    BY <1>0, <2>3, <2>4 DEF LinksFit
  <2> QED
    BY <1>0, <2>1, <2>5, SessionsKeepFitting
<1>3. CASE \E r \in Requests, l \in Links, c \in Clients : BeginOpen(r, l, c)
  <2> PICK r \in Requests, l \in Links, c \in Clients : BeginOpen(r, l, c)
    BY <1>3
  <2>1. NoMoreLinks /\ (Creating' => Creating)
    BY DEF BeginOpen, Begin, NoMoreLinks, Creating
  <2>2. ASSUME NEW f \in Files PROVE SessionsFit(f)'
    <3>1. SessionsOn(f)' = SessionsOn(f)
      BY DEF BeginOpen, connectionVars, SessionsOn, ActiveSessions, Live
    <3>2. Opening(f)' => Opening(f) \/ Cardinality(ActiveSessions) < SessionLimit
      BY DEF BeginOpen, Begin, Opening
    <3>3. Cardinality(SessionsOn(f)) \in Nat /\ Cardinality(ActiveSessions) \in Nat
          /\ Cardinality(SessionsOn(f)) <= Cardinality(ActiveSessions)
      BY CountedSetsFinite, SmallerFits DEF SessionsOn
    <3> QED
      BY <1>0, <3>1, <3>2, <3>3 DEF SessionsFit
  <2> QED
    BY <1>0, <2>1, <2>2, LinksKeepFitting
<1>4. CASE \E r \in Requests, s \in DownloadSessions : CommitOpen(r, s)
  <2> PICK r \in Requests, s \in DownloadSessions : CommitOpen(r, s)
    BY <1>4
  <2>1. NoMoreLinks /\ (Creating' => Creating)
    BY DEF CommitOpen, Ends, NoTxn, Used, NoMoreLinks, Creating
  <2>2. txn[r].kind = "open" /\ txn[r].link \in Links
    BY DEF CommitOpen, Ends, TxnsSound, TxnSound
  <2>3. \A t \in DownloadSessions : t # s /\ Live(t)' => Live(t) /\ session'[t] = session[t]
    BY DEF CommitOpen, Live
  <2>4. session'[s].key = txn[r].link
    BY DEF CommitOpen, Sessions
  <2>5. ASSUME NEW f \in Files, FileOf[txn[r].link] = f PROVE SessionsFit(f)'
    <3>1. SessionsOn(f)' \subseteq SessionsOn(f) \union {s}
      BY <2>3 DEF SessionsOn, ActiveSessions
    <3>2. ~ Opening(f)' /\ Opening(f)
      BY <2>2, <2>5 DEF CommitOpen, Ends, NoTxn, Opening, RowsHeldOnce, OnRows, SameFile
    <3>3. Cardinality(SessionsOn(f)') \in Nat /\ Cardinality(SessionsOn(f)) \in Nat
          /\ Cardinality(SessionsOn(f)') <= Cardinality(SessionsOn(f)) + 1
      BY <3>1, CountedSetsFinite, OneMoreFits
    <3> QED
      BY <1>0, <3>2, <3>3 DEF SessionsFit
  <2>6. ASSUME NEW f \in Files, FileOf[txn[r].link] # f PROVE SessionsFit(f)'
    <3>1. SessionsOn(f)' \subseteq SessionsOn(f)
      BY <2>3, <2>4, <2>6 DEF SessionsOn, ActiveSessions
    <3>2. Opening(f)' => Opening(f)
      BY DEF CommitOpen, Ends, NoTxn, Opening
    <3>3. Cardinality(SessionsOn(f)') \in Nat /\ Cardinality(SessionsOn(f)) \in Nat
          /\ Cardinality(SessionsOn(f)') <= Cardinality(SessionsOn(f))
      BY <3>1, CountedSetsFinite, SmallerFits
    <3> QED
      BY <1>0, <3>2, <3>3 DEF SessionsFit
  <2> QED
    BY <1>0, <2>1, <2>5, <2>6, LinksKeepFitting
<1>5. CASE /\ ~ \E r \in Requests, l \in Links : BeginCreate(r, l)
           /\ ~ \E r \in Requests : CommitCreate(r)
           /\ ~ \E r \in Requests, l \in Links, c \in Clients : BeginOpen(r, l, c)
           /\ ~ \E r \in Requests, s \in DownloadSessions : CommitOpen(r, s)
  <2>1. NoMoreSessions /\ NoMoreLinks /\ NobodyStarts
    BY <1>5, OthersAddNothing
  <2>2. (Creating' => Creating) /\ \A f \in Files : Opening(f)' => Opening(f)
    BY <2>1 DEF NobodyStarts, Opening, Creating
  <2> QED
    BY <1>0, <2>1, <2>2, SessionsKeepFitting, LinksKeepFitting
<1> QED
  BY <1>1, <1>2, <1>3, <1>4, <1>5

THEOREM LimitsHold == Spec => []Limits
<1>1. Init => Limits
  <2> SUFFICES ASSUME Init PROVE LinksFit /\ \A f \in Files : SessionsFit(f)
    BY DEF Limits
  <2>1. UsableLinks = {} /\ ~ Creating
    BY DEF Init, LinksInit, UsableLinks, Creating, NoTxn
  <2>2. \A f \in Files : SessionsOn(f) = {} /\ ~ Opening(f)
    BY DEF Init, ConnectionsInit, LinksInit, SessionsOn, ActiveSessions, Live, Opening, NoRow,
           NoTxn, Sessions
  <2> QED
    BY <2>1, <2>2, FS_EmptySet, DownloadAssumption DEF SessionsFit, LinksFit
<1> QED
  BY <1>1, StepKeepsLimits, OwnershipHolds, PTL DEF Spec

(* The limit on sessions is exact among the links of one file.              *)
THEOREM LimitPerFileHolds == Spec => []LimitPerFile
<1>1. Limits => LimitPerFile
  BY DEF Limits, SessionsFit, SessionsOn, LimitPerFile
<1> QED
  BY <1>1, LimitsHold, PTL

(* The limit on links is exact over all files.                              *)
THEOREM LinksWithinLimitHolds == Spec => []LinksWithinLimit
<1>1. Limits => LinksWithinLimit
  BY DEF Limits, LinksFit, LinksWithinLimit
<1> QED
  BY <1>1, LimitsHold, PTL

----------------------------------------------------------------------------
(* The counters cover the connections.  Between the increment in Redis and  *)
(* the commit of the row a request has a place in Redis that the row does   *)
(* not count yet; the locks leave room for one such request per session.    *)

Pending(s) ==
    \/ \E r \in Requests : txn[r].kind = "fetch" /\ txn[r].session = s
    \/ \E p \in Players : play[p].kind = "media" /\ play[p].session = s

Place(s) == IF Pending(s) THEN 1 ELSE 0
Uncharged(s) == Cardinality(LinesOf(s, Unrecorded))
Unreleased(s) == Cardinality(LinesOf(s, releasing))

(* The session has not ended; it may not have begun.                        *)
Usable(s) == session[s].state # "completed" /\ s \notin lapsed

Cover(s) ==
    /\ active[s] >= Open(s) + Uncharged(s)
    /\ Usable(s) => counter[s] + Forgotten(s) >= active[s] + Unreleased(s) + Place(s)
    /\ counter[s] <= Limit(s)

Covered == \A s \in Sessions : Cover(s)

LEMMA CoverNumbers ==
    ASSUME Ownership, NEW s \in Sessions
    PROVE  /\ active[s] \in Nat /\ counter[s] \in Nat /\ Limit(s) \in Nat /\ Open(s) \in Nat
           /\ Uncharged(s) \in Nat /\ Unreleased(s) \in Nat /\ Forgotten(s) \in Nat
           /\ IsFiniteSet(LinesOf(s, Unrecorded)) /\ IsFiniteSet(LinesOf(s, releasing))
<1>1. active[s] \in Nat /\ counter[s] \in Nat /\ Limit(s) \in Nat
  BY ConnectionsAssumption DEF Ownership, TypeOK, Limit
<1>2. Open(s) \in Nat
  <2>1. inflight[<<s, TRUE>>] \in Nat /\ inflight[<<s, FALSE>>] \in Nat
    BY DEF Ownership, TypeOK
  <2> QED
    BY <2>1 DEF Open
<1>3. Len(log) \in Nat /\ Unrecorded \in SUBSET (1..Len(log)) /\ releasing \in SUBSET (1..Len(log))
  BY DEF Ownership, TypeOK, Unrecorded
<1> QED
  BY <1>1, <1>2, <1>3, LinesCounted DEF Uncharged, Unreleased, Forgotten

(* A session that can still be used could be used before.                   *)
LEMMA SessionsOnlyEnd ==
    ASSUME Ownership, [Next]_vars, NEW s \in Sessions, Usable(s)'
    PROVE  Usable(s)
<1> USE DEF Usable
<1>1. CASE UNCHANGED <<session, lapsed>>
  BY <1>1
<1>2. CASE ConnectionsNext
  <2>1. CASE Record
    BY <2>1 DEF Record, Ownership, TypeOK, Row
  <2>2. CASE ~ Record
    BY <1>1, <1>2, <2>2 DEF ConnectionsNext, CounterExpires, Finish, Vanish, Collect, Read,
                            RecordFails, ReleaseOne, SaveCursor, CycleFails, CursorLost
  <2> QED
    BY <2>1, <2>2
<1>3. CASE LinksNext
  <2>1. CASE \E r \in Requests, t \in DownloadSessions : CommitOpen(r, t)
    BY <2>1 DEF CommitOpen, NoRow, Ownership, TypeOK
  <2>2. CASE \/ \E l \in Links : LinkLapses(l)
             \/ \E t \in DownloadSessions : SessionLapses(t)
    BY <2>2 DEF LinkLapses, SessionLapses
  <2> QED
    BY <1>1, <1>3, <2>1, <2>2 DEF LinksNext, BeginCreate, CommitCreate, BeginOpen, BeginFetch,
                                  CommitFetch, Rollback, connectionVars
<1>4. CASE TokensNext
  <2>1. CASE \E p \in Players : CommitPlay(p)
    BY <2>1 DEF CommitPlay, NoRow, Ownership, TypeOK, PlaysSound, PlaySound
  <2>2. CASE \E t \in Tokens : TokenLapses(t)
    BY <2>2 DEF TokenLapses
  <2> QED
    BY <1>1, <1>4, <2>1, <2>2 DEF TokensNext, CreateToken, BeginPlay, RollbackPlay, connectionVars
<1> QED
  BY <1>1, <1>2, <1>3, <1>4 DEF Next, vars, connectionVars

LEMMA QuietStepsKeepCover ==
    ASSUME Ownership, Covered, [Next]_vars, NEW s \in Sessions,
           UNCHANGED <<counter, restarted, active, traffic, recorded>>,
           releasing' \subseteq releasing, Pending(s)' => Pending(s)
    PROVE  Cover(s)'
<1>1. Open(s)' = Open(s) /\ Uncharged(s)' = Uncharged(s)
  BY DEF traffic, Open, Uncharged, Unrecorded, LinesOf
<1>2. Unreleased(s)' \in Nat /\ Unreleased(s)' <= Unreleased(s)
  <2>1. LinesOf(s, releasing)' \subseteq LinesOf(s, releasing)
    BY DEF LinesOf, traffic
  <2> QED
    BY <2>1, CoverNumbers, SmallerFits DEF Unreleased
<1>3. Place(s)' <= Place(s) /\ Place(s) \in Nat /\ Place(s)' \in Nat
  BY DEF Place
<1>4. Usable(s)' => Usable(s)
  BY SessionsOnlyEnd
<1>5. Cover(s)
  BY DEF Covered
<1>6. Limit(s)' = Limit(s) /\ Forgotten(s)' = Forgotten(s)
  BY DEF Limit, Forgotten
<1> QED
  BY <1>1, <1>2, <1>3, <1>4, <1>5, <1>6, CoverNumbers DEF Cover

LEMMA OneResponseLess ==
    ASSUME Ownership, NEW s \in Sessions, NEW ranged \in BOOLEAN
    PROVE  inflight' = [inflight EXCEPT ![<<s, ranged>>] = @ - 1] => Open(s)' = Open(s) - 1
<1>1. /\ inflight[<<s, TRUE>>] \in Nat /\ inflight[<<s, FALSE>>] \in Nat
      /\ <<s, TRUE>> \in DOMAIN inflight /\ <<s, FALSE>> \in DOMAIN inflight
  BY DEF Ownership, TypeOK
<1>2. ASSUME inflight' = [inflight EXCEPT ![<<s, ranged>>] = @ - 1]
      PROVE  \/ /\ inflight'[<<s, TRUE>>] = inflight[<<s, TRUE>>] - 1
                /\ inflight'[<<s, FALSE>>] = inflight[<<s, FALSE>>]
             \/ /\ inflight'[<<s, TRUE>>] = inflight[<<s, TRUE>>]
                /\ inflight'[<<s, FALSE>>] = inflight[<<s, FALSE>>] - 1
  <2>1. CASE ranged = TRUE
    BY <1>1, <1>2, <2>1
  <2>2. CASE ranged = FALSE
    BY <1>1, <1>2, <2>2
  <2> QED
    BY <2>1, <2>2
<1>3. ASSUME \/ /\ inflight'[<<s, TRUE>>] = inflight[<<s, TRUE>>] - 1
                /\ inflight'[<<s, FALSE>>] = inflight[<<s, FALSE>>]
             \/ /\ inflight'[<<s, TRUE>>] = inflight[<<s, TRUE>>]
                /\ inflight'[<<s, FALSE>>] = inflight[<<s, FALSE>>] - 1
      PROVE  Open(s)' = Open(s) - 1
  BY <1>1, <1>3 DEF Open
<1> QED
  BY <1>2, <1>3

LEMMA OneResponseMore ==
    ASSUME Ownership, NEW s \in Sessions, NEW ranged \in BOOLEAN, NEW n \in {0, 1}
    PROVE  inflight' = [inflight EXCEPT ![<<s, ranged>>] = @ + n] => Open(s)' = Open(s) + n
<1>1. /\ inflight[<<s, TRUE>>] \in Nat /\ inflight[<<s, FALSE>>] \in Nat
      /\ <<s, TRUE>> \in DOMAIN inflight /\ <<s, FALSE>> \in DOMAIN inflight
  BY DEF Ownership, TypeOK
<1>2. ASSUME inflight' = [inflight EXCEPT ![<<s, ranged>>] = @ + n]
      PROVE  \/ /\ inflight'[<<s, TRUE>>] = inflight[<<s, TRUE>>] + n
                /\ inflight'[<<s, FALSE>>] = inflight[<<s, FALSE>>]
             \/ /\ inflight'[<<s, TRUE>>] = inflight[<<s, TRUE>>]
                /\ inflight'[<<s, FALSE>>] = inflight[<<s, FALSE>>] + n
  <2>1. CASE ranged = TRUE
    BY <1>1, <1>2, <2>1
  <2>2. CASE ranged = FALSE
    BY <1>1, <1>2, <2>2
  <2> QED
    BY <2>1, <2>2
<1>3. ASSUME \/ /\ inflight'[<<s, TRUE>>] = inflight[<<s, TRUE>>] + n
                /\ inflight'[<<s, FALSE>>] = inflight[<<s, FALSE>>]
             \/ /\ inflight'[<<s, TRUE>>] = inflight[<<s, TRUE>>]
                /\ inflight'[<<s, FALSE>>] = inflight[<<s, FALSE>>] + n
      PROVE  Open(s)' = Open(s) + n
  BY <1>1, <1>3 DEF Open
<1> QED
  BY <1>2, <1>3

LEMMA ConnectionsKeepCover ==
    ASSUME Ownership, Covered, ConnectionsNext, UNCHANGED <<linkVars, tokenVars>>,
           NEW s \in Sessions
    PROVE  Cover(s)'
<1>1. [Next]_vars
  BY DEF Next
<1>2. Usable(s)' => Usable(s)
  BY <1>1, SessionsOnlyEnd
<1>3. Cover(s)
  BY DEF Covered
<1>4. Pending(s)' = Pending(s) /\ Place(s)' = Place(s) /\ Place(s) \in Nat
  BY DEF linkVars, tokenVars, Pending, Place
<1>5. Limit(s)' = Limit(s)
  BY DEF Limit
<1>6. CASE \E t \in Sessions : CounterExpires(t)
  <2> PICK t \in Sessions : CounterExpires(t)
    BY <1>6
  <2>1. /\ counter'[s] = IF s = t THEN 0 ELSE counter[s]
        /\ UNCHANGED <<session, lapsed, active, traffic, recorded, releasing>>
    BY DEF CounterExpires, collector, Ownership, TypeOK
  <2>2. Open(s)' = Open(s) /\ Uncharged(s)' = Uncharged(s) /\ Unreleased(s)' = Unreleased(s)
    BY <2>1 DEF traffic, Open, Uncharged, Unreleased, Unrecorded, LinesOf
  <2>3. CASE s = t /\ s \in lapsed
    <3>1. ~ Usable(s)'
      BY <2>1, <2>3 DEF Usable
    <3> QED
      BY <1>3, <1>5, <2>1, <2>2, <3>1, CoverNumbers DEF Cover
  <2>4. CASE s = t /\ s \notin lapsed
    <3>1. Forgotten(s) = 0 /\ Forgotten(s)' = Limit(s)
      BY <1>5, <2>4 DEF CounterExpires, Forgotten
    <3>2. Usable(s)' => active[s] + Unreleased(s) + Place(s) <= Limit(s)
      BY <1>2, <1>3, <1>4, <3>1, CoverNumbers DEF Cover
    <3> QED
      BY <1>3, <1>4, <1>5, <2>1, <2>2, <3>1, <3>2, CoverNumbers DEF Cover
  <2>5. CASE s # t
    <3>1. Forgotten(s)' = Forgotten(s)
      BY <1>5, <2>5 DEF CounterExpires, Forgotten
    <3> QED
      BY <1>2, <1>3, <1>4, <1>5, <2>1, <2>2, <2>5, <3>1, CoverNumbers DEF Cover
  <2> QED
    BY <2>3, <2>4, <2>5
<1>7. CASE \E t \in Sessions, ranged \in BOOLEAN, content \in {"whole", "part", "unstorable"} :
             Finish(t, ranged, content)
  <2> PICK t \in Sessions, ranged \in BOOLEAN, content \in {"whole", "part", "unstorable"} :
           Finish(t, ranged, content)
    BY <1>7
  <2>0. Forgotten(s)' = Forgotten(s)
    BY <1>5 DEF Finish, Forgotten
  <2> DEFINE n == Len(log) + 1
  <2>1. /\ inflight[<<t, ranged>>] > 0
        /\ inflight' = [inflight EXCEPT ![<<t, ranged>>] = @ - 1]
        /\ log' = Append(log, [session |-> t, content |-> content])
        /\ UNCHANGED <<session, lapsed, counter, active, recorded, releasing>>
    BY DEF Finish, collector
  <2>2. /\ Len(log) \in Nat /\ DOMAIN log = 1..Len(log) /\ DOMAIN log' = 1..n
        /\ \A i \in 1..Len(log) : log'[i] = log[i]
        /\ log'[n].session = t
    <3>1. log \in Seq(Line) /\ [session |-> t, content |-> content] \in Line
      BY DEF Ownership, TypeOK, Line
    <3> QED
      BY <2>1, <3>1
  <2>3. /\ recorded \subseteq 1..Len(log) /\ releasing \subseteq 1..Len(log)
    BY DEF Ownership, TypeOK
  <2>4. Unreleased(s)' = Unreleased(s)
    <3>1. LinesOf(s, releasing)' = LinesOf(s, releasing)
      BY <2>1, <2>2, <2>3 DEF LinesOf
    <3> QED
      BY <3>1 DEF Unreleased
  <2>5. CASE s = t
    <3>1. LinesOf(s, Unrecorded)' \subseteq LinesOf(s, Unrecorded) \union {n}
      BY <2>1, <2>2, <2>3 DEF LinesOf, Unrecorded
    <3>2. Uncharged(s)' \in Nat /\ Uncharged(s)' <= Uncharged(s) + 1
      BY <3>1, CoverNumbers, OneMoreFits DEF Uncharged
    <3>3. Open(s)' = Open(s) - 1
      BY <2>1, <2>5, OneResponseLess
    <3>4. counter'[s] = counter[s] /\ active'[s] = active[s]
      BY <2>1
    <3> QED
      BY <1>2, <1>3, <1>4, <1>5, <2>0, <2>4, <3>2, <3>3, <3>4, CoverNumbers DEF Cover
  <2>6. CASE s # t
    <3>1. LinesOf(s, Unrecorded)' = LinesOf(s, Unrecorded)
      BY <2>1, <2>2, <2>3, <2>6 DEF LinesOf, Unrecorded
    <3>2. Open(s)' = Open(s)
      BY <2>1, <2>6 DEF Open
    <3> QED
      BY <1>2, <1>3, <1>4, <1>5, <2>0, <2>1, <2>4, <3>1, <3>2, CoverNumbers
      DEF Cover, Uncharged
  <2> QED
    BY <2>5, <2>6
<1>8. CASE \E t \in Sessions, ranged \in BOOLEAN : Vanish(t, ranged)
  <2> PICK t \in Sessions, ranged \in BOOLEAN : Vanish(t, ranged)
    BY <1>8
  <2>1. /\ inflight[<<t, ranged>>] > 0
        /\ inflight' = [inflight EXCEPT ![<<t, ranged>>] = @ - 1]
        /\ UNCHANGED <<session, lapsed, counter, restarted, active, log, recorded, releasing>>
    BY DEF Vanish, collector
  <2>2. /\ Uncharged(s)' = Uncharged(s) /\ Unreleased(s)' = Unreleased(s)
        /\ Forgotten(s)' = Forgotten(s)
    BY <1>5, <2>1 DEF Uncharged, Unreleased, Unrecorded, LinesOf, Forgotten
  <2>3. Open(s)' \in Int /\ Open(s)' <= Open(s)
    <3>1. Open(s)' = Open(s) - 1 \/ Open(s)' = Open(s)
      <4>1. CASE s = t
        BY <2>1, <4>1, OneResponseLess
      <4>2. CASE s # t
        BY <2>1, <4>2 DEF Open
      <4> QED
        BY <4>1, <4>2
    <3> QED
      BY <3>1, CoverNumbers
  <2> QED
    BY <1>2, <1>3, <1>4, <1>5, <2>1, <2>2, <2>3, CoverNumbers DEF Cover
<1>9. CASE Record
  <2>1. /\ recorded' = recorded \union NewLines /\ releasing' = NewLines
        /\ active'[s] = Less(active[s], Cardinality(LinesOf(s, NewLines)))
        /\ UNCHANGED <<counter, restarted, inflight, log>>
    BY <1>9 DEF Record, traffic
  <2> DEFINE new == LinesOf(s, NewLines)
             old == LinesOf(s, Unrecorded)
  <2>2. new \subseteq old
    <3>1. Len(log) \in Nat /\ DOMAIN log = 1..Len(log) /\ cursor \in 0..Len(log)
          /\ batch \in 0..Len(log)
      BY DEF Ownership, TypeOK
    <3> QED
      BY <3>1 DEF LinesOf, NewLines, Unrecorded
  <2>3. LinesOf(s, Unrecorded)' = old \ new
    BY <2>1 DEF LinesOf, Unrecorded
  <2>4. /\ Cardinality(new) \in Nat /\ Cardinality(new) <= Cardinality(old)
        /\ Cardinality(old \ new) = Cardinality(old) - Cardinality(new)
    <3>1. IsFiniteSet(old) /\ old \intersect new = new
      BY <2>2, CoverNumbers
    <3>2. Cardinality(old \ new) = Cardinality(old) - Cardinality(old \intersect new)
      BY <3>1, FS_Difference
    <3> QED
      BY <2>2, <3>1, <3>2, SmallerFits
  <2>5. Uncharged(s)' = Uncharged(s) - Cardinality(new)
    BY <2>3, <2>4 DEF Uncharged
  <2>6. Unreleased(s)' = Cardinality(new)
    BY <2>1 DEF Unreleased, LinesOf
  <2>7. active'[s] = active[s] - Cardinality(new)
    BY <1>3, <2>1, <2>4, CoverNumbers DEF Cover, Uncharged, Less
  <2>8. Open(s)' = Open(s) /\ counter'[s] = counter[s] /\ Forgotten(s)' = Forgotten(s)
    BY <1>5, <2>1 DEF Open, Forgotten
  <2> QED
    BY <1>2, <1>3, <1>4, <1>5, <2>4, <2>5, <2>6, <2>7, <2>8, CoverNumbers DEF Cover
<1>10. CASE ReleaseOne
  <2> PICK i \in releasing : /\ counter' = Released(log[i].session)
                             /\ releasing' = releasing \ {i}
    BY <1>10 DEF ReleaseOne
  <2>1. UNCHANGED <<restarted, active, inflight, log, recorded>>
    BY <1>10 DEF ReleaseOne, traffic
  <2>2. Open(s)' = Open(s) /\ Uncharged(s)' = Uncharged(s) /\ Forgotten(s)' = Forgotten(s)
    BY <1>5, <2>1 DEF Open, Uncharged, Unrecorded, LinesOf, Forgotten
  <2>3. CASE log[i].session = s
    <3>1. LinesOf(s, releasing)' = LinesOf(s, releasing) \ {i} /\ i \in LinesOf(s, releasing)
      BY <2>1, <2>3 DEF LinesOf
    <3>2. Unreleased(s)' = Unreleased(s) - 1
      BY <3>1, CoverNumbers, FS_RemoveElement DEF Unreleased
    <3>3. counter'[s] = IF counter[s] <= 1 THEN 0 ELSE counter[s] - 1
      BY <2>3 DEF Released, Ownership, TypeOK
    <3>4. Unreleased(s) >= 1
      <4>1. Unreleased(s)' \in Nat
        BY <3>1, CoverNumbers, SmallerFits DEF Unreleased
      <4> QED
        BY <3>2, <4>1, CoverNumbers
    <3> QED
      BY <1>2, <1>3, <1>4, <1>5, <2>1, <2>2, <3>2, <3>3, <3>4, CoverNumbers DEF Cover
  <2>4. CASE log[i].session # s
    <3>1. LinesOf(s, releasing)' = LinesOf(s, releasing)
      BY <2>1, <2>4 DEF LinesOf
    <3>2. counter'[s] = counter[s]
      BY <2>4 DEF Released, Ownership, TypeOK
    <3> QED
      BY <1>2, <1>3, <1>4, <1>5, <2>1, <2>2, <3>1, <3>2, CoverNumbers DEF Cover, Unreleased
  <2> QED
    BY <2>3, <2>4
<1>11. CASE Read \/ RecordFails \/ SaveCursor \/ CycleFails \/ CursorLost
  <2>1. /\ UNCHANGED <<counter, restarted, active, traffic, recorded>>
        /\ releasing' \subseteq releasing
    BY <1>11 DEF Read, RecordFails, SaveCursor, CycleFails, CursorLost
  <2> QED
    BY <1>1, <1>4, <2>1, QuietStepsKeepCover
<1> QED
  BY <1>6, <1>7, <1>8, <1>9, <1>10, <1>11 DEF ConnectionsNext, Collect

LEMMA LinksKeepCover ==
    ASSUME Ownership, Covered, LinksNext, UNCHANGED tokenVars, NEW s \in Sessions
    PROVE  Cover(s)'
<1>1. [Next]_vars
  BY DEF Next
<1>2. Usable(s)' => Usable(s)
  BY <1>1, SessionsOnlyEnd
<1>3. Cover(s)
  BY DEF Covered
<1>4. Limit(s)' = Limit(s)
  BY DEF Limit
<1>5. CASE \E r \in Requests, t \in DownloadSessions, c \in Clients, demand \in Demands :
             BeginFetch(r, t, c, demand)
  <2> PICK r \in Requests, t \in DownloadSessions, c \in Clients, demand \in Demands :
           BeginFetch(r, t, c, demand)
    BY <1>5
  <2>1. /\ counter[t] < Limit(t) /\ counter' = [counter EXCEPT ![t] = @ + 1]
        /\ UNCHANGED <<session, lapsed, restarted, active, inflight, log, recorded, releasing, play>>
    BY DEF BeginFetch, MayAcquire, Acquired, traffic, collector, tokenVars
  <2>2. /\ Open(s)' = Open(s) /\ Uncharged(s)' = Uncharged(s)
        /\ Unreleased(s)' = Unreleased(s) /\ Forgotten(s)' = Forgotten(s)
    BY <1>4, <2>1 DEF Open, Uncharged, Unreleased, Unrecorded, LinesOf, Forgotten
  <2>3. CASE s = t
    <3>1. ~ Pending(t)
      <4>1. ASSUME NEW q \in Requests, txn[q].kind = "fetch", txn[q].session = t
            PROVE  FALSE
        BY <4>1 DEF BeginFetch, RowsFree, Holders, Ownership, TxnsSound, TxnSound
      <4>2. ASSUME NEW p \in Players, play[p].kind = "media", play[p].session = t
            PROVE  FALSE
        BY <4>2, ConnectionsAssumption DEF Ownership, PlaysSound, PlaySound, NoPlay
      <4> QED
        BY <4>1, <4>2 DEF Pending
    <3>2. Place(s) = 0 /\ Place(s)' \in {0, 1}
      BY <2>3, <3>1 DEF Place
    <3>3. counter'[s] = counter[s] + 1
      BY <2>1, <2>3 DEF Ownership, TypeOK
    <3> QED
      BY <1>2, <1>3, <1>4, <2>1, <2>2, <2>3, <3>2, <3>3, CoverNumbers DEF Cover
  <2>4. CASE s # t
    <3>1. Place(s)' = Place(s) /\ Place(s) \in Nat
      BY <2>1, <2>4 DEF BeginFetch, Begin, NoTxn, Pending, Place, Ownership, TypeOK
    <3>2. counter'[s] = counter[s]
      BY <2>1, <2>4 DEF Ownership, TypeOK
    <3> QED
      BY <1>2, <1>3, <1>4, <2>1, <2>2, <3>1, <3>2, CoverNumbers DEF Cover
  <2> QED
    BY <2>3, <2>4
<1>6. CASE \E r \in Requests : CommitFetch(r)
  <2> PICK r \in Requests : CommitFetch(r)
    BY <1>6
  <2> DEFINE t == txn[r].session
             ranged == txn[r].demand # "plain"
  <2>1. /\ txn[r].kind = "fetch" /\ txn' = [txn EXCEPT ![r] = NoTxn]
        /\ active' = [active EXCEPT ![t] = @ + 1]
        /\ inflight' = [inflight EXCEPT ![<<t, ranged>>] = @ + 1]
        /\ UNCHANGED <<session, lapsed, counter, restarted, log, recorded, releasing, play>>
    BY DEF CommitFetch, Ends, collector, tokenVars
  <2>2. t \in DownloadSessions /\ t \in Sessions
    BY <2>1 DEF Ownership, TxnsSound, TxnSound, Sessions
  <2>3. /\ Uncharged(s)' = Uncharged(s) /\ Unreleased(s)' = Unreleased(s)
        /\ Forgotten(s)' = Forgotten(s)
    BY <1>4, <2>1 DEF Uncharged, Unreleased, Unrecorded, LinesOf, Forgotten
  <2>4. CASE s = t
    <3>1. Place(s) = 1
      BY <2>1, <2>4 DEF Place, Pending
    <3>2. Place(s)' = 0
      <4>1. ASSUME NEW q \in Requests, txn'[q].kind = "fetch", txn'[q].session = t
            PROVE  FALSE
        <5>1. q # r /\ txn[q].kind = "fetch" /\ txn[q].session = t
          BY <2>1, <4>1 DEF NoTxn, Ownership, TypeOK
        <5> QED
          BY <2>1, <5>1 DEF Ownership, TxnsSound, TxnSound, RowsHeldOnce, OnRows, SameFile
      <4>2. ASSUME NEW p \in Players, play'[p].kind = "media", play'[p].session = t
            PROVE  FALSE
        BY <2>1, <2>2, <4>2, ConnectionsAssumption DEF Ownership, PlaysSound, PlaySound, NoPlay
      <4> QED
        BY <2>4, <4>1, <4>2 DEF Pending, Place
    <3>3. Open(s)' = Open(s) + 1 /\ active'[s] = active[s] + 1
      BY <2>1, <2>2, <2>4, OneResponseMore DEF Ownership, TypeOK
    <3> QED
      BY <1>2, <1>3, <1>4, <2>1, <2>3, <3>1, <3>2, <3>3, CoverNumbers DEF Cover
  <2>5. CASE s # t
    <3>1. Place(s)' <= Place(s) /\ Place(s) \in Nat /\ Place(s)' \in Nat
      BY <2>1, <2>5 DEF NoTxn, Pending, Place, Ownership, TypeOK
    <3>2. Open(s)' = Open(s) /\ active'[s] = active[s]
      BY <2>1, <2>5 DEF Open, Ownership, TypeOK
    <3> QED
      BY <1>2, <1>3, <1>4, <2>1, <2>3, <3>1, <3>2, CoverNumbers DEF Cover
  <2> QED
    BY <2>4, <2>5
<1>7. CASE /\ ~ \E r \in Requests, t \in DownloadSessions, c \in Clients, demand \in Demands :
                    BeginFetch(r, t, c, demand)
           /\ ~ \E r \in Requests : CommitFetch(r)
  <2>1. UNCHANGED <<counter, restarted, active, traffic, recorded, releasing>>
    BY <1>7 DEF LinksNext, BeginCreate, CommitCreate, BeginOpen, CommitOpen, Rollback, LinkLapses,
                SessionLapses, connectionVars, collector
  <2>2. \A q \in Requests : txn'[q].kind = "fetch" => txn'[q] = txn[q]
    BY <1>7 DEF LinksNext, BeginCreate, CommitCreate, BeginOpen, CommitOpen, Rollback, LinkLapses,
                SessionLapses, linkVars, Begin, Ends, NoTxn, Ownership, TypeOK
  <2>3. Pending(s)' => Pending(s)
    BY <2>2 DEF Pending, tokenVars
  <2> QED
    BY <1>1, <2>1, <2>3, QuietStepsKeepCover
<1> QED
  BY <1>5, <1>6, <1>7

LEMMA TokensKeepCover ==
    ASSUME Ownership, Covered, TokensNext, UNCHANGED linkVars, NEW s \in Sessions
    PROVE  Cover(s)'
<1>1. [Next]_vars
  BY DEF Next
<1>2. Usable(s)' => Usable(s)
  BY <1>1, SessionsOnlyEnd
<1>3. Cover(s)
  BY DEF Covered
<1>4. Limit(s)' = Limit(s)
  BY DEF Limit
<1>5. CASE \E p \in Players, t \in Tokens, x \in StreamSessions, c \in Clients :
             BeginPlay(p, t, x, c, "media")
  <2> PICK p \in Players, t \in Tokens, x \in StreamSessions, c \in Clients :
           BeginPlay(p, t, x, c, "media")
    BY <1>5
  <2>1. /\ counter[x] < Limit(x) /\ counter' = [counter EXCEPT ![x] = @ + 1]
        /\ UNCHANGED <<session, lapsed, restarted, active, inflight, log, recorded, releasing, txn>>
    BY DEF BeginPlay, MayAcquire, Acquired, traffic, collector, linkVars
  <2>2. /\ Open(s)' = Open(s) /\ Uncharged(s)' = Uncharged(s)
        /\ Unreleased(s)' = Unreleased(s) /\ Forgotten(s)' = Forgotten(s)
    BY <1>4, <2>1 DEF Open, Uncharged, Unreleased, Unrecorded, LinesOf, Forgotten
  <2>3. CASE s = x
    <3>1. ~ Pending(x)
      <4>1. ASSUME NEW q \in Requests, txn[q].kind = "fetch", txn[q].session = x
            PROVE  FALSE
        BY <4>1, ConnectionsAssumption DEF Ownership, TxnsSound, TxnSound
      <4>2. ASSUME NEW q \in Players, play[q].kind = "media", play[q].session = x
            PROVE  FALSE
        BY <4>2, PlayIsAlone DEF NoPlay
      <4> QED
        BY <4>1, <4>2 DEF Pending
    <3>2. Place(s) = 0 /\ Place(s)' \in {0, 1}
      BY <2>3, <3>1 DEF Place
    <3>3. counter'[s] = counter[s] + 1
      BY <2>1, <2>3 DEF Ownership, TypeOK
    <3> QED
      BY <1>2, <1>3, <1>4, <2>1, <2>2, <2>3, <3>2, <3>3, CoverNumbers DEF Cover
  <2>4. CASE s # x
    <3>1. Place(s)' = Place(s) /\ Place(s) \in Nat
      BY <2>1, <2>4 DEF BeginPlay, NoPlay, Pending, Place, Ownership, TypeOK
    <3>2. counter'[s] = counter[s]
      BY <2>1, <2>4 DEF Ownership, TypeOK
    <3> QED
      BY <1>2, <1>3, <1>4, <2>1, <2>2, <3>1, <3>2, CoverNumbers DEF Cover
  <2> QED
    BY <2>3, <2>4
<1>6. CASE \E p \in Players : CommitPlay(p)
  <2> PICK p \in Players : CommitPlay(p)
    BY <1>6
  <2> DEFINE x == play[p].session
             n == IF play[p].kind = "media" THEN 1 ELSE 0
  <2>1. /\ play[p] # NoPlay /\ play' = [play EXCEPT ![p] = NoPlay]
        /\ active' = [active EXCEPT ![x] = @ + n]
        /\ inflight' = [inflight EXCEPT ![<<x, FALSE>>] = @ + n]
        /\ UNCHANGED <<counter, restarted, log, recorded, releasing, txn>>
    BY DEF CommitPlay, collector, linkVars
  <2>2. x \in StreamSessions /\ x \in Sessions /\ n \in {0, 1}
    BY <2>1 DEF Ownership, PlaysSound, PlaySound, Sessions
  <2>3. /\ Uncharged(s)' = Uncharged(s) /\ Unreleased(s)' = Unreleased(s)
        /\ Forgotten(s)' = Forgotten(s)
    BY <1>4, <2>1 DEF Uncharged, Unreleased, Unrecorded, LinesOf, Forgotten
  <2>4. CASE s = x
    <3>1. Place(s) >= n /\ Place(s) \in Nat
      BY <2>1, <2>4 DEF Place, Pending
    <3>2. Place(s)' = 0
      <4>1. ASSUME NEW q \in Requests, txn'[q].kind = "fetch", txn'[q].session = x
            PROVE  FALSE
        BY <2>1, <2>2, <4>1, ConnectionsAssumption DEF Ownership, TxnsSound, TxnSound
      <4>2. ASSUME NEW q \in Players, play'[q].kind = "media", play'[q].session = x
            PROVE  FALSE
        <5>1. q # p /\ play[q] # NoPlay /\ play[q].session = x
          BY <2>1, <4>2 DEF NoPlay, Ownership, TypeOK
        <5> QED
          BY <2>1, <5>1 DEF Ownership, PlaysApart
      <4> QED
        BY <2>4, <4>1, <4>2 DEF Pending, Place
    <3>3. Open(s)' = Open(s) + n
      BY <2>1, <2>2, <2>4, OneResponseMore
    <3>4. active'[s] = active[s] + n
      BY <2>1, <2>4 DEF Ownership, TypeOK
    <3> QED
      BY <1>2, <1>3, <1>4, <2>1, <2>2, <2>3, <3>1, <3>2, <3>3, <3>4, CoverNumbers DEF Cover
  <2>5. CASE s # x
    <3>1. Place(s)' <= Place(s) /\ Place(s) \in Nat /\ Place(s)' \in Nat
      BY <2>1, <2>5 DEF NoPlay, Pending, Place, Ownership, TypeOK
    <3>2. Open(s)' = Open(s) /\ active'[s] = active[s]
      BY <2>1, <2>5 DEF Open, Ownership, TypeOK
    <3> QED
      BY <1>2, <1>3, <1>4, <2>1, <2>3, <3>1, <3>2, CoverNumbers DEF Cover
  <2> QED
    BY <2>4, <2>5
<1>7. CASE \E p \in Players, t \in Tokens, x \in StreamSessions, c \in Clients :
             BeginPlay(p, t, x, c, "manifest")
  <2> PICK p \in Players, t \in Tokens, x \in StreamSessions, c \in Clients :
           BeginPlay(p, t, x, c, "manifest")
    BY <1>7
  <2>1. UNCHANGED <<counter, restarted, active, traffic, recorded, releasing>>
    BY DEF BeginPlay, collector
  <2>2. Pending(s)' => Pending(s)
    BY DEF BeginPlay, Pending, linkVars, Ownership, TypeOK
  <2> QED
    BY <1>1, <2>1, <2>2, QuietStepsKeepCover
<1>8. CASE \/ \E t \in Tokens : CreateToken(t)
           \/ \E t \in Tokens : TokenLapses(t)
           \/ \E p \in Players : RollbackPlay(p)
  <2>1. UNCHANGED <<counter, restarted, active, traffic, recorded, releasing>>
    BY <1>8 DEF CreateToken, TokenLapses, RollbackPlay, connectionVars, collector
  <2>2. Pending(s)' => Pending(s)
    <3>1. CASE UNCHANGED play
      BY <3>1 DEF Pending, linkVars
    <3>2. CASE \E p \in Players : RollbackPlay(p)
      BY <3>2 DEF RollbackPlay, NoPlay, Pending, linkVars, Ownership, TypeOK
    <3> QED
      BY <1>8, <3>1, <3>2 DEF CreateToken, TokenLapses
  <2> QED
    BY <1>1, <2>1, <2>2, QuietStepsKeepCover
<1> QED
  BY <1>5, <1>6, <1>7, <1>8 DEF TokensNext

THEOREM CoverHolds == Spec => []Covered
<1>1. Init => Covered
  <2> SUFFICES ASSUME Init, NEW s \in Sessions PROVE Cover(s)
    BY DEF Covered
  <2>1. LinesOf(s, Unrecorded) = {} /\ LinesOf(s, releasing) = {}
    BY DEF Init, ConnectionsInit, LinesOf, Unrecorded
  <2>2. Uncharged(s) = 0 /\ Unreleased(s) = 0
    BY <2>1, FS_EmptySet DEF Uncharged, Unreleased
  <2>3. Place(s) = 0
    BY DEF Init, LinksInit, TokensInit, Place, Pending, NoTxn, NoPlay
  <2>4. inflight[<<s, TRUE>>] = 0 /\ inflight[<<s, FALSE>>] = 0
    BY DEF Init, ConnectionsInit
  <2>5. Open(s) = 0
    BY <2>4 DEF Open
  <2>6. active[s] = 0 /\ counter[s] = 0
    BY DEF Init, ConnectionsInit
  <2> QED
    BY <2>2, <2>3, <2>5, <2>6, ConnectionsAssumption DEF Cover, Limit, Forgotten
<1>2. Ownership /\ Covered /\ [Next]_vars => Covered'
  <2> SUFFICES ASSUME Ownership, Covered, [Next]_vars, NEW s \in Sessions PROVE Cover(s)'
    BY DEF Covered
  <2>1. CASE ConnectionsNext /\ UNCHANGED <<linkVars, tokenVars>>
    BY <2>1, ConnectionsKeepCover
  <2>2. CASE LinksNext /\ UNCHANGED tokenVars
    BY <2>2, LinksKeepCover
  <2>3. CASE TokensNext /\ UNCHANGED linkVars
    BY <2>3, TokensKeepCover
  <2>4. CASE UNCHANGED vars
    <3>1. UNCHANGED <<counter, restarted, active, traffic, recorded, releasing, txn, play>>
      BY <2>4 DEF vars, connectionVars, collector, linkVars, tokenVars
    <3> QED
      BY <3>1, QuietStepsKeepCover DEF Pending
  <2> QED
    BY <2>1, <2>2, <2>3, <2>4 DEF Next
<1> QED
  BY <1>1, <1>2, OwnershipHolds, PTL DEF Spec

(* The row covers the responses under way and the lines not yet recorded,   *)
(* Redis covers the row and the releases still to come, less what an early  *)
(* expiry of its key made it forget.                                        *)
THEOREM CountersCoverHolds == Spec => []CountersCover
<1>1. Ownership /\ Covered => CountersCover
  <2> SUFFICES ASSUME Ownership, Covered, NEW s \in Sessions
               PROVE  /\ active[s] >= Open(s) + Cardinality(LinesOf(s, Unrecorded))
                      /\ Live(s) => counter[s] + Forgotten(s)
                                        >= active[s] + Cardinality(LinesOf(s, releasing))
    BY DEF CountersCover
  <2>1. Live(s) => Usable(s)
    BY DEF Live, Usable
  <2>2. Place(s) \in Nat
    BY DEF Place
  <2> QED
    BY <2>1, <2>2, CoverNumbers DEF Covered, Cover, Uncharged, Unreleased
<1> QED
  BY <1>1, CoverHolds, OwnershipHolds, PTL

(* Nginx never sends more responses for a live session than its limit, and  *)
(* than twice its limit once the counter has expired in its last second.    *)
THEOREM ConnectionsBoundedHolds == Spec => []ConnectionsBounded
<1>1. Ownership /\ Covered => ConnectionsBounded
  <2> SUFFICES ASSUME Ownership, Covered, NEW s \in Sessions, Live(s)
               PROVE  Open(s) <= Limit(s) + Forgotten(s)
    BY DEF ConnectionsBounded
  <2>1. Usable(s)
    BY DEF Live, Usable
  <2>2. Place(s) \in Nat
    BY DEF Place
  <2> QED
    BY <2>1, <2>2, CoverNumbers DEF Covered, Cover
<1> QED
  BY <1>1, CoverHolds, OwnershipHolds, PTL

============================================================================
