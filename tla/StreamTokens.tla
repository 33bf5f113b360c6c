--------------------------- MODULE StreamTokens ----------------------------
(***************************************************************************)
(* Stream tokens of one user: their creation against the stream limit, and *)
(* the requests of a player: the manifest, the whole file, a segment.  The *)
(* first request of a token creates its session and binds it to the client *)
(* that asked; a request locks the token's row and then the session's.     *)
(* Whether the file has a variant to play is left open: a request that     *)
(* finds none is refused, and what it did is rolled back.                  *)
(***************************************************************************)
EXTENDS Connections

CONSTANTS
    Tokens,       \* stream_tokens rows
    Players,      \* transactions of players under way at once
    StreamLimit   \* plan.concurrent_streams

ASSUME StreamAssumption ==
    /\ Tokens \subseteq Keys
    /\ IsFiniteSet(StreamSessions)
    /\ StreamLimit \in Nat

VARIABLES
    token,    \* [Tokens -> {"absent", "valid", "expired"}]
    bound,    \* [Tokens -> StreamSessions \union {None}]: stream_session_id
    play      \* [Players -> Play]

tokenVars == <<token, bound, play>>

Play == [kind : {"none", "manifest", "media"}, token : Tokens \union {None},
         client : Clients \union {None}, session : StreamSessions \union {None},
         new : BOOLEAN]
NoPlay == [kind |-> "none", token |-> None, client |-> None, session |-> None, new |-> FALSE]

TokensInit ==
    /\ token = [t \in Tokens |-> "absent"]
    /\ bound = [t \in Tokens |-> None]
    /\ play = [p \in Players |-> NoPlay]

ActiveStreams == {s \in StreamSessions : Live(s)}

(* create_token: the sessions are counted, the tokens are not.              *)
CreateToken(t) ==
    /\ token[t] = "absent"
    /\ Cardinality(ActiveStreams) < StreamLimit
    /\ token' = [token EXCEPT ![t] = "valid"]
    /\ UNCHANGED <<connectionVars, bound, play>>

(* The session ends with its token.                                         *)
TokenLapses(t) ==
    /\ token[t] = "valid"
    /\ token' = [token EXCEPT ![t] = "expired"]
    /\ lapsed' = IF bound[t] = None THEN lapsed ELSE lapsed \union {bound[t]}
    /\ UNCHANGED <<session, counter, restarted, active, traffic, collector, bound, play>>

----------------------------------------------------------------------------
(* A player's request.                                                      *)

(* Wrong: the token is loaded without its lock.                             *)
TokenUnlocked(t) == TRUE

TokenFree(t) == \A p \in Players : play[p].token # t

(* A new session has a random id: no row, no counter now or before, no      *)
(* other request.                                                           *)
Fresh(s) ==
    /\ session[s] = NoRow /\ counter[s] = 0 /\ s \notin restarted
    /\ \A p \in Players : play[p].session # s

(* _ensure_session: the token's session for this client, or a new one.      *)
SessionFor(t, s, c) ==
    \/ bound[t] = None /\ Fresh(s)
    \/ bound[t] = s /\ Live(s) /\ session[s].client = c

BeginPlay(p, t, s, c, kind) ==
    /\ play[p] = NoPlay
    /\ token[t] = "valid" /\ TokenFree(t)
    /\ SessionFor(t, s, c)
    /\ kind = "media" => MayAcquire(s)
    /\ counter' = IF kind = "media" THEN Acquired(s) ELSE counter
    /\ play' = [play EXCEPT ![p] = [kind |-> kind, token |-> t, client |-> c, session |-> s,
                                    new |-> bound[t] = None]]
    /\ UNCHANGED <<session, lapsed, restarted, active, traffic, collector, token, bound>>

CommitPlay(p) ==
    /\ play[p] # NoPlay
    /\ LET s == play[p].session
           t == play[p].token
           answers == IF play[p].kind = "media" THEN 1 ELSE 0
       IN  /\ session' = IF play[p].new
                         THEN [session EXCEPT ![s] = [state |-> "active", key |-> t,
                                                      client |-> play[p].client]]
                         ELSE session
           /\ bound' = IF play[p].new THEN [bound EXCEPT ![t] = s] ELSE bound
           /\ lapsed' = IF token[t] = "expired" THEN lapsed \union {s} ELSE lapsed
           /\ active' = [active EXCEPT ![s] = @ + answers]
           /\ inflight' = [inflight EXCEPT ![<<s, FALSE>>] = @ + answers]
    /\ play' = [play EXCEPT ![p] = NoPlay]
    /\ UNCHANGED <<counter, restarted, log, collector, token>>

(* A refusal after the session was made, or a failure; Redis keeps its      *)
(* count.                                                                   *)
RollbackPlay(p) ==
    /\ play[p] # NoPlay
    /\ play' = [play EXCEPT ![p] = NoPlay]
    /\ UNCHANGED <<connectionVars, token, bound>>

TokensNext ==
    \/ \E t \in Tokens : CreateToken(t)
    \/ \E t \in Tokens : TokenLapses(t)
    \/ \E p \in Players, t \in Tokens, s \in StreamSessions, c \in Clients,
          kind \in {"manifest", "media"} : BeginPlay(p, t, s, c, kind)
    \/ \E p \in Players : CommitPlay(p)
    \/ \E p \in Players : RollbackPlay(p)

===========================================================================
