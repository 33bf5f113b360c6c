-------------------------- MODULE BotUpdatesProofs --------------------------
(***************************************************************************)
(* Proofs about BotUpdates for any number of messages and calls, any kinds *)
(* of messages and any bound on failures: every safety invariant that the  *)
(* runs check.                                                             *)
(***************************************************************************)
EXTENDS BotUpdates, TLAPS

Inside == {"handle", "talk", "commit"}

(* The user's row is locked by exactly the call that is in its transaction. *)
HeldByOne == \A c \in Calls : call[c].stage \in Inside <=> holder = c

(* A call that will commit a job or a ticket is still in its transaction,   *)
(* and what it has read under the lock is still so.                         *)
CallSound(c) ==
    /\ call[c].stage # "none" => call[c].update \in Updates
    /\ call[c].writes # "nothing" => call[c].stage \in {"talk", "commit"}
    /\ call[c].writes = "job" => jobs[call[c].update] = 0
    /\ call[c].writes = "ticket" => open < TicketLimit
    /\ call[c].stage = "done" => call[c].update \in handled

CallsSound == \A c \in Calls : CallSound(c)

IInv ==
    /\ TypeOK
    /\ HeldByOne
    /\ CallsSound
    /\ OneJobPerUpdate
    /\ TicketsWithinLimit
    /\ AcceptedWasHandled
    /\ ProcessedWasHandled

LEMMA InitIInv == Init => IInv
<1> SUFFICES ASSUME Init PROVE IInv
  OBVIOUS
<1> USE BotAssumption DEF BotAssumption, Init
<1>1. NoCall \in Call
  BY DEF NoCall, Call, Stages, ChatStates
<1>2. TypeOK
  <2>1. chat \in Chat
    <3>1. [state |-> "url", subject |-> FALSE] \in Chat
      BY DEF Chat, ChatStates
    <3>2. [state |-> "message", subject |-> TRUE] \in Chat
      BY DEF Chat, ChatStates
    <3> QED
      BY <3>1, <3>2
  <2>2. call \in [Calls -> Call]
    BY <1>1
  <2> QED
    BY <2>1, <2>2 DEF TypeOK, RowStates
<1>3. HeldByOne /\ CallsSound
  BY DEF HeldByOne, CallsSound, CallSound, NoCall, Inside
<1>4. OneJobPerUpdate /\ TicketsWithinLimit /\ AcceptedWasHandled /\ ProcessedWasHandled
  BY DEF OneJobPerUpdate, TicketsWithinLimit, AcceptedWasHandled, ProcessedWasHandled
<1> QED
  BY <1>2, <1>3, <1>4 DEF IInv

LEMMA DeliverKeeps ==
    ASSUME IInv, NEW c \in Calls, NEW u \in Updates, Deliver(c, u)
    PROVE  IInv'
<1> USE BotAssumption DEF BotAssumption, Deliver, NoCall, telegram, table, effects
<1>1. TypeOK'
  <2>1. call' \in [Calls -> Call]
    BY DEF IInv, TypeOK, CallsSound, CallSound, Call, Stages, ChatStates
  <2> QED
    BY <2>1 DEF IInv, TypeOK, HeldByOne, Inside, CallsSound, CallSound, Stages, RowStates, Chat
<1>2. HeldByOne'
  BY DEF IInv, TypeOK, HeldByOne, Inside, CallsSound, CallSound, Call, Stages
<1>3. CallsSound'
  BY DEF IInv, TypeOK, HeldByOne, Inside, CallsSound, CallSound, Call, Stages, OneJobPerUpdate
<1>4. OneJobPerUpdate' /\ TicketsWithinLimit'
  BY DEF IInv, TypeOK, CallsSound, CallSound, OneJobPerUpdate, TicketsWithinLimit
<1>5. AcceptedWasHandled' /\ ProcessedWasHandled'
  BY DEF IInv, TypeOK, CallsSound, CallSound, Call, Stages, AcceptedWasHandled, ProcessedWasHandled
<1> QED
  BY <1>1, <1>2, <1>3, <1>4, <1>5 DEF IInv

LEMMA ClaimDuplicateKeeps ==
    ASSUME IInv, NEW c \in Calls, ClaimDuplicate(c)
    PROVE  IInv'
<1> USE BotAssumption DEF BotAssumption, ClaimDuplicate, AnswerDuplicate, Accepted, Duplicate, NoCall, telegram, table, effects
<1>1. TypeOK'
  BY DEF IInv, TypeOK, HeldByOne, Inside, CallsSound, CallSound, RowStates, Call, Stages, Chat, ChatStates
<1>2. HeldByOne'
  BY DEF IInv, TypeOK, HeldByOne, Inside, CallsSound, CallSound, Call, Stages
<1>3. CallsSound'
  BY DEF IInv, TypeOK, HeldByOne, Inside, CallsSound, CallSound, Call, Stages, OneJobPerUpdate
<1>4. OneJobPerUpdate' /\ TicketsWithinLimit'
  BY DEF IInv, TypeOK, CallsSound, CallSound, OneJobPerUpdate, TicketsWithinLimit
<1>5. AcceptedWasHandled' /\ ProcessedWasHandled'
  BY DEF IInv, TypeOK, CallsSound, CallSound, Call, Stages, AcceptedWasHandled, ProcessedWasHandled
<1> QED
  BY <1>1, <1>2, <1>3, <1>4, <1>5 DEF IInv

LEMMA ClaimKeeps ==
    ASSUME IInv, NEW c \in Calls, Claim(c)
    PROVE  IInv'
<1> USE BotAssumption DEF BotAssumption, Claim, Goes, Duplicate, telegram, table, effects
<1>1. TypeOK'
  <2>1. call' \in [Calls -> Call]
    BY DEF IInv, TypeOK, CallsSound, CallSound, Call, Stages, ChatStates
  <2> QED
    BY <2>1 DEF IInv, TypeOK, HeldByOne, Inside, CallsSound, CallSound, Stages, RowStates, Chat
<1>2. HeldByOne'
  BY DEF IInv, TypeOK, HeldByOne, Inside, CallsSound, CallSound, Call, Stages
<1>3. CallsSound'
  BY DEF IInv, TypeOK, HeldByOne, Inside, CallsSound, CallSound, Call, Stages, OneJobPerUpdate
<1>4. OneJobPerUpdate' /\ TicketsWithinLimit'
  BY DEF IInv, TypeOK, CallsSound, CallSound, OneJobPerUpdate, TicketsWithinLimit
<1>5. AcceptedWasHandled' /\ ProcessedWasHandled'
  BY DEF IInv, TypeOK, CallsSound, CallSound, Call, Stages, AcceptedWasHandled, ProcessedWasHandled
<1> QED
  BY <1>1, <1>2, <1>3, <1>4, <1>5 DEF IInv

LEMMA ReadChatKeeps ==
    ASSUME IInv, NEW c \in Calls, ReadChat(c)
    PROVE  IInv'
<1> USE BotAssumption DEF BotAssumption, ReadChat, telegram, table, effects
<1>1. TypeOK'
  <2>1. call' \in [Calls -> Call]
    <3>0. chat.state \in ChatStates /\ call[c] \in Call
      BY DEF IInv, TypeOK, Chat
    <3>1. [call[c] EXCEPT !.stage = "lock", !.state = chat.state] \in Call
      BY <3>0 DEF Call, Stages
    <3>2. call' = [call EXCEPT ![c] = [call[c] EXCEPT !.stage = "lock", !.state = chat.state]]
      BY DEF IInv, TypeOK
    <3> QED
      BY <3>1, <3>2 DEF IInv, TypeOK
  <2> QED
    BY <2>1 DEF IInv, TypeOK, HeldByOne, Inside, CallsSound, CallSound, Stages, RowStates, Chat
<1>2. HeldByOne'
  BY DEF IInv, TypeOK, HeldByOne, Inside, CallsSound, CallSound, Call, Stages
<1>3. CallsSound'
  BY DEF IInv, TypeOK, HeldByOne, Inside, CallsSound, CallSound, Call, Stages, OneJobPerUpdate
<1>4. OneJobPerUpdate' /\ TicketsWithinLimit'
  BY DEF IInv, TypeOK, CallsSound, CallSound, OneJobPerUpdate, TicketsWithinLimit
<1>5. AcceptedWasHandled' /\ ProcessedWasHandled'
  BY DEF IInv, TypeOK, CallsSound, CallSound, Call, Stages, AcceptedWasHandled, ProcessedWasHandled
<1> QED
  BY <1>1, <1>2, <1>3, <1>4, <1>5 DEF IInv

LEMMA LockUserKeeps ==
    ASSUME IInv, NEW c \in Calls, LockUser(c)
    PROVE  IInv'
<1> USE BotAssumption DEF BotAssumption, LockUser, UserFree, Goes, telegram, table, effects
<1>1. TypeOK'
  BY DEF IInv, TypeOK, HeldByOne, Inside, CallsSound, CallSound, RowStates, Call, Stages, Chat, ChatStates
<1>2. HeldByOne'
  BY DEF IInv, TypeOK, HeldByOne, Inside, CallsSound, CallSound, Call, Stages
<1>3. CallsSound'
  BY DEF IInv, TypeOK, HeldByOne, Inside, CallsSound, CallSound, Call, Stages, OneJobPerUpdate
<1>4. OneJobPerUpdate' /\ TicketsWithinLimit'
  BY DEF IInv, TypeOK, CallsSound, CallSound, OneJobPerUpdate, TicketsWithinLimit
<1>5. AcceptedWasHandled' /\ ProcessedWasHandled'
  BY DEF IInv, TypeOK, CallsSound, CallSound, Call, Stages, AcceptedWasHandled, ProcessedWasHandled
<1> QED
  BY <1>1, <1>2, <1>3, <1>4, <1>5 DEF IInv

LEMMA RefuseKeeps ==
    ASSUME IInv, NEW c \in Calls, Refuse(c)
    PROVE  IInv'
<1> USE BotAssumption DEF BotAssumption, Refuse, Unlock, Ends, NoCall, telegram, table, effects
<1>1. TypeOK'
  <2>1. call' \in [Calls -> Call]
    BY DEF IInv, TypeOK, CallsSound, CallSound, Call, Stages, ChatStates
  <2> QED
    BY <2>1 DEF IInv, TypeOK, HeldByOne, Inside, CallsSound, CallSound, Stages, RowStates, Chat
<1>2. HeldByOne'
  BY DEF IInv, TypeOK, HeldByOne, Inside, CallsSound, CallSound, Call, Stages
<1>3. CallsSound'
  BY DEF IInv, TypeOK, HeldByOne, Inside, CallsSound, CallSound, Call, Stages, OneJobPerUpdate
<1>4. OneJobPerUpdate' /\ TicketsWithinLimit'
  BY DEF IInv, TypeOK, CallsSound, CallSound, OneJobPerUpdate, TicketsWithinLimit
<1>5. AcceptedWasHandled' /\ ProcessedWasHandled'
  BY DEF IInv, TypeOK, CallsSound, CallSound, Call, Stages, AcceptedWasHandled, ProcessedWasHandled
<1> QED
  BY <1>1, <1>2, <1>3, <1>4, <1>5 DEF IInv

LEMMA HandleKeeps ==
    ASSUME IInv, NEW c \in Calls, Handle(c)
    PROVE  IInv'
<1> DEFINE u == call[c].update
           failed == [update |-> u, stage |-> "failed", waiting |-> call[c].waiting,
                      state |-> "idle", writes |-> "nothing"]
           going(stage, w) == [call[c] EXCEPT !.stage = stage, !.writes = w]
<1>1. /\ call[c].stage = "handle" /\ u \in Updates /\ holder = c
      /\ call \in [Calls -> Call] /\ call[c] \in Call /\ call[c].writes = "nothing"
  BY DEF Handle, IInv, TypeOK, HeldByOne, Inside, CallsSound, CallSound, Call, Stages
(* Either the handler fails, or it goes on with what it will write.         *)
<1>2. \/ holder' = None /\ call' = [call EXCEPT ![c] = failed]
      \/ /\ holder' = c
         /\ \E stage \in {"talk", "commit"}, w \in {"nothing", "job", "ticket"} :
               /\ call' = [call EXCEPT ![c] = going(stage, w)]
               /\ w = "job" => jobs[u] = 0
               /\ w = "ticket" => open < TicketLimit
  <2> DEFINE h == HandlerOf(c)
             writes == CASE h = "create_job" /\ ~ JobExists(u) -> "job"
                         [] h = "open_ticket"                   -> "ticket"
                         [] OTHER                               -> "nothing"
             silent == h = "show" \/ (h = "open_ticket" /\ open >= TicketLimit)
             fails == h = "open_ticket" /\ ~ silent /\ ~ chat.subject
  <2>1. CASE fails
    BY <1>1, <2>1 DEF Handle, Unlock, Ends, NoCall
  <2>2. CASE ~ fails
    <3> DEFINE stage == IF silent THEN "commit" ELSE "talk"
               w == IF silent THEN "nothing" ELSE writes
    <3>1. call' = [call EXCEPT ![c].stage = stage, ![c].writes = w] /\ holder' = c
      BY <1>1, <2>2 DEF Handle
    <3>2. call' = [call EXCEPT ![c] = going(stage, w)]
      BY <1>1, <3>1
    <3>3. writes = "job" => jobs[u] = 0
      BY <1>1 DEF JobExists, IInv, TypeOK
    <3>4. writes = "ticket" => h = "open_ticket"
      OBVIOUS
    <3>5. w = "ticket" => open < TicketLimit
      BY <3>4, BotAssumption DEF BotAssumption, IInv, TypeOK
    <3>6. writes \in {"nothing", "job", "ticket"}
      OBVIOUS
    <3>7. stage \in {"talk", "commit"} /\ w \in {"nothing", "job", "ticket"}
      BY <3>6
    <3> HIDE DEF stage, w, going
    <3> QED
      BY <3>1, <3>2, <3>3, <3>5, <3>7 DEF w
  <2> QED
    BY <2>1, <2>2
<1>3. UNCHANGED <<telegram, table, chat, effects, early, trouble>>
  BY DEF Handle
<1>4. failed \in Call
  BY <1>1 DEF Call, Stages, ChatStates
<1>5. \A stage \in {"talk", "commit"}, w \in {"nothing", "job", "ticket"} :
         going(stage, w) \in Call /\ going(stage, w).update = u
         /\ going(stage, w).stage = stage /\ going(stage, w).writes = w
  BY <1>1 DEF Call, Stages
<1> HIDE DEF going
<1>6. call' \in [Calls -> Call] /\ holder' \in Calls \union {None}
  BY <1>1, <1>2, <1>4, <1>5
<1>7. HeldByOne'
  BY <1>1, <1>2, <1>5, BotAssumption DEF BotAssumption, IInv, HeldByOne, Inside
<1>8. CallsSound'
  BY <1>1, <1>2, <1>3, <1>5 DEF IInv, CallsSound, CallSound, effects
<1>9. TypeOK'
  BY <1>3, <1>6, <1>7 DEF IInv, TypeOK, HeldByOne, Inside, telegram, table, effects
<1>10. /\ OneJobPerUpdate' /\ TicketsWithinLimit'
       /\ AcceptedWasHandled' /\ ProcessedWasHandled'
  BY <1>3 DEF IInv, OneJobPerUpdate, TicketsWithinLimit, AcceptedWasHandled,
              ProcessedWasHandled, telegram, table, effects
<1> QED
  BY <1>7, <1>8, <1>9, <1>10 DEF IInv

LEMMA TalkKeeps ==
    ASSUME IInv, NEW c \in Calls, Talk(c)
    PROVE  IInv'
<1> USE BotAssumption DEF BotAssumption, Talk, Goes, telegram, table, effects
<1>1. TypeOK'
  BY DEF IInv, TypeOK, HeldByOne, Inside, CallsSound, CallSound, RowStates, Call, Stages, Chat, ChatStates, NextChat, Idle
<1>2. HeldByOne'
  BY DEF IInv, TypeOK, HeldByOne, Inside, CallsSound, CallSound, Call, Stages
<1>3. CallsSound'
  BY DEF IInv, TypeOK, HeldByOne, Inside, CallsSound, CallSound, Call, Stages, OneJobPerUpdate
<1>4. OneJobPerUpdate' /\ TicketsWithinLimit'
  BY DEF IInv, TypeOK, CallsSound, CallSound, OneJobPerUpdate, TicketsWithinLimit
<1>5. AcceptedWasHandled' /\ ProcessedWasHandled'
  BY DEF IInv, TypeOK, CallsSound, CallSound, Call, Stages, AcceptedWasHandled, ProcessedWasHandled
<1> QED
  BY <1>1, <1>2, <1>3, <1>4, <1>5 DEF IInv

LEMMA CommitKeeps ==
    ASSUME IInv, NEW c \in Calls, Commit(c)
    PROVE  IInv'
<1> USE BotAssumption DEF BotAssumption, Commit, Unlock, Ends, NoCall, telegram, table, effects
<1>1. TypeOK'
  <2>1. call' \in [Calls -> Call]
    BY DEF IInv, TypeOK, CallsSound, CallSound, Call, Stages, ChatStates
  <2> QED
    BY <2>1 DEF IInv, TypeOK, HeldByOne, Inside, CallsSound, CallSound, Stages, RowStates, Chat
<1>2. HeldByOne'
  BY DEF IInv, TypeOK, HeldByOne, Inside, CallsSound, CallSound, Call, Stages
<1>3. CallsSound'
  BY DEF IInv, TypeOK, HeldByOne, Inside, CallsSound, CallSound, Call, Stages, OneJobPerUpdate
<1>4. OneJobPerUpdate' /\ TicketsWithinLimit'
  BY DEF IInv, TypeOK, CallsSound, CallSound, OneJobPerUpdate, TicketsWithinLimit
<1>5. AcceptedWasHandled' /\ ProcessedWasHandled'
  BY DEF IInv, TypeOK, CallsSound, CallSound, Call, Stages, AcceptedWasHandled, ProcessedWasHandled
<1> QED
  BY <1>1, <1>2, <1>3, <1>4, <1>5 DEF IInv

LEMMA HandlerFailsKeeps ==
    ASSUME IInv, NEW c \in Calls, HandlerFails(c)
    PROVE  IInv'
<1> USE BotAssumption DEF BotAssumption, HandlerFails, Troubled, Unlock, Ends, NoCall, telegram, table, effects
<1>1. TypeOK'
  <2>1. call' \in [Calls -> Call]
    BY DEF IInv, TypeOK, CallsSound, CallSound, Call, Stages, ChatStates
  <2> QED
    BY <2>1 DEF IInv, TypeOK, HeldByOne, Inside, CallsSound, CallSound, Stages, RowStates, Chat
<1>2. HeldByOne'
  BY DEF IInv, TypeOK, HeldByOne, Inside, CallsSound, CallSound, Call, Stages
<1>3. CallsSound'
  BY DEF IInv, TypeOK, HeldByOne, Inside, CallsSound, CallSound, Call, Stages, OneJobPerUpdate
<1>4. OneJobPerUpdate' /\ TicketsWithinLimit'
  BY DEF IInv, TypeOK, CallsSound, CallSound, OneJobPerUpdate, TicketsWithinLimit
<1>5. AcceptedWasHandled' /\ ProcessedWasHandled'
  BY DEF IInv, TypeOK, CallsSound, CallSound, Call, Stages, AcceptedWasHandled, ProcessedWasHandled
<1> QED
  BY <1>1, <1>2, <1>3, <1>4, <1>5 DEF IInv

LEMMA FinishKeeps ==
    ASSUME IInv, NEW c \in Calls, Finish(c)
    PROVE  IInv'
<1> USE BotAssumption DEF BotAssumption, Finish, Outcome, Accepted, NoCall, telegram, table, effects
<1>1. TypeOK'
  BY DEF IInv, TypeOK, HeldByOne, Inside, CallsSound, CallSound, RowStates, Call, Stages, Chat, ChatStates
<1>2. HeldByOne'
  BY DEF IInv, TypeOK, HeldByOne, Inside, CallsSound, CallSound, Call, Stages
<1>3. CallsSound'
  BY DEF IInv, TypeOK, HeldByOne, Inside, CallsSound, CallSound, Call, Stages, OneJobPerUpdate
<1>4. OneJobPerUpdate' /\ TicketsWithinLimit'
  BY DEF IInv, TypeOK, CallsSound, CallSound, OneJobPerUpdate, TicketsWithinLimit
<1>5. AcceptedWasHandled' /\ ProcessedWasHandled'
  BY DEF IInv, TypeOK, CallsSound, CallSound, Call, Stages, AcceptedWasHandled, ProcessedWasHandled
<1> QED
  BY <1>1, <1>2, <1>3, <1>4, <1>5 DEF IInv

LEMMA TableFailsKeeps ==
    ASSUME IInv, NEW c \in Calls, TableFails(c)
    PROVE  IInv'
<1> USE BotAssumption DEF BotAssumption, TableFails, Troubled, NoCall, telegram, table, effects
<1>1. TypeOK'
  BY DEF IInv, TypeOK, HeldByOne, Inside, CallsSound, CallSound, RowStates, Call, Stages, Chat, ChatStates
<1>2. HeldByOne'
  BY DEF IInv, TypeOK, HeldByOne, Inside, CallsSound, CallSound, Call, Stages
<1>3. CallsSound'
  BY DEF IInv, TypeOK, HeldByOne, Inside, CallsSound, CallSound, Call, Stages, OneJobPerUpdate
<1>4. OneJobPerUpdate' /\ TicketsWithinLimit'
  BY DEF IInv, TypeOK, CallsSound, CallSound, OneJobPerUpdate, TicketsWithinLimit
<1>5. AcceptedWasHandled' /\ ProcessedWasHandled'
  BY DEF IInv, TypeOK, CallsSound, CallSound, Call, Stages, AcceptedWasHandled, ProcessedWasHandled
<1> QED
  BY <1>1, <1>2, <1>3, <1>4, <1>5 DEF IInv

LEMMA TimeOutKeeps ==
    ASSUME IInv, NEW c \in Calls, TimeOut(c)
    PROVE  IInv'
<1> USE BotAssumption DEF BotAssumption, TimeOut, Troubled, telegram, table, effects
<1>1. TypeOK'
  <2>1. call' \in [Calls -> Call]
    <3>1. call[c] \in Call
      BY DEF IInv, TypeOK
    <3>2. [call[c] EXCEPT !.waiting = FALSE] \in Call
      BY <3>1 DEF Call
    <3> QED
      BY <3>2 DEF IInv, TypeOK
  <2> QED
    BY <2>1 DEF IInv, TypeOK, HeldByOne, Inside, CallsSound, CallSound, Stages, RowStates, Chat
<1>2. HeldByOne'
  BY DEF IInv, TypeOK, HeldByOne, Inside, CallsSound, CallSound, Call, Stages
<1>3. CallsSound'
  BY DEF IInv, TypeOK, HeldByOne, Inside, CallsSound, CallSound, Call, Stages, OneJobPerUpdate
<1>4. OneJobPerUpdate' /\ TicketsWithinLimit'
  BY DEF IInv, TypeOK, CallsSound, CallSound, OneJobPerUpdate, TicketsWithinLimit
<1>5. AcceptedWasHandled' /\ ProcessedWasHandled'
  BY DEF IInv, TypeOK, CallsSound, CallSound, Call, Stages, AcceptedWasHandled, ProcessedWasHandled
<1> QED
  BY <1>1, <1>2, <1>3, <1>4, <1>5 DEF IInv

LEMMA TwoMinutesPassKeeps ==
    ASSUME IInv, NEW u \in Updates, TwoMinutesPass(u)
    PROVE  IInv'
<1> USE BotAssumption DEF BotAssumption, TwoMinutesPass, telegram, table, effects
<1>1. TypeOK'
  BY DEF IInv, TypeOK, HeldByOne, Inside, CallsSound, CallSound, RowStates, Call, Stages, Chat, ChatStates
<1>2. HeldByOne'
  BY DEF IInv, TypeOK, HeldByOne, Inside, CallsSound, CallSound, Call, Stages
<1>3. CallsSound'
  BY DEF IInv, TypeOK, HeldByOne, Inside, CallsSound, CallSound, Call, Stages, OneJobPerUpdate
<1>4. OneJobPerUpdate' /\ TicketsWithinLimit'
  BY DEF IInv, TypeOK, CallsSound, CallSound, OneJobPerUpdate, TicketsWithinLimit
<1>5. AcceptedWasHandled' /\ ProcessedWasHandled'
  BY DEF IInv, TypeOK, CallsSound, CallSound, Call, Stages, AcceptedWasHandled, ProcessedWasHandled
<1> QED
  BY <1>1, <1>2, <1>3, <1>4, <1>5 DEF IInv

LEMMA BotDiesKeeps ==
    ASSUME IInv, BotDies
    PROVE  IInv'
<1> USE BotAssumption DEF BotAssumption, BotDies, Troubled, NoCall, telegram, table, effects
<1>1. TypeOK'
  BY DEF IInv, TypeOK, HeldByOne, Inside, CallsSound, CallSound, RowStates, Call, Stages, Chat, ChatStates
<1>2. HeldByOne'
  BY DEF IInv, TypeOK, HeldByOne, Inside, CallsSound, CallSound, Call, Stages
<1>3. CallsSound'
  BY DEF IInv, TypeOK, HeldByOne, Inside, CallsSound, CallSound, Call, Stages, OneJobPerUpdate
<1>4. OneJobPerUpdate' /\ TicketsWithinLimit'
  BY DEF IInv, TypeOK, CallsSound, CallSound, OneJobPerUpdate, TicketsWithinLimit
<1>5. AcceptedWasHandled' /\ ProcessedWasHandled'
  BY DEF IInv, TypeOK, CallsSound, CallSound, Call, Stages, AcceptedWasHandled, ProcessedWasHandled
<1> QED
  BY <1>1, <1>2, <1>3, <1>4, <1>5 DEF IInv

(***************************************************************************)
(* The invariant and what follows from it.                                 *)
(***************************************************************************)
LEMMA StepIInv == IInv /\ [Next]_vars => IInv'
<1> SUFFICES ASSUME IInv, [Next]_vars PROVE IInv'
  OBVIOUS
<1>1. CASE \E c \in Calls, u \in Updates : Deliver(c, u)
  BY <1>1, DeliverKeeps
<1>2. CASE \E c \in Calls : Proceed(c)
  <2> SUFFICES ASSUME NEW c \in Calls, Proceed(c) PROVE IInv'
    BY <1>2
  <2> QED
    BY ClaimDuplicateKeeps, ClaimKeeps, ReadChatKeeps, LockUserKeeps, RefuseKeeps, HandleKeeps,
       TalkKeeps, CommitKeeps, FinishKeeps DEF Proceed
<1>3. CASE \E c \in Calls : HandlerFails(c) \/ TableFails(c) \/ TimeOut(c)
  BY <1>3, HandlerFailsKeeps, TableFailsKeeps, TimeOutKeeps
<1>4. CASE \E u \in Updates : TwoMinutesPass(u)
  BY <1>4, TwoMinutesPassKeeps
<1>5. CASE BotDies
  BY <1>5, BotDiesKeeps
<1>6. CASE UNCHANGED vars
  BY <1>6 DEF vars, telegram, table, effects, IInv, TypeOK, HeldByOne, CallsSound, CallSound,
              OneJobPerUpdate, TicketsWithinLimit, AcceptedWasHandled, ProcessedWasHandled
<1> QED
  BY <1>1, <1>2, <1>3, <1>4, <1>5, <1>6 DEF Next

THEOREM Invariant == Spec => []IInv
BY InitIInv, StepIInv, PTL DEF Spec

(* Every variable keeps its type, and the user's row is only held by a call *)
(* in its transaction.                                                      *)
THEOREM TypeCorrect == Spec => []TypeOK
<1>1. IInv => TypeOK
  BY DEF IInv
<1> QED
  BY <1>1, Invariant, PTL

(* One message makes one job, whatever is delivered twice, times out, fails *)
(* or dies: the key is looked up in the transaction that holds the row.     *)
THEOREM OneJobPerUpdateHolds == Spec => []OneJobPerUpdate
<1>1. IInv => OneJobPerUpdate
  BY DEF IInv
<1> QED
  BY <1>1, Invariant, PTL

(* The limit on open tickets is exact.                                      *)
THEOREM TicketsWithinLimitHolds == Spec => []TicketsWithinLimit
<1>1. IInv => TicketsWithinLimit
  BY DEF IInv
<1> QED
  BY <1>1, Invariant, PTL

(* A message that Telegram no longer delivers has been handled, or was      *)
(* answered as a duplicate of a call in progress.                           *)
THEOREM AcceptedWasHandledHolds == Spec => []AcceptedWasHandled
<1>1. IInv => AcceptedWasHandled
  BY DEF IInv
<1> QED
  BY <1>1, Invariant, PTL

(* A message in the table as processed has had its effect.                  *)
THEOREM ProcessedWasHandledHolds == Spec => []ProcessedWasHandled
<1>1. IInv => ProcessedWasHandled
  BY DEF IInv
<1> QED
  BY <1>1, Invariant, PTL

=============================================================================
