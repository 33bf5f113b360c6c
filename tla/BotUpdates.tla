----------------------------- MODULE BotUpdates -----------------------------
(***************************************************************************)
(* What becomes of the messages of one user: Telegram calls the webhook,   *)
(* the API forwards the update and waits twelve seconds, the bot claims it *)
(* in the table webhook_updates and runs the handler in one transaction    *)
(* that holds the user's row.  The conversation lives in Redis: it is read *)
(* before the transaction begins and written before it commits.            *)
(*                                                                         *)
(* A call is one execution of the bot's endpoint.  It goes on when the API *)
(* has given up, so Telegram's next call may meet it.                      *)
(***************************************************************************)
EXTENDS Naturals

CONSTANTS
    Updates,      \* messages of the user
    Calls,        \* executions under way at once
    None,
    Sent,         \* what the user may send: a subset of Kinds
    TicketLimit,  \* support.open_ticket_limit
    MaxTrouble    \* bound: how often something fails, hangs or dies

(* Commands, menu labels, text, media and the language buttons.             *)
Kinds == {"start", "language", "cancel", "ask_file", "ask_url", "media", "text",
          "my_files", "settings", "support"}

ASSUME BotAssumption ==
    /\ None \notin Updates \union Calls
    /\ Sent \subseteq Kinds
    /\ TicketLimit \in Nat /\ MaxTrouble \in Nat

VARIABLES
    message,       \* [Updates -> Kinds \union {None}]: None before it is sent
    acknowledged,  \* [Updates -> BOOLEAN]: Telegram has got an answer with 2xx
    row,           \* [Updates -> RowStates]: status in webhook_updates
    recent,        \* [Updates -> BOOLEAN]: in progress for less than two minutes
    call,          \* [Calls -> Call]
    holder,        \* Calls \union {None}: who holds the user's row
    chat,          \* Chat: the conversation in Redis
    jobs,          \* [Updates -> Nat]: jobs an update has made
    tickets,       \* [Updates -> Nat]: tickets an update has opened
    open,          \* Nat: open tickets of the user
    handled,       \* history: updates whose handler has come to its end
    early,         \* history: updates answered as duplicates of one in progress
    trouble        \* failures and time-outs so far

telegram == <<message, acknowledged>>
table == <<row, recent>>
effects == <<jobs, tickets, open, handled>>
vars == <<telegram, table, call, holder, chat, effects, early, trouble>>

RowStates == {"none", "processing", "processed", "failed"}
ChatStates == {"idle", "choosing", "file", "url", "subject", "message"}
Chat == [state : ChatStates, subject : BOOLEAN]
Stages == {"none", "claim", "read", "lock", "handle", "talk", "commit", "done", "failed"}
Call == [update : Updates \union {None}, stage : Stages, waiting : BOOLEAN,
         state : ChatStates, writes : {"nothing", "job", "ticket"}]

NoCall == [update |-> None, stage |-> "none", waiting |-> FALSE, state |-> "idle",
           writes |-> "nothing"]

Idle == [state |-> "idle", subject |-> FALSE]

(* The user is in the middle of a conversation.                             *)
Init ==
    /\ message = [u \in Updates |-> None]
    /\ acknowledged = [u \in Updates |-> FALSE]
    /\ row = [u \in Updates |-> "none"]
    /\ recent = [u \in Updates |-> FALSE]
    /\ call = [c \in Calls |-> NoCall]
    /\ holder = None
    /\ chat \in {[state |-> "url", subject |-> FALSE], [state |-> "message", subject |-> TRUE]}
    /\ jobs = [u \in Updates |-> 0]
    /\ tickets = [u \in Updates |-> 0]
    /\ open = 0
    /\ handled = {}
    /\ early = {}
    /\ trouble = 0

Troubled == trouble < MaxTrouble /\ trouble' = trouble + 1

Goes(c, stage) == call' = [call EXCEPT ![c].stage = stage]

Ends(c, stage) ==
    call' = [call EXCEPT ![c] = [NoCall EXCEPT !.update = call[c].update, !.stage = stage,
                                               !.waiting = call[c].waiting]]

(* Telegram is told that the update has been taken care of, if the API      *)
(* still waits for the answer.                                              *)
Accepted(c) ==
    acknowledged' = [acknowledged EXCEPT ![call[c].update] = @ \/ call[c].waiting]

----------------------------------------------------------------------------
(* Telegram delivers an update until an answer accepts it.                  *)
Deliver(c, u) ==
    /\ call[c] = NoCall
    /\ ~ acknowledged[u]
    /\ \A d \in Calls : ~ (call[d].update = u /\ call[d].waiting)
    /\ \E k \in Sent :
          /\ message[u] # None => k = message[u]
          /\ message' = [message EXCEPT ![u] = k]
    /\ call' = [call EXCEPT ![c] = [NoCall EXCEPT !.update = u, !.stage = "claim",
                                                  !.waiting = TRUE]]
    /\ UNCHANGED <<acknowledged, table, holder, chat, effects, early, trouble>>

(* Wrong: what was received before is a duplicate, whatever became of it.   *)
DuplicateOfAny(u) == row[u] # "none"

Duplicate(u) == row[u] = "processed" \/ (row[u] = "processing" /\ recent[u])

(* Wrong: a duplicate is refused, which Telegram takes for a failure.       *)
RefuseDuplicate(c) == UNCHANGED acknowledged

AnswerDuplicate(c) == Accepted(c)

ClaimDuplicate(c) ==
    LET u == call[c].update IN
    /\ call[c].stage = "claim" /\ Duplicate(u)
    /\ AnswerDuplicate(c)
    /\ early' = IF row[u] = "processing" /\ call[c].waiting THEN early \union {u} ELSE early
    /\ call' = [call EXCEPT ![c] = NoCall]
    /\ UNCHANGED <<message, table, holder, chat, effects, trouble>>

(* A new update, one that failed, or one in progress for two minutes.       *)
Claim(c) ==
    LET u == call[c].update IN
    /\ call[c].stage = "claim" /\ ~ Duplicate(u)
    /\ row' = [row EXCEPT ![u] = "processing"]
    /\ recent' = [recent EXCEPT ![u] = TRUE]
    /\ Goes(c, "read")
    /\ UNCHANGED <<telegram, holder, chat, effects, early, trouble>>

----------------------------------------------------------------------------
(* The dispatcher: the middleware of the framework reads the conversation,  *)
(* then the application's begin the transaction and lock the user's row.    *)

ReadChat(c) ==
    /\ call[c].stage = "read"
    /\ call' = [call EXCEPT ![c].stage = "lock", ![c].state = chat.state]
    /\ UNCHANGED <<telegram, table, holder, chat, effects, early, trouble>>

(* Wrong: the user's row is read without a lock.                            *)
UserNotLocked(c) == TRUE

UserFree(c) == holder = None

LockUser(c) ==
    /\ call[c].stage = "lock"
    /\ UserFree(c)
    /\ holder' = c
    /\ Goes(c, "handle")
    /\ UNCHANGED <<telegram, table, chat, effects, early, trouble>>

(* Wrong: the transaction is left open.                                     *)
KeepLocked(c) == UNCHANGED holder

Unlock(c) == holder' = IF holder = c THEN None ELSE holder

(* The first handler that takes the message.  Most menus come after the     *)
(* handler of URLs, which takes any text.                                   *)
Handler(kind, state) ==
    CASE kind \in {"start", "language", "cancel"}     -> "clear"
      [] kind = "ask_file"                            -> "ask_file"
      [] kind = "ask_url"                             -> "ask_url"
      [] kind = "media" /\ state = "file"             -> "create_job"
      [] kind \in {"text", "my_files", "settings", "support"} /\ state = "url"
                                                      -> "create_job"
      [] kind = "settings"                            -> "ask_language"
      [] kind = "support"                             -> "ask_subject"
      [] kind = "text" /\ state = "subject"           -> "take_subject"
      [] kind = "text" /\ state = "message"           -> "open_ticket"
      [] OTHER                                        -> "show"

HandlerOf(c) == Handler(message[call[c].update], call[c].state)

(* These two pass whoever is banned or has not joined a channel.            *)
Refusable(u) == message[u] \notin {"start", "language"}

(* A ban, a channel the user has not joined, or an error of the application *)
(* such as a link that is none, admission denied or quota exceeded: the     *)
(* user is told, the transaction has no effect, the update counts as done.  *)
Refuse(c) ==
    /\ call[c].stage = "handle" /\ Refusable(call[c].update)
    /\ Unlock(c)
    /\ handled' = handled \union {call[c].update}
    /\ Ends(c, "done")
    /\ UNCHANGED <<telegram, table, chat, jobs, tickets, open, early, trouble>>

(* Wrong: the idempotency key is not looked up.                             *)
NoJobBefore(u) == FALSE

JobExists(u) == jobs[u] > 0

(* The handler's statements in the database, and the answer of the handlers *)
(* that answer before they write the conversation.  A ticket without a      *)
(* subject is an error that nobody expects.                                 *)
Handle(c) ==
    LET h == HandlerOf(c)
        writes == CASE h = "create_job" /\ ~ JobExists(call[c].update) -> "job"
                    [] h = "open_ticket"                               -> "ticket"
                    [] OTHER                                           -> "nothing"
        silent == h = "show" \/ (h = "open_ticket" /\ open >= TicketLimit)
        fails == h = "open_ticket" /\ ~ silent /\ ~ chat.subject
        links == message[call[c].update] \in {"text", "media"}
    IN  /\ call[c].stage = "handle"
        /\ h = "create_job" => links
        /\ IF fails
           THEN Unlock(c) /\ Ends(c, "failed")
           ELSE /\ call' = [call EXCEPT ![c].stage = IF silent THEN "commit" ELSE "talk",
                                        ![c].writes = IF silent THEN "nothing" ELSE writes]
                /\ UNCHANGED holder
        /\ UNCHANGED <<telegram, table, chat, effects, early, trouble>>

NextChat(h) ==
    CASE h = "ask_file"     -> [chat EXCEPT !.state = "file"]
      [] h = "ask_url"      -> [chat EXCEPT !.state = "url"]
      [] h = "ask_language" -> [chat EXCEPT !.state = "choosing"]
      [] h = "ask_subject"  -> [chat EXCEPT !.state = "subject"]
      [] h = "take_subject" -> [state |-> "message", subject |-> TRUE]
      [] OTHER              -> Idle

Talk(c) ==
    /\ call[c].stage = "talk"
    /\ chat' = NextChat(HandlerOf(c))
    /\ Goes(c, "commit")
    /\ UNCHANGED <<telegram, table, holder, effects, early, trouble>>

Commit(c) ==
    LET u == call[c].update IN
    /\ call[c].stage = "commit"
    /\ Unlock(c)
    /\ jobs' = [jobs EXCEPT ![u] = IF call[c].writes = "job" THEN @ + 1 ELSE @]
    /\ tickets' = [tickets EXCEPT ![u] = IF call[c].writes = "ticket" THEN @ + 1 ELSE @]
    /\ open' = IF call[c].writes = "ticket" THEN open + 1 ELSE open
    /\ handled' = handled \union {u}
    /\ Ends(c, "done")
    /\ UNCHANGED <<telegram, table, chat, early, trouble>>

(* Any other exception rolls back; what Redis was told stays.               *)
HandlerFails(c) ==
    /\ call[c].stage \in {"read", "lock", "handle", "talk", "commit"}
    /\ Troubled
    /\ Unlock(c)
    /\ Ends(c, "failed")
    /\ UNCHANGED <<telegram, table, chat, effects, early>>

(* Wrong: the error is not recorded.                                        *)
AlwaysProcessed(c) == "processed"

Outcome(c) == IF call[c].stage = "done" THEN "processed" ELSE "failed"

(* The call that ends writes the status, also if another one has taken the  *)
(* update over in the meantime.                                             *)
Finish(c) ==
    /\ call[c].stage \in {"done", "failed"}
    /\ row' = [row EXCEPT ![call[c].update] = Outcome(c)]
    /\ recent' = [recent EXCEPT ![call[c].update] = FALSE]
    /\ IF call[c].stage = "done" THEN Accepted(c) ELSE UNCHANGED acknowledged
    /\ call' = [call EXCEPT ![c] = NoCall]
    /\ UNCHANGED <<message, holder, chat, effects, early, trouble>>

----------------------------------------------------------------------------
(* The transaction of claim or of finish fails.                             *)
TableFails(c) ==
    /\ call[c].stage \in {"claim", "done", "failed"}
    /\ Troubled
    /\ call' = [call EXCEPT ![c] = NoCall]
    /\ UNCHANGED <<telegram, table, holder, chat, effects, early>>

(* The API gives up after twelve seconds; the bot does not notice.          *)
TimeOut(c) ==
    /\ call[c].waiting
    /\ Troubled
    /\ call' = [call EXCEPT ![c].waiting = FALSE]
    /\ UNCHANGED <<telegram, table, holder, chat, effects, early>>

TwoMinutesPass(u) ==
    /\ row[u] = "processing" /\ recent[u]
    /\ recent' = [recent EXCEPT ![u] = FALSE]
    /\ UNCHANGED <<telegram, row, call, holder, chat, effects, early, trouble>>

BotDies ==
    /\ \E c \in Calls : call[c] # NoCall
    /\ Troubled
    /\ call' = [c \in Calls |-> NoCall]
    /\ holder' = None
    /\ UNCHANGED <<telegram, table, chat, effects, early>>

Proceed(c) ==
    \/ ClaimDuplicate(c)
    \/ Claim(c)
    \/ ReadChat(c)
    \/ LockUser(c)
    \/ Refuse(c)
    \/ Handle(c)
    \/ Talk(c)
    \/ Commit(c)
    \/ Finish(c)

Next ==
    \/ \E c \in Calls, u \in Updates : Deliver(c, u)
    \/ \E c \in Calls : Proceed(c)
    \/ \E c \in Calls : HandlerFails(c)
    \/ \E c \in Calls : TableFails(c)
    \/ \E c \in Calls : TimeOut(c)
    \/ \E u \in Updates : TwoMinutesPass(u)
    \/ BotDies

Spec == Init /\ [][Next]_vars

(* Telegram goes on delivering what was not accepted, and calls go on.      *)
FairSpec ==
    /\ Spec
    /\ \A u \in Updates : WF_vars(message[u] # None /\ \E c \in Calls : Deliver(c, u))
    /\ \A c \in Calls : WF_vars(Proceed(c))

----------------------------------------------------------------------------
TypeOK ==
    /\ message \in [Updates -> Kinds \union {None}]
    /\ acknowledged \in [Updates -> BOOLEAN]
    /\ row \in [Updates -> RowStates]
    /\ recent \in [Updates -> BOOLEAN]
    /\ call \in [Calls -> Call]
    /\ holder \in Calls \union {None}
    /\ holder # None => call[holder].stage \in {"handle", "talk", "commit"}
    /\ chat \in Chat
    /\ jobs \in [Updates -> Nat] /\ tickets \in [Updates -> Nat] /\ open \in Nat
    /\ trouble \in 0..MaxTrouble
    /\ handled \subseteq Updates /\ early \subseteq Updates

(* One message makes one job, also when a retry takes it over while the     *)
(* first call still runs and both have read the conversation before.        *)
OneJobPerUpdate == \A u \in Updates : jobs[u] <= 1

(* Messages handled at once do not open more tickets than the user may have.*)
TicketsWithinLimit == open <= TicketLimit

(* What Telegram no longer delivers has been handled, or was answered as a  *)
(* duplicate of a call in progress; nothing else is lost.                   *)
AcceptedWasHandled ==
    \A u \in Updates : acknowledged[u] => u \in handled \union early

(* An update in the table as processed has had its effect, whichever call   *)
(* wrote the status last.                                                   *)
ProcessedWasHandled == \A u \in Updates : row[u] = "processed" => u \in handled

(* A message whose handler failed is delivered again                        *)
(* (docs/STAGE-5-BOT.md:24).                                                *)
FailedIsRetried == \A u \in Updates : row[u] = "failed" => ~ acknowledged[u]

(* Telegram gets rid of every message, so the ones behind it come through.  *)
EveryUpdateAccepted == \A u \in Updates : message[u] # None ~> acknowledged[u]

=============================================================================
