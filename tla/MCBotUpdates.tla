---------------------------- MODULE MCBotUpdates ----------------------------
(* Small instances of BotUpdates.                                           *)
EXTENDS BotUpdates

CONSTANTS u1, u2, c1, c2
=============================================================================
