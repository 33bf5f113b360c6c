---------------------------- MODULE MCJobQueue ----------------------------
(* Small instances of JobQueue: downloads, children they schedule, and two  *)
(* interchangeable workers.                                                 *)
EXTENDS JobQueue, TLC

CONSTANTS d1, c1, w1, w2

NoChild == [c \in {} |-> d1]
Types1 == d1 :> "external_download"
OneChild == c1 :> d1
Types2 == (d1 :> "telegram_download") @@ (c1 :> "media_process")

WorkerSymmetry == Permutations({w1, w2})
===========================================================================
