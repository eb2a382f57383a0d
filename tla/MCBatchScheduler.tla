-------------------------- MODULE MCBatchScheduler --------------------------
(* Four sequences of two priorities that grow from one to four tokens,      *)
(* under a limit of four tokens of which one is the reserve.               *)
EXTENDS BatchScheduler

Prompts == <<1, 1, 1, 1>>
Wanted == <<3, 2, 2, 1>>
Priorities == <<0, 1, 0, 1>>
=============================================================================
