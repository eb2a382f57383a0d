---------------------------- MODULE MCScheduler ----------------------------
(* Requests 1, 2, 3, ... with the lengths that make them compete: with     *)
(* blocks of two tokens the prompts below need one or two blocks.          *)
EXTENDS Scheduler

MixedPrompts == <<1, 2, 3, 1>>
MixedTokens == <<2, 1, 2, 1>>

EvenPrompts == <<2, 2, 2>>
OneToken == <<1, 1, 1>>

(* The one that may inherit a request id ends before the one it came from. *)
LongFirstPrompts == <<2, 2, 3>>
LongFirst == <<3, 1, 1>>
=============================================================================
