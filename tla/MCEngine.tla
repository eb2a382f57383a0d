------------------------------ MODULE MCEngine ------------------------------
(* A completions request with two prompts, of which the second may fail to *)
(* encode, and two chat requests, one of which needs all the blocks.       *)
EXTENDS Engine

FourPrompts == <<1, 1, 2, 1>>
FourTokens == <<1, 1, 1, 1>>

ThreeHandlers == <<<<1, 2>>, <<3>>, <<4>>>>
OthersAreChats == <<FALSE, TRUE, TRUE>>
=============================================================================
