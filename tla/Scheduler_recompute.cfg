CONSTANTS
  TotalBlocks = 3
  Req = {1, 2, 3, 4}
  PromptLen <- MixedPrompts
  MaxTokens <- MixedTokens
  BlockSize = 2
  MaxNumSeqs = 2
  SwapMode = FALSE
  AddressReuse = FALSE
SPECIFICATION Spec
INVARIANTS
  TypeOK
  BlockAccounting
  PlacedOnce
  RunningCovered
  AnswersComplete
  SeatsRespected
  NoLostWakeup
  OneChainPerRequest
PROPERTIES
  RefinesPool
  PreemptMakesRoom
  FutureSetOnce
