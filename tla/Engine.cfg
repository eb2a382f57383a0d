CONSTANTS
  TotalBlocks = 2
  Req = {1, 2, 3, 4}
  PromptLen <- FourPrompts
  MaxTokens <- FourTokens
  BlockSize = 2
  MaxNumSeqs = 0
  SwapMode = FALSE
  AddressReuse = FALSE
  Handler = {1, 2, 3}
  PromptsOf <- ThreeHandlers
  IsChat <- OthersAreChats
  MayNotEncode = {2}
SPECIFICATION FairEngineSpec
INVARIANTS
  EngineTypeOK
  AnsweredWhole
PROPERTIES
  ImplementsScheduler
  EventuallySettled
  SomeoneFinishes
  HandlerEnds
  ZombiesEnd
  LoopGoesIdle
