SPECIFICATION Spec
CONSTANTS
  MaxProbed = 30
  Modules <- MCModules
  Texts <- LoopTexts
  Lexing <- LexToken
  Parsing <- Item
  Building <- LowerModule
  Resolving <- ResolveWorkspace
  Lowering <- LowerBody
  Checking <- CheckBody
  Inferring <- Inferred
  Enforcing <- Enforced
  Blocking <- LowerFn
  Running <- MachineStep
  MeaningOf <- Meant
INVARIANT AcceptedNeverTraps
CHECK_DEADLOCK FALSE
