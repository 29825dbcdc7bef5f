SPECIFICATION Spec
CONSTANTS
  MaxProbed = 30
  Modules <- MCModules
  Texts <- MCTexts
  Lexing <- LexToken
  Parsing <- Item
  Building <- LowerModule
  Resolving <- ResolveWorkspace
  Lowering <- LowerBody
  Checking <- CheckBody
  Inferring <- Inferred
  Enforcing <- Enforced
  Blocking <- LowerFn
  Running <- MachineStep
  MeaningOf <- Meant
INVARIANTS
  AcceptedNeverTraps
  ComputesItsMeaning
  ValuesHaveTheirTypes
  NoFallThrough
  NoCascade
  AnnotationsMeanTheSame
CHECK_DEADLOCK FALSE
