SPECIFICATION RefactorSpec
CONSTANTS
  MaxPatchOps = 2
  Modules <- MCModules
  Texts = 0
  Lexing <- LexToken
  Parsing <- Item
  Building <- LowerModule
  Resolving <- ResolveWorkspace
  Lowering <- LowerBody
  Checking <- CheckBody
  Inferring <- Inferred
  Enforcing <- Enforced
  Blocking <- LowerFn
  Running <- MachineStep
  Workspaces <- MCWorkspaces
  Requests <- MCRequests
  Planning <- Plan
  Reading <- Parsed
  Splicing <- SpliceSources
  Verifying <- Verified
  MeaningOf <- Meaning
  StructureOf <- Structure
  Expected <- Patched
INVARIANTS
  RenameKeepsMeaning
  FreshNameAccepted
  PatchDoesItsOperations
CHECK_DEADLOCK FALSE
