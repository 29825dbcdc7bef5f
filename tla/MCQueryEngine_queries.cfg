SPECIFICATION Spec
CONSTANTS
  Key <- Keys
  Input <- MCInput
  Texts <- MCTexts
  Opened <- MCOpened
  Home <- FileOfKey
  Top <- MCTop
  Compared <- MCCompared
  Collectors <- MCCollectors
  Done <- NoMore
  Ask <- NextDemand
  Result <- Evaluate
  Emits <- Emit
  MaxRevision = 4
  LateFiles = FALSE
  needs <- MCNeeds
  CleanBuild <- MCCleanBuild
INVARIANTS TypeOK FreshReplays Sound DiagnosticsCurrent EvaluatedForAReason
