SPECIFICATION CallsAndSituations
CONSTANTS
  Tools <- AllTools
  WriteTools <- AllWriteTools
  DryRunTools <- AllDryRunTools
  DirectTools <- AllDirectTools
  CopyTools <- AllCopyTools
  MoveTools <- AllMoveTools
  PushTools <- AllPushTools
  HeldTools <- AllHeldTools
  RehearsingTools <- AllRehearsingTools
  ScopedTools <- kubernetesWriteTools
  GuardedTools <- AllGuardedTools
  SessionTools <- AllSessionTools
  PathTools <- AllPathTools
  Probes <- AllProbes
  LateChecks <- AllLateChecks
  StreamModes = {"stream"}
  BlindModes <- AllBlindModes
  PrunedModes = {"linked directory"}
  Steps <- ToolboxSteps
  Modes <- ToolboxModes
  MaxOthers = 1
  MaxChunks = 2
  PipeSize = 1
INVARIANTS TypeOK OnlyAuthorizedChanges RefusedCallsChangeNothing AuditedOnce AnswersAreTrue MovesLoseNothing AuditWaitsForReaderOnly EveryToolObeys
 
CHECK_DEADLOCK FALSE
