SPECIFICATION Spec
CONSTANTS
  StackSlots = 12
  Base = 2
  Depths <- MCDepths
  FrameSlots = 3
  EnterSlots = 2
INVARIANTS
  ChainIntact
  ResumesAtCallSite
  UserModeExact
PROPERTIES
  TerminationReturns
  TimerServed
