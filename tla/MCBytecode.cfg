SPECIFICATION Spec
CONSTANTS
  Class <- MCClass
  IsA <- MCIsA
  Callees <- MCCallees
  Certificate <- MCCertificate
  Receivers = {"A"}
  MaxDepth = 2
INVARIANTS AcceptedIsFixedPoint StatesCoverExecution VerifiedCodeIsSafe ResumedAsVerified JitStackIsTop
CHECK_DEADLOCK FALSE
