SPECIFICATION Spec
CONSTANTS
  MaxRevision = 3
  MaxAttempts = 2
INVARIANTS
  HeardAsItself
  RoutesKeepTheDesign
  OutageIsNotARefusal
  AppliedOnce
