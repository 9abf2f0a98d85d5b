SPECIFICATION Spec
CONSTANTS
  Nil = Nil
  bug = bug
  Bug = Bug
  wip = wip
  Label = {bug, Bug, wip}
  LowerCase <- MCLowerCase
  Suffix = 3
  Event = {"e1"}
  MaxWriteBack = 2
  Results <- MCResults
  Targets <- MCTargets
  Policies <- MCPolicies
  MaxFaults = 1
  MaxEdits = 1
INVARIANTS TypeOK WrittenWhenCompleted RepeatsAccountedFor
PROPERTIES PolicyKept ImplementsDelivery
CHECK_DEADLOCK FALSE
