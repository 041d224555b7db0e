SPECIFICATION Spec
CONSTANTS
  Agents = {1, 2, 3}
  Targets = {"a.js", "./a.js"}
  FileOf <- OneFile
  Proposable <- Proposals
  MaxOps = 4
  CapsOf <- Overlapping
  Required <- Tasks
  Requested <- Waits
  MaxTeam = 3
INVARIANTS ReviewedSettlesFiles OrderIsTopological
PROPERTIES TeamOrCause
CHECK_DEADLOCK FALSE
