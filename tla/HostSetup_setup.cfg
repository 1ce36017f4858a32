CONSTANTS
  Ids <- MCIds
  Hosts <- MCHosts
  Registered <- MCRegistered
  Requires <- MCRequires
  Conflicts <- MCConflicts
  Cases <- MCCases
  Place <- MCPlace
SPECIFICATION SetupSpec
INVARIANTS AcceptedPlanIsSound RequiredRunFirst ProduceIsPrepared HostsAgree
CHECK_DEADLOCK FALSE
