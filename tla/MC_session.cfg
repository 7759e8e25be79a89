\* Two connections to a pipeline of up to two elements that changes.
SPECIFICATION FairSpec
CONSTANTS
  Elements = {"a", "b"}
  NoFactory = {"b"}
  Enums <- FirstEnums
  MaxSessions = 2
  MaxChanges = 2
INVARIANTS TypeOK NothingSurvives FlagFollowsReader  TerminatesOnlyOnDisconnect
PROPERTIES DisconnectEnds CatchesUp
CHECK_DEADLOCK FALSE
