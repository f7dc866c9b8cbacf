SPECIFICATION Spec
CONSTANTS
  session_bridge = session_bridge
  Bridges <- MCBridges
  Names <- MCNames
  Login = session_bridge
  MaxSessions = 2
  Prompt = {p1, p2}
  Capacity = 1
INVARIANT NothingOutlives
INVARIANT NamesTogether
INVARIANT NoBridgeLost
INVARIANT AnswerUnderWay
INVARIANT OneSignalPerPrompt
PROPERTY SommelierFindsAsh
PROPERTY SessionEnds
PROPERTY EveryPromptAnswered
CHECK_DEADLOCK FALSE
