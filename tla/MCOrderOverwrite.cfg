SPECIFICATION Spec
CONSTANTS
  h1 = h1
  h2 = h2
  r1 = r1
  None = None
  Handler <- MCHandler
  Rider = {}
  Kinds = {"vendor"}
  Fault = {}
PROPERTY FollowsTheMachine
CHECK_DEADLOCK FALSE
