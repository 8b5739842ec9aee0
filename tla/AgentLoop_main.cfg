SPECIFICATION Spec
CONSTANTS
  None = None
  Drafts <- MCDrafts
  Replies <- MCReplies
  MaxCalls = 7
  MaxCost = 120
  MaxIterations = 5
  Floor = 3
  MinSteps = 2
  Reserve = 2
  MaxVerify = 2
INVARIANTS Bounded 
