CONSTANTS
  viewer = viewer
  prompt = prompt
  None = None
  Callers = {viewer, prompt}
  Script <- Mixed
  Sequenced = {viewer, prompt}
  PIECE = 2
  WINDOW = 2
  QUEUE = 1
  MAX_PASTE = 2
  MAX_ANSWERS = 2
  Answers = 1
  MaxLosses = 2
SPECIFICATION Spec
CHECK_DEADLOCK FALSE
INVARIANTS
  Consistent
  FatesHonest
  StreamSound
