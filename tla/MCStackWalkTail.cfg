SPECIFICATION Spec
CONSTANTS
  EFFECT_NUM = 2
  Ids = {1, 2}
  NoHandler = NoHandler
  MaxFrames = 5
  MaxCaps = 1
  MaxLabels = 1
  MaxNames = 1
  Allow = {"tail_insts"}
INVARIANTS
  WalkFindsLexicalHandler
