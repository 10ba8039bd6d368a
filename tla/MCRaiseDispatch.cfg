SPECIFICATION Spec
CONSTANTS
  NENV = 2
  Funs = {f1, f2}
  Vals = {v1, v2}
  MaxDefs = 4
  MaxEnv = 3
  MaxArgs = 4
  Allow = {"three_operations"}
INVARIANTS
  OperationGetsItsArguments
CHECK_DEADLOCK FALSE
