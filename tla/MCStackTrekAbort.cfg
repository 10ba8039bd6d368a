SPECIFICATION Spec
CONSTANTS
  Stacks = {s1, s2}
  Main = Main
  Conts = {k1, k2}
  CallSites = {c1}
  NoCont = NoCont
  MaxFrames = 3
  Allow = {"abort_across"}
SYMMETRY Symmetry
INVARIANTS EveryoneWaits NoSharedStack SharedExchangerAlive NoUseAfterFree GCScansMainStack
PROPERTIES ImplementsDelimitedControl
