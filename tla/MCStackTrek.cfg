SPECIFICATION Spec
CONSTANTS
  Stacks = {s1, s2, s3}
  Main = Main
  Conts = {k1, k2}
  CallSites = {c1, c2}
  NoCont = NoCont
  MaxFrames = 2
  Allow = {}
SYMMETRY Symmetry
INVARIANTS TypeOK EveryoneWaits NoSharedStack SharedExchangerAlive NoUseAfterFree NoLeakedStack GCScansMainStack
PROPERTIES ResumptionsIntact ImplementsDelimitedControl
