SPECIFICATION Spec
CONSTANTS
  Stacks = {s1, s2, s3}
  Main = Main
  Conts = {k1, k2}
  CallSites = {c1}
  NoCont = NoCont
  MaxFrames = 2
  Allow = {"escape"}
SYMMETRY Symmetry
INVARIANT SharedExchangerAlive
