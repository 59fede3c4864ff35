SPECIFICATION Spec
CONSTANTS
  Subs = {b1, b2}
  ESims = {e1, e2}
  PSims = {p1}
  NoSim = NoSim
  MaxFailures = 1
  MaxByHand = 1
SYMMETRY Symmetry
INVARIANTS
  TypeOK
  OneOwner
  SimIsServed
PROPERTIES
  NotTaken
CHECK_DEADLOCK FALSE
