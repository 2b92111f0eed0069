SPECIFICATION Spec
CONSTANTS
  Tasks = {t1, t2, t3}
  Init0 = t1
  Gens = {g1, g2}
  NoRegs = NoRegs
  NewImage = NewImage
SYMMETRY Symmetry
INVARIANTS
  TypeOK
  ReturnsToCaller
CHECK_DEADLOCK FALSE
