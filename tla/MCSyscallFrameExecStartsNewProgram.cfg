SPECIFICATION Spec
CONSTANTS
  Tasks = {t1, t2, t3}
  Init0 = t1
  Gens = {g1, g2}
  NoRegs = NoRegs
  NewImage = NewImage
INVARIANT ExecStartsNewProgram
CHECK_DEADLOCK FALSE
