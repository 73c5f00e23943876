SPECIFICATION Spec
CONSTANTS
  JumpMod = 256
  Raws <- MCRaws
  Attrs <- MCAttrs
  Machines <- MCMachines
  Inside <- MCInside
INVARIANTS FilterDecides RunsAsDescribed
PROPERTIES StartableRuns
CHECK_DEADLOCK FALSE
