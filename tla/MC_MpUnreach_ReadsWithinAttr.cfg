CONSTANTS
  Attrs <- MC_Attrs
  Garbage <- MC_Garbage
SPECIFICATION Spec
CHECK_DEADLOCK FALSE
INVARIANTS
  ReadsWithinAttr
