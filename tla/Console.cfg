SPECIFICATION Spec
CONSTANTS
  Ids = {i1, i2, i3, i4, i5}
  Threads = {t1, t2, t3}
SYMMETRY MCSymmetry
INVARIANTS TypeOK FlashIsWatched InflightIsReal
PROPERTIES FirmwareUndisturbed ReturnsToDetails ExitIsCovered
