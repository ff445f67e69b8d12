\* Three files of up to three units; a memory option of three is no memory at all.
CONSTANTS
  p1 = p1
  p2 = p2
  p3 = p3
  NoPath = NoPath
  Paths = {p1, p2, p3}
  MaxWeight = 3
  MaxOption = 3
  Megabyte = 2
  SizeMod = 6
SPECIFICATION Spec
INVARIANTS WeightIsSum
PROPERTIES FitsLimits
