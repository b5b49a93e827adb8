\* Buffers of up to five samples, in any order.
SPECIFICATION Spec
CONSTANTS
  Times = {0, 1, 2, 3}
  Keeps = {1, 2}
  MaxLen = 5
INVARIANTS
  LoopInvariant
  UnwrapNeverPanics
  WindowKept
  SliceIsValid
  PlotCoversWindow
PROPERTIES
  TruncateMeetsContract
