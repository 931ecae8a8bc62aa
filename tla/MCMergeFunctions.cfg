\* Three bits and four functions: enough for an overlap that only shows in
\* the second and in the third pass.
CONSTANTS
  AddressBit = {6, 7, 8}
  MaxFunctions = 4
  Inputs <- MCInputs
SPECIFICATION Spec
INVARIANTS
  IInv
  MergedAreComponents
PROPERTY
  ImplementsOverlapMerge
