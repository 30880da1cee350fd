\* Two rows of four types, ten parameters, both formats and mixed ones.
SPECIFICATION Spec
CONSTANTS
  Null = Null
  Portals <- MCPortals
  Results <- MCResults
  TypeOf <- MCTypeOf
INVARIANTS
  ArgumentsArrive
  SubstitutedInPlace
  RowsArrive
