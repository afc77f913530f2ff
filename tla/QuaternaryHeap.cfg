SPECIFICATION Spec
CONSTANTS
  a = a
  b = b
  c = c
  d = d
  e = e
  f = f
  Nothing = Nothing
  Yes = Yes
  Id <- SixIds
  Time <- Times
  Wanted <- AllOrDefault
  MaxLen = 6
SYMMETRY Interchangeable
INVARIANTS WellFormed
PROPERTY ImplementsDueQueue
