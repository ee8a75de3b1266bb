CONSTANTS
  Keys = {1, 2, 17}
  HashOf <- MCHashOf
  Sets = {s1, s2}
  Iters = {i1, i2}
  BitSizes = {0}
  DEFAULT_HASH_SET_BIT_SIZE = 2

SPECIFICATION Spec

INVARIANTS
  TypeOK
  IterationVisitsEachOnce

PROPERTIES
  ImplementsAbstractSet
