SPECIFICATION Spec
CONSTANTS
  Capacity = 4
  Values = {a, b}
  NoByte = NoByte
  Uses <- AllUses
INVARIANT TypeOK
INVARIANT IndicesSound
INVARIANT QueriesAgree
PROPERTY IsQueue
CHECK_DEADLOCK FALSE
