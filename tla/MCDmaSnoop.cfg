CONSTANTS
  a = a
  b = b
  s = s
  Lines <- MCLines
  Staging <- MCStaging
  Bytes = {1, 2}
  NSub = 2
  Vals = {0, 1}
  Masks <- MCMasks
  Accesses <- MCAccesses
SPECIFICATION Spec
INVARIANTS TypeOK ShimContract
PROPERTIES Coherent
