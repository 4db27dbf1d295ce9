\* Four PAs of three types, with up to two refused calls in every operation.
CONSTANTS
  d = d  e = e  g = g  h = h  v1 = v1  v2 = v2  r1 = r1  r2 = r2  r3 = r3  NULL = NULL
  Pas = {d, e, g, h}  Virts = {v1, v2}  Remotes = {r1, r2, r3}
  TypeOf <- PaTypes  PaOf <- VirtPas  At <- RemoteAt
SPECIFICATION Spec
INVARIANT KernelIsExact
PROPERTY ErrorRestores
CHECK_DEADLOCK FALSE
