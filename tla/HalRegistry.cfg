\* Two threads, one of two functions reentrant, entries for two uses.
CONSTANTS
  t1 = t1
  t2 = t2
  fn1 = fn1
  fn2 = fn2
  e1 = e1
  e2 = e2
  FreeRoot = FreeRoot
  None = None
  Threads = {t1, t2}
  Functs = {fn1, fn2}
  Reentrant = {fn2}
  Entries = {e1, e2}
  MaxUuid = 2
SPECIFICATION Spec
INVARIANTS RegistryConsistent PassSound NotReentered
SYMMETRY Symmetry
CHECK_DEADLOCK FALSE
