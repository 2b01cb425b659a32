SPECIFICATION Spec
CONSTANTS
  a1 = a1
  a2 = a2
  a3 = a3
  a4 = a4
  a5 = a5
  c1 = c1
  Alm = {a1, a2, a3, a4, a5}
  Cyc = {c1}
  EVTTIM_MOD = 8
  TMAX_RELTIM = 3
  TIC_NUME = 1
  TIC_DENO = 1
  cyctim <- Period
  cycphs <- Phase
  TaSta <- NoSta
  Dyn = {a1, a2, a3, a4, a5, c1}
SYMMETRY Symmetry
INVARIANTS TypeOK IndexOK HeapOrdered NotEarly NotLate
