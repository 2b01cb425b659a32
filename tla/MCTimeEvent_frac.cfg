SPECIFICATION Spec
CONSTANTS
  a1 = a1
  a2 = a2
  a3 = a3
  a4 = a4
  a5 = a5
  c1 = c1
  Alm = {a1, a2, a3}
  Cyc = {c1}
  EVTTIM_MOD = 8
  TMAX_RELTIM = 3
  TIC_NUME = 3
  TIC_DENO = 2
  cyctim <- Period
  cycphs <- Phase
  TaSta <- Sta
  Dyn = {}
SYMMETRY Symmetry
INVARIANTS NotEarly NotLate LefttimOK
