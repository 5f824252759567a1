SPECIFICATION PairSpec
CONSTANTS
  AddrSpace = 12
  win_base = 3
  disp_unit = 2
  TypeSizes = {1, 4}
  MaxCount = 2
  Languages = {"C", "Fortran"}
  count_at = 0
  disp_at = 0
INVARIANTS DetectsSharedBytes RemoteRacesDetected
