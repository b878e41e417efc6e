SPECIFICATION PetljaSpec
CONSTANTS
  k1 = k1
  k2 = k2
  Kartice <- MCKartice
  Stavke = {1, 2, 3, 4}
  Datumi = {1, 2}
  NajviseIznos = 2
INVARIANTS
  VracaPlanPoStarosti
CHECK_DEADLOCK FALSE
