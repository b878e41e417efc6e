SPECIFICATION Spec
CONSTANTS
  w1 = w1
  w2 = w2
  Radnik <- MCRadnik
  Kanal <- MCKanal
  MaxPokusaja = 3
  MaxKvarova = 3
  MaxPrometa = 2
SYMMETRY Simetrija
INVARIANTS
  JedanFiskalniRacun
CHECK_DEADLOCK FALSE
