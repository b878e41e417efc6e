SPECIFICATION SpecPrve
CONSTANTS
  p1 = p1
  p2 = p2
  r1 = r1
  r2 = r2
  v1 = v1
  v2 = v2
  Niko = Niko
  Proces <- MCProces
  Racun = {r1, r2}
  Vrsta <- MCVrsta
  Dan = {2, 3}
  Izdat <- MCIzdat
  MaxKvarova = 1
  Tokovi <- MCTokovi
INVARIANTS
  JednomAkoNijeSporno
  NezavrsenoSePrati
  VrstaSePoklapa
PROPERTIES
  SamoSvojeKnjizi
  GotovJeUvezen
  ObradaSeZavrsava
CHECK_DEADLOCK FALSE
