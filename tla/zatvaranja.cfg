SPECIFICATION SpecJednaGodina
CONSTANTS
  kupac = kupac
  blagajna = blagajna
  r1 = r1
  r2 = r2
  Niko = Niko
  Kartica <- MCKartica
  Analitika <- MCAnalitika
  Zahtjev <- MCZahtjev
  Nalog = {1, 2}
  Stavka = {1, 2, 3, 4}
  BrojGodina = 1
  Perioda = 2
  MaxVeza = 3
  Unosi <- RacunIUplata
  Iznosi = {1, 2}
  Akcije = {"post", "reopen", "manual", "exact", "oldest", "selected", "cancel", "cancelAll"}
SYMMETRY Simetrija
INVARIANTS
  VezeIspravne
  BezPrekoracenja
PROPERTIES
  IspunjavaObecanje
  PotvrdaJePredlog
  PonistavaPrikazano
