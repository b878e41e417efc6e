SPECIFICATION SpecPravicna
CONSTANTS
  kupac = kupac
  blagajna = blagajna
  r1 = r1
  r2 = r2
  Niko = Niko
  Kartica <- MCKartica
  Analitika <- MCAnalitika
  Zahtjev <- MCZahtjev
  Nalog = {1, 2, 3}
  Stavka = {1, 2, 3, 4, 5, 6, 7, 8}
  BrojGodina = 2
  Perioda = 1
  MaxVeza = 1
  Unosi <- SamoRacun
  Iznosi = {2}
  Akcije = {"createOpening", "import", "post", "reopen", "manual", "generate", "carry"}
INVARIANT PrenosiIspravni
PROPERTIES
  ZahtjevZavrsava
