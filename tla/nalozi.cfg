SPECIFICATION SpecJednaGodina
CONSTANTS
  kupac = kupac
  blagajna = blagajna
  r1 = r1
  r2 = r2
  Niko = Niko
  Kartica <- MCKartica
  Analitika <- MCAnalitika
  Zahtjev <- MCZahtjev
  Nalog = {1, 2}
  Stavka = {1, 2, 3, 4, 5, 6}
  BrojGodina = 1
  Perioda = 1
  MaxVeza = 1
  Unosi <- RacunINebalansiran
  Iznosi = {2}
  Akcije = {"create", "update", "createOpening", "import", "post", "reopen", "delete", "toggle", "manual"}
SYMMETRY Simetrija
INVARIANTS
  TypeOK
  JednoPocetno
PROPERTIES
  ZasticeneStavkeMiruju
  KnjiziSamoIspravno
