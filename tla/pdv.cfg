SPECIFICATION Spec
CONSTANTS
  r1 = r1
  r2 = r2
  e1 = e1
  e2 = e2
  n1 = n1
  n2 = n2
  Niko = Niko
  Nema = Nema
  Zahtjev <- MCZahtjev
  Racun <- MCRacun
  Nalog <- MCNalog
  Mjesec = {1}
  Iznosi = {1}
  Ispravke = {0}
  Akcije = {"createEntry", "updateEntry", "deleteEntry", "postBook", "post", "reopen", "delete", "pdv", "save", "toggle"}
SYMMETRY Simetrija
INVARIANTS
  ArhivaObuhvata
  JedanNalog
PROPERTIES
  ZakljucavaUsaglaseno
  ZakljucenaGodinaMiruje
