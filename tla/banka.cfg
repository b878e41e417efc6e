\* Two statements attached to one message; the first pays an invoice of 2.
SPECIFICATION Spec
CONSTANTS
  Izvod = {1, 2}
  r1 = r1
  r2 = r2
  Dirani = {1}
  MaxOstalo = 1
  Radnik <- Radnici
  Uplata <- UplataMC
  SaPartnerom = {1}
  Dug = 2
  UKnjizi = TRUE
  Poruka = {1}
  Prilozi <- PriloziMC
  MaxPrekida = 1
SYMMETRY Simetrija
INVARIANTS NalogPratiIzvod StatusPlacanja ObradjenaJeUvezena
PROPERTIES NeVracaRasknjizen ZakljuceniIzvodiMiruju
