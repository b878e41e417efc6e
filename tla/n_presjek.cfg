\* The open item is a line without a book entry, for example of a journal made by hand.
SPECIFICATION Spec
CONSTANTS
  Izvod = {1, 2}
  r1 = r1
  r2 = r2
  Dirani = {1, 2}
  MaxOstalo = 2
  Radnik <- Radnici
  Uplata <- UplataMC
  SaPartnerom = {1, 2}
  Dug = 2
  UKnjizi = FALSE
  Poruka = {}
  Prilozi <- PriloziNista
  MaxPrekida = 0
SYMMETRY Simetrija
INVARIANT BezDvostrukogZatvaranja
