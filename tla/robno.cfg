SPECIFICATION Spec
CONSTANTS
  m1 = m1
  m2 = m2
  a = a
  b = b
  r1 = r1
  r2 = r2
  Magacin <- MagacinMC
  Artikal <- ArtikalMC
  Dokument <- DokumentMC
  Vrsta <- VrstaMC
  Mjesto <- MjestoMC
  Odrediste <- OdredisteMC
  Izvor <- IzvorMC
  Roba <- RobaMC
  Kolicina = {1}
  DozvoliMinus = {TRUE, FALSE}
  Zahtjev <- ZahtjevMC
  MaxDokumenata = 3
SYMMETRY Simetrija
INVARIANTS LagerPratiPromet KretanjePratiDokument VraceniNePrelaze
PROPERTIES PopisUskladjuje ZakljucenaGodinaBezNabavke
