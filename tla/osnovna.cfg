\* A machine depreciated by its usage, a vehicle in use, depreciated by time.
SPECIFICATION Spec
CONSTANTS
  r1 = r1
  r2 = r2
  masina = masina
  vozilo = vozilo
  Sredstvo <- SredstvoMC
  PoUcinku = {masina}
  Zatecena = {vozilo}
  BrojPerioda = 2
  Godina = {1}
  GodinaOd <- GodinaMC
  Obracun = {1, 2, 3}
  PeriodOd <- OdMC
  PeriodDo <- DoMC
  Zahtjev <- ZahtjevMC
  MaxIzmjena = 2
SYMMETRY Simetrija
INVARIANTS PokriceBezRupa ProknjizenoVazi ProdatoAmortizovano IzvorOstajeProknjizen
