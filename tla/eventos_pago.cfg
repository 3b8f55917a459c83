SPECIFICATION SpecJusta
INVARIANTS AvisoUnico PerdidasContadas
PROPERTIES ImplementaPromesa PagoReposa
CONSTANTS
  p1 = p1
  p2 = p2
  p3 = p3
  h1 = h1
  h2 = h2
  PagoIds = {p1, p2, p3}
  Hilos = {h1, h2}
  Montos = {0, 1000000, 3000000}
  Metodos = {"nequi", "efectivo"}
  MaxFallos = 2
CHECK_DEADLOCK FALSE
