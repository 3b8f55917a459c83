CONSTANTS
  ana = ana
  beto = beto
  arepa = arepa
  bandeja = bandeja
  o1 = o1
  o2 = o2
  h1 = h1
  h2 = h2
  Usuarios = {ana, beto}
  Publicaciones = {arepa, bandeja}
  Vendedor <- DosVendedores
  PedidoIds = {o1}
  Hilos = {h1, h2}
  ClienteSerie = FALSE
  Editables = {arepa, bandeja}
  Stocks = {2}
  Maximos = {2}
  Precios = {1, 2}
  MaxUnidades = 2
  TarifaEntrega = 1
  MaxCaidas = 0
  Nadie = Nadie
SPECIFICATION Spec
SYMMETRY Simetria
INVARIANTS IntegridadReferencial TotalCubreItems
CHECK_DEADLOCK FALSE
