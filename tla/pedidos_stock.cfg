CONSTANTS
  ana = ana
  beto = beto
  arepa = arepa
  bandeja = bandeja
  o1 = o1
  o2 = o2
  h1 = h1
  h2 = h2
  Usuarios = {ana, beto}
  Publicaciones = {arepa}
  Vendedor <- UnVendedor
  PedidoIds = {o1, o2}
  Hilos = {h1, h2}
  ClienteSerie = FALSE
  Editables = {arepa}
  Stocks = {2}
  Maximos = {1, 2}
  Precios = {2}
  MaxUnidades = 2
  TarifaEntrega = 1
  MaxCaidas = 1
  Nadie = Nadie
SPECIFICATION Spec
SYMMETRY Simetria
INVARIANTS TypeOK ConservacionStock AvisosCompletos
PROPERTY ImplementaTienda
CHECK_DEADLOCK FALSE
