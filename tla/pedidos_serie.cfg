CONSTANTS
  ana = ana
  beto = beto
  arepa = arepa
  bandeja = bandeja
  o1 = o1
  o2 = o2
  h1 = h1
  h2 = h2
  Usuarios = {ana, beto}
  Publicaciones = {arepa, bandeja}
  Vendedor <- DosVendedores
  PedidoIds = {o1, o2}
  Hilos = {h1, h2}
  ClienteSerie = TRUE
  Editables = {arepa}
  Stocks = {1}
  Maximos = {1}
  Precios = {1}
  MaxUnidades = 1
  TarifaEntrega = 1
  MaxCaidas = 0
  Nadie = Nadie
SPECIFICATION SpecJusta
INVARIANTS UnActivoSinResurreccion SinAtasco
PROPERTY PeticionTermina
CHECK_DEADLOCK FALSE
