SPECIFICATION SpecEntregas
SYMMETRY Simetria
PROPERTY FinalizadoEsFinal
CONSTANTS
  ana = ana
  beto = beto
  arepa = arepa
  o1 = o1
  o2 = o2
  h1 = h1
  k1 = k1
  k2 = k2
  r1 = r1
  r2 = r2
  Usuarios = {ana, beto}
  Publicaciones = {arepa}
  Vendedor <- UnVendedor
  PedidoIds = {o1}
  Hilos = {h1}
  ClienteSerie = FALSE
  Editables = {arepa}
  Stocks = {1}
  Maximos = {1}
  Precios = {1}
  MaxUnidades = 1
  TarifaEntrega = 1
  MaxCaidas = 0
  MaxCaidasR = 0
  Lugares <- EnLasPuertas
  Nadie = Nadie
  Repartidores = {r1}
  HilosR = {k1, k2}
CHECK_DEADLOCK FALSE
