SPECIFICATION Spec
SYMMETRY Simetria
INVARIANTS CalificadoGuardado DuplicadosContados ReputacionDeUnaLista
CONSTANTS
  o1 = o1
  o2 = o2
  o3 = o3
  ana = ana
  beto = beto
  caro = caro
  h1 = h1
  h2 = h2
  PedidoIds = {o1, o2}
  Compradores = {ana, beto}
  Vendedores = {caro}
  Comprador <- DosCompradores
  Vendedor <- UnVendedor
  Hilos = {h1, h2}
  ClienteSerie = TRUE
  Puntuaciones = {2, 5}
  MaxFallos = 2
CHECK_DEADLOCK FALSE
