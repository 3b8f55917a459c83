SPECIFICATION SpecMC
INVARIANTS
  TiposPlataforma
  RetiradaRespetada
  CacheSinSobrantes
  SugerenciaEnSuVia
  CacheGoogleAcotada
  RutaFiel
  CobroConTransaccion
  AvisosDePago
  CatalogoFresco
  PredeterminadaUnica
  BajaSinPedidosVivos
  EnlaceAcotado
  VentanaRespetada
  TocayosAcotados
  IntentosContados
  AvisosPushCompletos
  PagoDeUnaSemana
  AnunciosUbicados

CONSTANTS
  h1 = h1
  h2 = h2
  d1 = d1
  d2 = d2
  d3 = d3
  ana = ana
  beto = beto
  caro = caro
  q1 = q1
  e1 = e1
  e2 = e2
  Partes = {"nominatim", "google", "rutas", "pagos", "catalogo", "direcciones", "cuentas", "auth", "admin", "push", "jornadas", "publicaciones"}
  Hilos = {h1, h2}
  MaxReloj = 3
  Textos <- TextosMC
  PuntosConocidos <- Conocidos
  MaximoCache <- Maximos
  VigenciaCache <- Vigencias
  VigenciaVacia = 0
  Retirada = 1
  Direcciones = {d1, d2, d3}
  MaximoGoogle <- MaximosGoogle
  VigenciaGoogle <- VigenciasGoogle
  Proveedores <- ProveedoresMC
  Trazados <- TrazadosMC
  Cobradores = {h1, h2}
  Ordenes = {q1}
  Cobros = {d1, d2, d3}
  MaxReintentos = 1
  MaxTropiezos = 1
  VigenciaCatalogo = 1
  Demora = 1
  MaxVersiones = 3
  MaxSinAviso = 1
  HilosDir = {h1, h2}
  Filas = {1, 2, 3}
  MaxCruces = 1
  Correos = {ana, beto, caro}
  HilosCta = {h1, h2}
  Compras = {q1}
  Comprador <- CompradorMC
  Vendedor <- VendedorMC
  Vendedores <- VendedoresMC
  Repartidor <- RepartidorMC
  MaxClave = 4
  MaxPeticiones = 2
  Ventana = 2
  Retraso = 1
  Nombres = {d1, d2, d3}
  Plegado <- PlegadoMC
  Buzones = {d1, d2, d3}
  LimiteIntentos = 2
  VentanaAdmin = 1
  MaxPisados = 2
  Suscriptores = {ana, beto}
  Extremos = {e1, e2}
  Notificaciones = {1, 2}
  HilosPush = {h1, h2}
  MaxFallosPush = 1
  MaxCaidasPush = 1
  Repartidores = {beto, caro}
  Encargos = {q1}
  Inicio = 13
  MaxInstante = 15
  MaxEnVuelo = 2
  MaxRefechas = 1

  Anuncios = {1, 2}
  Lugares = {1, 2}
  Puntos = {0, 2}
  RadioMaximo = 1
  HilosPub = {h1, h2}
  MaxBajasPub = 1

SYMMETRY Simetria
CONSTRAINTS RelojCorto UnUso UnTexto PocosSolapes UnaClave UnContratiempo JornadaCorta
CHECK_DEADLOCK FALSE
