---------------------------- MODULE MCPlataforma -----------------------------
(***************************************************************************)
(* The components that share no state with the others nor with each other: *)
(* a behaviour runs one of them, chosen at the start among Partes.         *)
(***************************************************************************)
EXTENDS Geocodificacion, GeoGoogle, Rutas, Pagos, Catalogo, Direcciones, Cuentas,
        AuthServicio, LimiteAdmin, AvisosPush, Jornadas, Publicaciones, TLC

CONSTANTS h1, h2, d1, d2, d3, ana, beto, caro, q1, e1, e2,
  Partes

Vacio == [via |-> "calle", letra |-> FALSE, casa |-> "", gato |-> FALSE, guion |-> FALSE,
          abrev |-> FALSE, prefijo |-> FALSE, medellin |-> FALSE, pais |-> FALSE,
          otraVia |-> FALSE]

\* "cl 5 #80c125", "Calle 80C", "Universidad EAFIT"
Placa == [Vacio EXCEPT !.casa = "LP", !.gato = TRUE, !.abrev = TRUE]
ViaConLetra == [Vacio EXCEPT !.letra = TRUE]
Eafit == [Vacio EXCEPT !.via = "lugar", !.prefijo = TRUE]

TextosMC == {Placa, ViaConLetra, Eafit}
Conocidos == {Eafit}
Maximos == [u \in Usos |-> 1]
Vigencias == [u \in Usos |-> 1]
\* Cobros, Direcciones, Nombres and Buzones are the same values.
Simetria == Permutations(Hilos) \cup Permutations(Cobros)

MaximosGoogle == [u \in Consultas |-> 1]
VigenciasGoogle == [u \in Consultas |-> 1]

\* Differences around one, two and three groups of five bits, and each sign.
Coordenadas == {-513, -512, -17, -16, 0, 15, 16, 511, 512}
ProveedoresMC == <<"google", "osrm", "valhalla">>
TrazadosMC ==
  UNION {LET p == <<a, b>>
             q == <<b, a>>
         IN {<<<<p, q>>>>, <<<<p, q>>, <<q, p>>>>, <<<<p, q>>, <<p, q>>>>, <<<<p, q>>, <<>>, <<q, p>>>>,
             <<<<p, p, q>>, <<q, q, p>>>>} :
           a, b \in Coordenadas}

\* An order with dishes of two sellers, one of whom delivers.
CompradorMC == [p \in {q1} |-> ana]
VendedorMC == [p \in {q1} |-> beto]
VendedoresMC == [p \in {q1} |-> {beto, caro}]
RepartidorMC == [p \in {q1} |-> caro]

\* "Ana", "ana", "ANA" as typed
PlegadoMC == [n \in Nombres |-> "ana"]

VARIABLE parte

InitMC ==
  /\ parte \in Partes
  /\ InitGeo
  /\ InitGoogle
  /\ InitRutas
  /\ InitPagos
  /\ InitCatalogo
  /\ InitDirecciones
  /\ InitCuentas
  /\ InitAuth
  /\ InitAdmin
  /\ InitPush
  /\ InitJornadas
  /\ InitPub

\* What each component has besides the clock.
EstadoGeo == <<cache, retiradaHasta, consulta, insistencias, recorridos, solapes>>
EstadoGoogle == <<guardadas, pedido>>
EstadoRutas == ruta
EstadoPagos == varsPagos
EstadoCatalogo == <<desde, enCache, lector, sinAviso>>
EstadoDirecciones == varsDirecciones
EstadoCuentas == varsCuentas
EstadoAuth == <<hits, llamada, pasadas, usuarios>>
EstadoAdmin == <<contador, intento, pasados, pisados>>
EstadoPush == varsPush
EstadoJornadas == varsJornadas
EstadoPub == varsPub

NextMC ==
  /\ UNCHANGED parte
  /\ \/ /\ parte = "nominatim"
        /\ NextGeo
        /\ UNCHANGED <<EstadoGoogle, EstadoRutas, EstadoPagos, EstadoCatalogo,
                       EstadoDirecciones, EstadoCuentas, EstadoAuth, EstadoAdmin,
                       EstadoPush, EstadoJornadas, EstadoPub>>
     \/ /\ parte = "google"
        /\ NextGoogle
        /\ UNCHANGED <<EstadoGeo, EstadoRutas, EstadoPagos, EstadoCatalogo,
                       EstadoDirecciones, EstadoCuentas, EstadoAuth, EstadoAdmin,
                       EstadoPush, EstadoJornadas, EstadoPub>>
     \/ /\ parte = "rutas"
        /\ NextRutas
        /\ UNCHANGED <<reloj, EstadoGeo, EstadoGoogle, EstadoPagos, EstadoCatalogo,
                       EstadoDirecciones, EstadoCuentas, EstadoAuth, EstadoAdmin,
                       EstadoPush, EstadoJornadas, EstadoPub>>
     \/ /\ parte = "pagos"
        /\ NextPagos
        /\ UNCHANGED <<reloj, EstadoGeo, EstadoGoogle, EstadoRutas, EstadoCatalogo,
                       EstadoDirecciones, EstadoCuentas, EstadoAuth, EstadoAdmin,
                       EstadoPush, EstadoJornadas, EstadoPub>>
     \/ /\ parte = "catalogo"
        /\ NextCatalogo
        /\ UNCHANGED <<EstadoGeo, EstadoGoogle, EstadoRutas, EstadoPagos, EstadoDirecciones,
                       EstadoCuentas, EstadoAuth, EstadoAdmin, EstadoPush, EstadoJornadas,
                       EstadoPub>>
     \/ /\ parte = "direcciones"
        /\ NextDirecciones
        /\ UNCHANGED <<reloj, EstadoGeo, EstadoGoogle, EstadoRutas, EstadoPagos,
                       EstadoCatalogo, EstadoCuentas, EstadoAuth, EstadoAdmin, EstadoPush,
                       EstadoJornadas, EstadoPub>>
     \/ /\ parte = "cuentas"
        /\ NextCuentas
        /\ UNCHANGED <<reloj, EstadoGeo, EstadoGoogle, EstadoRutas, EstadoPagos,
                       EstadoCatalogo, EstadoDirecciones, EstadoAuth, EstadoAdmin,
                       EstadoPush, EstadoJornadas, EstadoPub>>
     \/ /\ parte = "auth"
        /\ NextAuth
        /\ UNCHANGED <<EstadoGeo, EstadoGoogle, EstadoRutas, EstadoPagos, EstadoCatalogo,
                       EstadoDirecciones, EstadoCuentas, EstadoAdmin, EstadoPush,
                       EstadoJornadas, EstadoPub>>
     \/ /\ parte = "admin"
        /\ NextAdmin
        /\ UNCHANGED <<EstadoGeo, EstadoGoogle, EstadoRutas, EstadoPagos, EstadoCatalogo,
                       EstadoDirecciones, EstadoCuentas, EstadoAuth, EstadoPush,
                       EstadoJornadas, EstadoPub>>
     \/ /\ parte = "push"
        /\ NextPush
        /\ UNCHANGED <<reloj, EstadoGeo, EstadoGoogle, EstadoRutas, EstadoPagos,
                       EstadoCatalogo, EstadoDirecciones, EstadoCuentas, EstadoAuth,
                       EstadoAdmin, EstadoJornadas, EstadoPub>>
     \/ /\ parte = "jornadas"
        /\ NextJornadas
        /\ UNCHANGED <<reloj, EstadoGeo, EstadoGoogle, EstadoRutas, EstadoPagos,
                       EstadoCatalogo, EstadoDirecciones, EstadoCuentas, EstadoAuth,
                       EstadoAdmin, EstadoPush, EstadoPub>>
     \/ /\ parte = "publicaciones"
        /\ NextPub
        /\ UNCHANGED <<reloj, EstadoGeo, EstadoGoogle, EstadoRutas, EstadoPagos,
                       EstadoCatalogo, EstadoDirecciones, EstadoCuentas, EstadoAuth,
                       EstadoAdmin, EstadoPush, EstadoJornadas>>

varsMC ==
  <<parte, reloj, EstadoGeo, EstadoGoogle, EstadoRutas, EstadoPagos, EstadoCatalogo,
    EstadoDirecciones, EstadoCuentas, EstadoAuth, EstadoAdmin, EstadoPush, EstadoJornadas, EstadoPub>>

SpecMC == InitMC /\ [][NextMC]_varsMC

\* The type invariants of the components: an endpoint is subscribed for one
\* account at most, courier summaries hold deliveries that were due by then.
TiposPlataforma ==
  /\ parte = "nominatim" => TypeOKGeo
  /\ parte = "google" => TypeOKGoogle
  /\ parte = "pagos" => TypeOKPagos
  /\ parte = "catalogo" => TypeOKCatalogo
  /\ parte = "direcciones" => TypeOKDirecciones
  /\ parte = "cuentas" => TypeOKCuentas
  /\ parte = "auth" => TypeOKAuth
  /\ parte = "admin" => TypeOKAdmin
  /\ parte = "push" => TypeOKPush
  /\ parte = "jornadas" => TypeOKJornadas
  /\ parte = "publicaciones" => TypeOKPub

\* Bounds.  The stores that overlap, none after a 429; and one of two caches in
\* a behaviour, used alone once it holds something.
PocosSolapes == \A u \in Usos : solapes[u] <= IF retiradaHasta > 0 THEN 0 ELSE 1
UnUso ==
  /\ \A u \in Usos : Claves(u) # {} =>
       \A h \in Hilos : consulta[h] # Libre => consulta[h].uso = u
  /\ \E u \in Consultas : \A h \in Hilos : pedido[h] # Ocioso => pedido[h].uso = u
  /\ \E u \in Consultas : DOMAIN guardadas[u] = {}
\* Beside the known place, one text is asked for or kept at a time.
UnTexto ==
  Cardinality({Placa, ViaConLetra} \cap
    ({consulta[h].texto : h \in {h \in Hilos : consulta[h] # Libre}}
       \cup UNION {Claves(u) : u \in Usos})) <= 1
\* The clock of the components whose hazards need fewer ticks stops at 2.
RelojCorto == reloj = MaxReloj => parte \in {"catalogo", "auth", "admin"}

\* One account whose password changes or that is created again; where links are
\* sent, neither orders nor requests of another account.  One account is gone
\* where an order was placed, and none was made again where a courier has it.
UnaClave ==
  LET conEnlace == {e[1] : e \in enlaces}
  IN /\ Cardinality({u \in Correos : clave[u] > 1} \cup conEnlace) <= 1
     /\ conEnlace = {} => \A u \in Correos : clave[u] <= 2
     /\ conEnlace # {} =>
          /\ \A p \in Compras : compra[p] = "no hay"
          /\ \A h \in HilosCta : operacion[h] # Desocupado => operacion[h].correo \in conEnlace
     /\ \A p \in Compras :
          /\ compra[p] # "no hay" => Cardinality(Correos \ cuentas) <= 1
          /\ entrega[p] # "no hay" => \A u \in Correos : clave[u] = 1

\* One push or one thread fails, and one notice is read.
UnContratiempo ==
  /\ fallosPush + caidasPush <= 1
  /\ notificacion[2] # "leida"

\* Offers are dealt with in the first half day, by couriers who are available
\* before their position is known, one of them rejects one, and summaries are
\* read by those who deliver.
JornadaCorta ==
  /\ \A r \in Repartidores :
       /\ perfil[r].ubicado => perfil[r].activo
       /\ instante > Inicio => listando[r] = {}
       /\ historial[r] # {} => \E o \in Encargos : Suya(o, r)
  /\ instante > Inicio => rechazando = {}
  /\ Cardinality(rechazando \cup rechazos) <= 1
=============================================================================
