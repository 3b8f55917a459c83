------------------------------ MODULE Entregas -------------------------------
(***************************************************************************)
(* Delivery: couriers take accepted orders and carry them through the      *)
(* states of Asignacion.  The module composes with the market: it EXTENDS  *)
(* Pedidos, its couriers' last statement is Pedidos!MarkEntregado, and the *)
(* market's deletions cascade into its rows.                               *)
(*                                                                         *)
(* As in Pedidos, a courier's request is kept in hiloR between what it has *)
(* read and what it writes.                                                *)
(***************************************************************************)
EXTENDS Pedidos

CONSTANTS
  Repartidores,   \* accounts with es_repartidor, which neither buy nor sell
  HilosR,         \* threads that serve couriers: bound on their requests in flight
  Lugares,        \* positions reported: which of the two addresses each lies
                  \* within GEOFENCE_RADIUS_METERS of
  MaxCaidasR      \* bound on courier requests that die half way

ASSUME ConstantesEntregas ==
  /\ Nadie \notin Repartidores
  /\ Lugares \subseteq SUBSET {"recogida", "entrega"}
  /\ MaxCaidasR \in Nat

VARIABLES
  asignacion,  \* the rows of delivery_asignacion, keyed by their unique pedido
  posicion,    \* RepartidorPerfil.latitud and longitud; {} when they are null
  hiloR,       \* what each courier request has read and is about to write
  avisosR,     \* the notifications that delivery created
  caidasR      \* courier requests that died half way

varsEntregas == <<asignacion, posicion, hiloR, avisosR, caidasR>>
varsTodo == <<vars, varsEntregas>>

------------------------------------------------------------------------------
(* Rows *)

ASIGNADO == "ASIGNADO"
LLEGO_RECOGIDA == "LLEGO_RECOGIDA"
EN_CAMINO_ENTREGA == "EN_CAMINO_ENTREGA"
LLEGO_ENTREGA == "LLEGO_ENTREGA"
FINALIZADO == "FINALIZADO"

Etapas == {ASIGNADO, LLEGO_RECOGIDA, EN_CAMINO_ENTREGA, LLEGO_ENTREGA, FINALIZADO}

\* hitos: the stages whose timestamp column (asignado_en, llego_recogida_en,
\* salio_en, llego_entrega_en, finalizado_en) is not null.
Asignacion ==
  [estado : Etapas \cup {"NINGUNA"}, repartidor : Repartidores \cup {Nadie},
   hitos : SUBSET Etapas]

SinAsignacion == [estado |-> "NINGUNA", repartidor |-> Nadie, hitos |-> {}]

Asignado(o) == asignacion[o].estado \in Etapas
EntregaActiva(o, r) ==
  /\ Asignado(o)
  /\ asignacion[o].repartidor = r
  /\ asignacion[o].estado # FINALIZADO

AvisoR == [hito : Etapas, pedido : PedidoIds]

------------------------------------------------------------------------------
(* Threads *)

PeticionR ==
  [fase : {"libre"}]
  \cup [fase : {"leer", "crear", "salir", "finalizar", "cerrar"},
        repartidor : Repartidores, pedido : PedidoIds]
  \cup [fase : {"llegar"}, repartidor : Repartidores, pedido : PedidoIds,
        etapa : {LLEGO_RECOGIDA, LLEGO_ENTREGA}]
  \cup [fase : {"avisar"}, repartidor : Repartidores, para : Usuarios, aviso : AvisoR]

EntraR(k, r) ==
  /\ hiloR[k] = Libre
  /\ ClienteSerie => \A g \in HilosR : hiloR[g] # Libre => hiloR[g].repartidor # r

Pasa(k, fase) == hiloR' = [hiloR EXCEPT ![k].fase = fase]
Termina(k) == hiloR' = [hiloR EXCEPT ![k] = Libre]
PasaAAvisar(k, etapa, o) ==
  hiloR' = [hiloR EXCEPT ![k] =
    [fase |-> "avisar", repartidor |-> hiloR[k].repartidor,
     para |-> pedido[o].comprador, aviso |-> [hito |-> etapa, pedido |-> o]]]

------------------------------------------------------------------------------
(* aceptar_pedido: three reads, then the insert *)

\* Mutant: a courier with an active delivery may take another.
AceptarPedidoSiempre(k, r, o) ==
  /\ EntraR(k, r)
  /\ hiloR' = [hiloR EXCEPT ![k] = [fase |-> "leer", repartidor |-> r, pedido |-> o]]
  /\ UNCHANGED <<vars, asignacion, posicion, avisosR, caidasR>>

AceptarPedidoActivo(k, r, o) ==
  /\ EntraR(k, r)
  /\ \A q \in PedidoIds : ~EntregaActiva(q, r)
  /\ hiloR' = [hiloR EXCEPT ![k] = [fase |-> "leer", repartidor |-> r, pedido |-> o]]
  /\ UNCHANGED <<vars, asignacion, posicion, avisosR, caidasR>>

\* Mutant: any order that exists may be taken.
AceptarPedidoCualquiera(k) ==
  /\ hiloR[k].fase = "leer"
  /\ IF Existe(hiloR[k].pedido) THEN Pasa(k, "crear") ELSE Termina(k)
  /\ UNCHANGED <<vars, asignacion, posicion, avisosR, caidasR>>

AceptarPedidoLeer(k) ==
  /\ hiloR[k].fase = "leer"
  /\ IF pedido[hiloR[k].pedido].estado = "ACEPTADO" THEN Pasa(k, "crear") ELSE Termina(k)
  /\ UNCHANGED <<vars, asignacion, posicion, avisosR, caidasR>>

\* The last check and the insert refuse a second row for the order alike: one
\* with ConflictError, the other through the unique constraint.  The foreign
\* key refuses an order that was deleted meanwhile.
AceptarPedidoCrear(k) ==
  LET o == hiloR[k].pedido
  IN /\ hiloR[k].fase = "crear"
     /\ IF Existe(o) /\ ~Asignado(o)
          THEN /\ asignacion' = [asignacion EXCEPT ![o] =
                    [estado |-> ASIGNADO, repartidor |-> hiloR[k].repartidor,
                     hitos |-> {ASIGNADO}]]
               /\ PasaAAvisar(k, ASIGNADO, o)
          ELSE Termina(k) /\ UNCHANGED asignacion
     /\ UNCHANGED <<vars, posicion, avisosR, caidasR>>

------------------------------------------------------------------------------
(* The stages of a delivery *)

\* Mutant: the buyer is not told.
MarcaSinAviso(k, etapa, fase) ==
  LET o == hiloR[k].pedido
  IN /\ asignacion' = IF Asignado(o)
                        THEN [asignacion EXCEPT ![o].estado = etapa,
                                                ![o].hitos = @ \cup {etapa}]
                        ELSE asignacion
     /\ IF fase = "avisar" THEN Termina(k) ELSE Pasa(k, fase)

\* mark_*: save(update_fields) writes the stage whatever the row holds by now,
\* and raises when the row is gone.
Marca(k, etapa, fase) ==
  LET o == hiloR[k].pedido
  IN IF Asignado(o)
       THEN /\ asignacion' = [asignacion EXCEPT ![o].estado = etapa,
                                                ![o].hitos = @ \cup {etapa}]
            /\ IF fase = "avisar" THEN PasaAAvisar(k, etapa, o) ELSE Pasa(k, fase)
       ELSE Termina(k) /\ UNCHANGED asignacion

\* next_state_after_location_update: the stage an arrival leads to.
EtapaPorUbicacion(estado, lugar) ==
  IF estado = ASIGNADO /\ "recogida" \in lugar THEN LLEGO_RECOGIDA
  ELSE IF estado = EN_CAMINO_ENTREGA /\ "entrega" \in lugar THEN LLEGO_ENTREGA
  ELSE "NINGUNA"

\* actualizar_ubicacion saves the position, then reads an active assignment:
\* any one of them, .first() having no order.
ActualizarUbicacion(k, r, lugar) ==
  /\ EntraR(k, r)
  /\ posicion' = [posicion EXCEPT ![r] = lugar]
  /\ \/ /\ \A o \in PedidoIds : ~EntregaActiva(o, r)
        /\ UNCHANGED hiloR
     \/ \E o \in PedidoIds :
          /\ EntregaActiva(o, r)
          /\ LET etapa == EtapaPorUbicacion(asignacion[o].estado, lugar)
             IN IF etapa = "NINGUNA"
                  THEN UNCHANGED hiloR
                  ELSE hiloR' = [hiloR EXCEPT ![k] =
                         [fase |-> "llegar", repartidor |-> r, pedido |-> o,
                          etapa |-> etapa]]
  /\ UNCHANGED <<vars, asignacion, avisosR, caidasR>>

MarkLlego(k) ==
  /\ hiloR[k].fase = "llegar"
  /\ Marca(k, hiloR[k].etapa, "avisar")
  /\ UNCHANGED <<vars, posicion, avisosR, caidasR>>

\* Mutant: validate_can_mark_* is not called.
LeerSinValidar(k, r, o, etapa, fase) ==
  /\ EntraR(k, r)
  /\ asignacion[o].repartidor = r
  /\ hiloR' = [hiloR EXCEPT ![k] = [fase |-> fase, repartidor |-> r, pedido |-> o]]
  /\ UNCHANGED <<vars, asignacion, posicion, avisosR, caidasR>>

\* _require_own_asignacion and validate_can_mark_*
LeerPropia(k, r, o, etapa, fase) ==
  /\ EntraR(k, r)
  /\ asignacion[o].repartidor = r
  /\ asignacion[o].estado = etapa
  /\ hiloR' = [hiloR EXCEPT ![k] = [fase |-> fase, repartidor |-> r, pedido |-> o]]
  /\ UNCHANGED <<vars, asignacion, posicion, avisosR, caidasR>>

MarcarSalioRead(k, r, o) == LeerPropia(k, r, o, LLEGO_RECOGIDA, "salir")

MarkSalio(k) ==
  /\ hiloR[k].fase = "salir"
  /\ Marca(k, EN_CAMINO_ENTREGA, "avisar")
  /\ UNCHANGED <<vars, posicion, avisosR, caidasR>>

MarcarFinalizadoRead(k, r, o) == LeerPropia(k, r, o, LLEGO_ENTREGA, "finalizar")

MarkFinalizado(k) ==
  /\ hiloR[k].fase = "finalizar"
  /\ Marca(k, FINALIZADO, "cerrar")
  /\ UNCHANGED <<vars, posicion, avisosR, caidasR>>

\* Mutant: finishing the delivery forgets the order.
CerrarSinPedido(k) ==
  /\ hiloR[k].fase = "cerrar"
  /\ IF Existe(hiloR[k].pedido) THEN PasaAAvisar(k, FINALIZADO, hiloR[k].pedido)
                                ELSE Termina(k)
  /\ UNCHANGED <<vars, asignacion, posicion, avisosR, caidasR>>

\* Mutant: save() without update_fields inserts an order that is gone.
CerrarOInsertar(k) ==
  /\ hiloR[k].fase = "cerrar"
  /\ pedido' = [pedido EXCEPT ![hiloR[k].pedido].estado = "ENTREGADO"]
  /\ entregados' = entregados \cup {hiloR[k].pedido}
  /\ Termina(k)
  /\ UNCHANGED <<publicacion, hilo, avisos, caidas, perdidos, repuesto, vendidas>>
  /\ UNCHANGED <<asignacion, posicion, avisosR, caidasR>>

\* The order is closed by a statement of its own: a request that dies before it
\* leaves a finished delivery of an order that is not ENTREGADO.
CerrarPedido(k) ==
  LET o == hiloR[k].pedido
  IN /\ hiloR[k].fase = "cerrar"
     /\ IF Existe(o)
          THEN MarkEntregado(o) /\ PasaAAvisar(k, FINALIZADO, o)
          ELSE Termina(k) /\ UNCHANGED vars
     /\ UNCHANGED <<asignacion, posicion, avisosR, caidasR>>

EnviarR(k) ==
  /\ hiloR[k].fase = "avisar"
  /\ \A g \in Hilos : ~Tiene(g, hiloR[k].para)
  /\ avisosR' = avisosR \cup {hiloR[k].aviso}
  /\ Termina(k)
  /\ UNCHANGED <<vars, asignacion, posicion, caidasR>>

CaerR(k) ==
  /\ hiloR[k] # Libre
  /\ caidasR < MaxCaidasR
  /\ caidasR' = caidasR + 1
  /\ Termina(k)
  /\ UNCHANGED <<vars, asignacion, posicion, avisosR>>

------------------------------------------------------------------------------

InitEntregas ==
  /\ Init
  /\ asignacion = [o \in PedidoIds |-> SinAsignacion]
  /\ posicion = [r \in Repartidores |-> {}]
  /\ hiloR = [k \in HilosR |-> Libre]
  /\ avisosR = {}
  /\ caidasR = 0

\* Asignacion.pedido is ON DELETE CASCADE.
Cascada ==
  asignacion' = [o \in PedidoIds |->
    IF pedido'[o].estado \in EstadosPedido THEN asignacion[o] ELSE SinAsignacion]

ConCascada ==
  /\ Cascada
  /\ UNCHANGED <<posicion, hiloR, avisosR, caidasR>>

MercadoAvanza(h) == Avance(h) /\ ConCascada

Mercado ==
  \/ Catalogo /\ ConCascada
  \/ \E h \in Hilos : (Llegada(h) \/ Caer(h)) /\ ConCascada
  \/ \E h \in Hilos : MercadoAvanza(h)

LlegadaR(k) ==
  \E r \in Repartidores :
    \/ \E o \in PedidoIds :
         \/ AceptarPedidoActivo(k, r, o)
         \/ MarcarSalioRead(k, r, o)
         \/ MarcarFinalizadoRead(k, r, o)
    \/ \E lugar \in Lugares : ActualizarUbicacion(k, r, lugar)

AvanceR(k) ==
  \/ AceptarPedidoLeer(k)
  \/ AceptarPedidoCrear(k)
  \/ MarkLlego(k)
  \/ MarkSalio(k)
  \/ MarkFinalizado(k)
  \/ CerrarPedido(k)
  \/ EnviarR(k)

NextEntregas ==
  \/ Mercado
  \/ \E k \in HilosR : LlegadaR(k) \/ AvanceR(k) \/ CaerR(k)

SpecEntregas == InitEntregas /\ [][NextEntregas]_varsTodo

------------------------------------------------------------------------------
(* Properties *)

\* A courier only ever carries an order that the seller accepted, although the
\* order is read in one statement and assigned in a later one.
AsignadoFueAceptado ==
  \A o \in PedidoIds : Asignado(o) => pedido[o].estado \in {"ACEPTADO", "ENTREGADO"}

\* No stage of a delivery has its time set while an earlier one has none, even
\* when late writes of overlapping requests take the stage itself back.
HitosEnOrden ==
  \A o \in PedidoIds :
    LET hitos == asignacion[o].hitos
    IN /\ Asignado(o) => asignacion[o].estado \in hitos
       /\ FINALIZADO \in hitos => LLEGO_ENTREGA \in hitos
       /\ LLEGO_ENTREGA \in hitos => EN_CAMINO_ENTREGA \in hitos
       /\ EN_CAMINO_ENTREGA \in hitos => LLEGO_RECOGIDA \in hitos
       /\ LLEGO_RECOGIDA \in hitos => ASIGNADO \in hitos

\* Couriers who race for an order: the one who obtained it keeps it.
RepartidorEstable ==
  [][\A o \in PedidoIds : Asignado(o) /\ Asignado(o)'
       => asignacion'[o].repartidor = asignacion[o].repartidor]_asignacion

\* A finished delivery has closed its order, or is about to; only a request
\* that died between the two statements leaves the order open.
FinalizadoCierra ==
  Cardinality({o \in PedidoIds :
    /\ FINALIZADO \in asignacion[o].hitos
    /\ o \notin entregados
    /\ ~\E k \in HilosR : hiloR[k].fase = "cerrar" /\ hiloR[k].pedido = o}) <= caidasR

InformadoR(etapa, o) ==
  LET a == [hito |-> etapa, pedido |-> o]
  IN \/ a \in avisosR
     \/ \E k \in HilosR :
          \/ hiloR[k].fase = "avisar" /\ hiloR[k].aviso = a
          \/ etapa = FINALIZADO /\ hiloR[k].fase = "cerrar" /\ hiloR[k].pedido = o

\* The buyer is told of every stage, save where the request died before the
\* notice was sent.
AvisosEntregaCompletos ==
  Cardinality({x \in PedidoIds \X Etapas :
    x[2] \in asignacion[x[1]].hitos /\ ~InformadoR(x[2], x[1])}) <= caidasR

\* The composition is an implementation of the market alone: whatever couriers
\* do to an order is a Reparto step, which Pedidos expects.
ImplementaPedidos == Spec

\* With couriers whose app sends one request at a time, the handlers keep the
\* promise of CicloEntrega: one order per courier, stages one by one, none back.
Ciclo == INSTANCE CicloEntrega WITH
  Pedidos <- PedidoIds,
  etapa <- [o \in PedidoIds |-> asignacion[o].estado],
  quien <- [o \in PedidoIds |-> asignacion[o].repartidor]

ImplementaCiclo == Ciclo!Spec

\* CHANGELOG.md:34, "máquina de 5 estados" that ends in FINALIZADO, and
\* delivery/tests.py:78, where no location update leads out of it: a finished
\* delivery stays finished.
FinalizadoEsFinal ==
  [][\A o \in PedidoIds : asignacion[o].estado = FINALIZADO
       => asignacion'[o].estado \in {FINALIZADO, "NINGUNA"}]_asignacion
=============================================================================
