------------------------------ MODULE Jornadas -------------------------------
(***************************************************************************)
(* What surrounds a delivery: the courier becomes available, is shown      *)
(* orders, rejects some, and reads what each week has earned.  The stages  *)
(* that Entregas models are cut down to those that resumen tells apart;    *)
(* requests overlap as they do there, so a delivery may be finished, taken *)
(* back by a late location update, and finished again.                     *)
(***************************************************************************)
EXTENDS Integers, FiniteSets

CONSTANTS
  Repartidores,
  Encargos,       \* orders, accepted by their sellers and within the radius
  Inicio, MaxInstante,  \* bounds on the clock
  MaxEnVuelo,     \* bound on the requests in flight for one order
  MaxRefechas     \* bound on the saves that date a delivery again

\* The clock counts half days of Bogota from the midnight that begins a Sunday:
\* noon and midnight are the only moments that the rules tell apart.
ASSUME ConstantesJornadas ==
  /\ Inicio \in Nat /\ MaxInstante \in Nat /\ Inicio <= MaxInstante
  /\ MaxEnVuelo \in Nat /\ MaxRefechas \in Nat

VARIABLES
  instante,
  perfil,      \* RepartidorPerfil: activo, and whether latitud is not null
  rechazos,    \* the rows of PedidoRechazo
  listando,    \* a listing under way: {} or the orders it will exclude
  ofertas,     \* the orders last shown
  rechazando,  \* rejections past their checks
  reparto,     \* the order with its Asignacion
  llegando,    \* location updates that read EN_CAMINO_ENTREGA
  finalizando, \* requests that read LLEGO_ENTREGA and are to finish it
  historial,   \* what a summary has read: {} or {rows}
  contadas,    \* deliveries that a summary counted, with its proximo_pago
  refechas     \* saves that dated a delivery again

varsJornadas == <<instante, perfil, rechazos, listando, ofertas, rechazando, reparto, llegando,
                  finalizando, historial, contadas, refechas>>

------------------------------------------------------------------------------
(* rules.current_payout_period *)

\* datetime.weekday: Monday is 0
DiaDeLaSemana(t) == ((t \div 2) + 6) % 7

\* Mutant: Sunday morning is in the window that opens at noon.
ComienzoTemprano(t) == 2 * ((t \div 2) - ((DiaDeLaSemana(t) + 1) % 7)) + 1

ComienzoDeSemana(t) ==
  LET domingo == 2 * ((t \div 2) - ((DiaDeLaSemana(t) + 1) % 7)) + 1
  IN IF domingo > t THEN domingo - 14 ELSE domingo

ProximoPago(t) == ComienzoDeSemana(t) + 14

\* What resumen, at t, puts in the week.
EnLaSemana(f, t) == ComienzoDeSemana(t) <= f /\ f < ProximoPago(t)

------------------------------------------------------------------------------

Recorrido == {"ACEPTADO", "EN_CAMINO_ENTREGA", "LLEGO_ENTREGA", "FINALIZADO", "borrado"}
EntregaFila == [estado : Recorrido, repartidor : Repartidores \cup {"nadie"}, finalizado : SUBSET Nat]

\* Accepted and assigned to nobody; finalizado holds finalizado_en once it is not null.
SinRepartidor == [estado |-> "ACEPTADO", repartidor |-> "nadie", finalizado |-> {}]

Suya(o, r) == reparto[o].repartidor = r
Terminada(o) == reparto[o].estado = "FINALIZADO"

LasOfertas == <<perfil, rechazos, listando, ofertas, rechazando>>
LosResumenes == <<historial, contadas, refechas>>

------------------------------------------------------------------------------
(* Availability and offers *)

SetDisponibilidad(r, activo) ==
  /\ perfil' = [perfil EXCEPT ![r].activo = activo]
  /\ UNCHANGED <<instante, rechazos, listando, ofertas, rechazando, reparto, llegando, finalizando, LosResumenes>>

UpdateUbicacion(r) ==
  /\ perfil' = [perfil EXCEPT ![r].ubicado = TRUE]
  /\ UNCHANGED <<instante, rechazos, listando, ofertas, rechazando, reparto, llegando, finalizando, LosResumenes>>

\* listar_pedidos_cercanos: activo is not asked; ids_rechazados_por comes first.
IdsRechazados(r) ==
  /\ listando[r] = {}
  /\ perfil[r].ubicado
  /\ listando' = [listando EXCEPT ![r] = {{o \in Encargos : <<o, r>> \in rechazos}}]
  /\ UNCHANGED <<instante, perfil, rechazos, ofertas, rechazando, reparto, llegando, finalizando, LosResumenes>>

ListPendingNear(r) ==
  /\ \E excluidos \in listando[r] :
       ofertas' = [ofertas EXCEPT ![r] =
         {o \in Encargos \ excluidos : reparto[o] = SinRepartidor}]
  /\ listando' = [listando EXCEPT ![r] = {}]
  /\ UNCHANGED <<instante, perfil, rechazos, rechazando, reparto, llegando, finalizando, LosResumenes>>

\* rechazar_pedido
RechazarPedido(r, o) ==
  /\ reparto[o] = SinRepartidor
  /\ <<o, r>> \notin rechazando \cup rechazos
  /\ rechazando' = rechazando \cup {<<o, r>>}
  /\ UNCHANGED <<instante, perfil, rechazos, listando, ofertas, reparto, llegando, finalizando, LosResumenes>>

\* get_or_create; the foreign key refuses an order that is gone.
RegistrarRechazo(r, o) ==
  /\ <<o, r>> \in rechazando
  /\ rechazando' = rechazando \ {<<o, r>>}
  /\ rechazos' = IF reparto[o].estado = "borrado" THEN rechazos ELSE rechazos \cup {<<o, r>>}
  /\ UNCHANGED <<instante, perfil, listando, ofertas, reparto, llegando, finalizando, LosResumenes>>

\* aceptar_pedido as Entregas has it, from an order shown to the courier.
TomarOferta(r, o) ==
  /\ o \in ofertas[r]
  /\ reparto[o] = SinRepartidor
  /\ \A q \in Encargos : Suya(q, r) => Terminada(q)
  /\ reparto' = [reparto EXCEPT ![o] = [estado |-> "EN_CAMINO_ENTREGA", repartidor |-> r, finalizado |-> {}]]
  /\ UNCHANGED <<instante, LasOfertas, llegando, finalizando, LosResumenes>>

------------------------------------------------------------------------------
(* The end of a delivery, each request read and written apart *)

LeerEnCamino(o) ==
  /\ reparto[o].estado = "EN_CAMINO_ENTREGA"
  /\ llegando[o] + finalizando[o] < MaxEnVuelo
  /\ llegando' = [llegando EXCEPT ![o] = @ + 1]
  /\ UNCHANGED <<instante, LasOfertas, reparto, finalizando, LosResumenes>>

\* mark_llego_entrega, whatever the row holds by now
GuardarLlegada(o) ==
  /\ llegando[o] > 0
  /\ llegando' = [llegando EXCEPT ![o] = @ - 1]
  /\ reparto' = IF reparto[o].estado = "borrado" THEN reparto
                ELSE [reparto EXCEPT ![o].estado = "LLEGO_ENTREGA"]
  /\ UNCHANGED <<instante, LasOfertas, finalizando, LosResumenes>>

LeerLlegada(o) ==
  /\ reparto[o].estado = "LLEGO_ENTREGA"
  /\ llegando[o] + finalizando[o] < MaxEnVuelo
  /\ finalizando' = [finalizando EXCEPT ![o] = @ + 1]
  /\ UNCHANGED <<instante, LasOfertas, reparto, llegando, LosResumenes>>

\* mark_finalizado: finalizado_en is now, also the second time.
MarkFinalizado(o) ==
  /\ finalizando[o] > 0
  /\ finalizando' = [finalizando EXCEPT ![o] = @ - 1]
  /\ IF reparto[o].estado = "borrado" THEN UNCHANGED <<reparto, refechas>>
     ELSE /\ reparto' = [reparto EXCEPT ![o].estado = "FINALIZADO", ![o].finalizado = {instante}]
          /\ reparto[o].finalizado # {} => refechas < MaxRefechas
          /\ refechas' = IF reparto[o].finalizado = {} THEN refechas ELSE refechas + 1
  /\ UNCHANGED <<instante, LasOfertas, llegando, historial, contadas>>

\* The seller deletes the publication: the order goes, with its assignment and
\* the courier's history of it, earned or not (ON DELETE CASCADE).
BorrarEncargo(o) ==
  /\ reparto[o].estado # "borrado"
  /\ reparto' = [reparto EXCEPT ![o] = [SinRepartidor EXCEPT !.estado = "borrado"]]
  /\ rechazos' = {x \in rechazos : x[1] # o}
  /\ UNCHANGED <<instante, perfil, listando, ofertas, rechazando, llegando, finalizando, LosResumenes>>

------------------------------------------------------------------------------
(* resumen: the rows first, then timezone.now() *)

ListHistorial(r) ==
  /\ historial[r] = {}
  /\ historial' = [historial EXCEPT ![r] =
       {{x \in Encargos \X (Inicio .. instante) :
           Suya(x[1], r) /\ Terminada(x[1]) /\ x[2] \in reparto[x[1]].finalizado}}]
  /\ UNCHANGED <<instante, LasOfertas, reparto, llegando, finalizando, contadas, refechas>>

\* semana; hoy counts likewise the rows whose date is that of now.
Resumen(r) ==
  /\ \E finalizadas \in historial[r] :
       contadas' = contadas \cup
         {<<x[1], ProximoPago(instante)>> : x \in {x \in finalizadas : EnLaSemana(x[2], instante)}}
  /\ historial' = [historial EXCEPT ![r] = {}]
  /\ UNCHANGED <<instante, LasOfertas, reparto, llegando, finalizando, refechas>>

PasaMedioDia ==
  /\ instante < MaxInstante
  /\ instante' = instante + 1
  /\ UNCHANGED <<LasOfertas, reparto, llegando, finalizando, LosResumenes>>

------------------------------------------------------------------------------

InitJornadas ==
  /\ instante = Inicio
  /\ perfil = [r \in Repartidores |-> [activo |-> FALSE, ubicado |-> FALSE]]
  /\ rechazos = {}
  /\ listando = [r \in Repartidores |-> {}]
  /\ ofertas = [r \in Repartidores |-> {}]
  /\ rechazando = {}
  /\ reparto = [o \in Encargos |-> SinRepartidor]
  /\ llegando = [o \in Encargos |-> 0]
  /\ finalizando = [o \in Encargos |-> 0]
  /\ historial = [r \in Repartidores |-> {}]
  /\ contadas = {}
  /\ refechas = 0

Oferta(r) ==
  \/ \E activo \in BOOLEAN : SetDisponibilidad(r, activo)
  \/ UpdateUbicacion(r)
  \/ IdsRechazados(r)
  \/ ListPendingNear(r)
  \/ \E o \in Encargos : RechazarPedido(r, o) \/ RegistrarRechazo(r, o) \/ TomarOferta(r, o)

NextJornadas ==
  \/ \E r \in Repartidores : Oferta(r) \/ ListHistorial(r) \/ Resumen(r)
  \/ \E o \in Encargos :
       LeerEnCamino(o) \/ GuardarLlegada(o) \/ LeerLlegada(o) \/ MarkFinalizado(o) \/ BorrarEncargo(o)
  \/ PasaMedioDia

SpecJornadas == InitJornadas /\ [][NextJornadas]_varsJornadas

------------------------------------------------------------------------------
(* Properties *)

TypeOKJornadas ==
  /\ instante \in Inicio .. MaxInstante
  /\ perfil \in [Repartidores -> [activo : BOOLEAN, ubicado : BOOLEAN]]
  /\ rechazos \cup rechazando \subseteq Encargos \X Repartidores
  /\ listando \in [Repartidores -> {{}} \cup {{s} : s \in SUBSET Encargos}]
  /\ ofertas \in [Repartidores -> SUBSET Encargos]
  /\ reparto \in [Encargos -> EntregaFila]
  /\ llegando \in [Encargos -> Nat] /\ finalizando \in [Encargos -> Nat]
  /\ \A r \in Repartidores : \A filas \in historial[r] : filas \subseteq Encargos \X (Inicio .. instante)
  /\ contadas \subseteq Encargos \X Nat
  /\ refechas \in Nat

\* Every delivery is paid in one week and only in one: once finished it is in
\* the week that a summary shows now, or in one that has closed; the summaries
\* of different weeks count it once, but for each time it was dated again; and
\* every week is closed on a Sunday at noon.
PagoDeUnaSemana ==
  /\ \A o \in Encargos : \A f \in reparto[o].finalizado :
       EnLaSemana(f, instante) \/ ProximoPago(f) <= instante
  /\ \A o \in Encargos : Cardinality({x \in contadas : x[1] = o}) <= 1 + refechas
  /\ \A x \in contadas : x[2] % 14 = 1
=============================================================================
