-------------------------- MODULE Entregas_proofs ---------------------------
(***************************************************************************)
(* Theorems about module Entregas, for any couriers, orders, threads and   *)
(* positions.  The market's invariant IInv is one of the conjuncts of that *)
(* of the composition: a courier's step is a step of the market, so the    *)
(* theorems of Pedidos_proofs hold of the composition as well.             *)
(***************************************************************************)
EXTENDS Entregas, Pedidos_proofs, Sequences

USE ConstantesEntregas

------------------------------------------------------------------------------
(* The inductive invariant *)

\* An order that was accepted is not pending again, whatever happens to it.
Reservado(o) == pedido[o].estado \in {"ACEPTADO", "ENTREGADO", "BORRADO"}

TiposR ==
  /\ asignacion \in [PedidoIds -> Asignacion]
  /\ hiloR \in [HilosR -> PeticionR]
  /\ caidasR \in Nat

\* An order without a delivery has no trace of one.
SinFila == \A o \in PedidoIds : ~Asignado(o) => asignacion[o] = SinAsignacion

\* The stage that was reached before a request is in its phase.
Previa(t) ==
  CASE t.fase = "llegar" -> IF t.etapa = LLEGO_RECOGIDA THEN ASIGNADO ELSE EN_CAMINO_ENTREGA
    [] t.fase = "salir" -> LLEGO_RECOGIDA
    [] t.fase = "finalizar" -> LLEGO_ENTREGA
    [] OTHER -> FINALIZADO

\* What a request read of its order still holds, or the order is gone.
Vale(t) ==
  /\ t.fase = "crear" => Reservado(t.pedido)
  /\ t.fase \in {"llegar", "salir", "finalizar", "cerrar"} =>
       pedido[t.pedido].estado = "BORRADO" \/ Previa(t) \in asignacion[t.pedido].hitos

IInvR ==
  /\ TiposR
  /\ SinFila
  /\ AsignadoFueAceptado
  /\ HitosEnOrden
  /\ \A k \in HilosR : Vale(hiloR[k])

IInvEntregas == IInv /\ IInvR

------------------------------------------------------------------------------
(* Lemmas *)

LEMMA EsR ==
  ASSUME NEW t \in PeticionR
  PROVE  /\ t.fase \in {"leer", "crear", "salir", "finalizar", "cerrar", "llegar"} =>
              t.pedido \in PedidoIds /\ t.repartidor \in Repartidores
         /\ t.fase = "llegar" => t.etapa \in {LLEGO_RECOGIDA, LLEGO_ENTREGA}
         /\ t.fase = "avisar" => t.aviso \in AvisoR /\ t.repartidor \in Repartidores
         /\ t = Libre <=> t.fase = "libre"
BY DEF PeticionR, Libre

LEMMA TiposDePeticion ==
  /\ Libre \in PeticionR /\ Libre.fase = "libre"
  /\ \A f \in {"leer", "crear", "salir", "finalizar", "cerrar"}, r \in Repartidores, o \in PedidoIds :
       [fase |-> f, repartidor |-> r, pedido |-> o] \in PeticionR
  /\ \A r \in Repartidores, o \in PedidoIds, e \in {LLEGO_RECOGIDA, LLEGO_ENTREGA} :
       [fase |-> "llegar", repartidor |-> r, pedido |-> o, etapa |-> e] \in PeticionR
  /\ \A r \in Repartidores, u \in Usuarios, o \in PedidoIds, e \in Etapas :
       [fase |-> "avisar", repartidor |-> r, para |-> u, aviso |-> [hito |-> e, pedido |-> o]] \in PeticionR
BY DEF PeticionR, Libre, AvisoR

LEMMA PasaTipo ==
  ASSUME NEW t \in PeticionR, NEW f \in {"crear", "cerrar"}, t.fase \in {"leer", "finalizar"}
  PROVE  [t EXCEPT !.fase = f] = [fase |-> f, repartidor |-> t.repartidor, pedido |-> t.pedido]
BY DEF PeticionR

\* What a courier's step does to the threads.
LEMMA OtroHilo ==
  ASSUME TiposR, NEW k \in HilosR, NEW t \in PeticionR, hiloR' = [hiloR EXCEPT ![k] = t]
  PROVE  /\ hiloR' \in [HilosR -> PeticionR]
         /\ hiloR'[k] = t
         /\ \A g \in HilosR : g = k \/ hiloR'[g] = hiloR[g]
BY DEF TiposR

\* An assigned order is in the hands of the market's live rows: it exists, it
\* has a buyer, and a notice to that buyer can be made.
LEMMA AsignadoExiste ==
  ASSUME IInvEntregas, NEW o \in PedidoIds, Asignado(o)
  PROVE  Existe(o) /\ pedido[o].comprador \in Usuarios
<1>1. Existe(o)
  BY DEF IInvEntregas, IInvR, AsignadoFueAceptado, Existe, EstadosPedido
<1> QED BY <1>1 DEF IInvEntregas, IInv, IntegridadReferencial

\* A deleted order has no delivery.
LEMMA BorradoSinAsignacion ==
  ASSUME IInvR, NEW o \in PedidoIds, pedido[o].estado = "BORRADO"
  PROVE  ~Asignado(o) /\ asignacion[o] = SinAsignacion /\ asignacion[o].hitos = {}
<1>1. ~Asignado(o)
  BY DEF IInvR, AsignadoFueAceptado
<1>2. asignacion[o] = SinAsignacion
  BY <1>1 DEF IInvR, SinFila
<1> QED BY <1>1, <1>2 DEF SinAsignacion

\* A request goes on holding what it read when stages are only added and
\* accepted orders stay so.
LEMMA SigueValiendo ==
  ASSUME NEW t \in PeticionR, Vale(t),
         \A o \in PedidoIds : Reservado(o) => Reservado(o)',
         \A o \in PedidoIds : pedido[o].estado = "BORRADO" => pedido'[o].estado = "BORRADO",
         \A o \in PedidoIds : \/ asignacion[o].hitos \subseteq asignacion'[o].hitos
                              \/ pedido'[o].estado = "BORRADO"
  PROVE  Vale(t)'
<1>1. ASSUME t.fase = "crear" PROVE Reservado(t.pedido)'
  BY <1>1, EsR DEF Vale
<1>2. ASSUME t.fase \in {"llegar", "salir", "finalizar", "cerrar"}
      PROVE  pedido'[t.pedido].estado = "BORRADO" \/ Previa(t) \in asignacion'[t.pedido].hitos
  <2>1. t.pedido \in PedidoIds
    BY <1>2, EsR
  <2>2. pedido[t.pedido].estado = "BORRADO" \/ Previa(t) \in asignacion[t.pedido].hitos
    BY <1>2 DEF Vale
  <2> QED BY <2>1, <2>2
<1> QED BY <1>1, <1>2 DEF Vale

------------------------------------------------------------------------------
(* The market *)

\* The market's own steps: they are steps of Pedidos, delete the deliveries of
\* the orders they delete, and leave an accepted order accepted.
LEMMA MercadoDentro == ASSUME Mercado PROVE Next /\ ConCascada
BY DEF Mercado, MercadoAvanza, Next

LEMMA ReservadoSigue ==
  ASSUME TypeOK, [Next]_vars, NEW o \in PedidoIds, Reservado(o)
  PROVE  Reservado(o)'
<1>1. pedido \in [PedidoIds -> Pedido] /\ pedido[o] \in Pedido
  BY DEF TypeOK
<1>2. CASE UNCHANGED pedido
  BY <1>2 DEF Reservado
<1>3. ASSUME NEW p \in Editables, DeletePublicacion(p) PROVE Reservado(o)'
  <2>1. pedido'[o] = [SinPedido EXCEPT !.estado = "BORRADO"] \/ pedido'[o] = [pedido[o] EXCEPT !.cantidad[p] = 0]
    BY <1>1, <1>3 DEF DeletePublicacion, SinLaPublicacion
  <2> QED BY <1>1, <2>1 DEF Pedido, SinPedido, Reservado
<1>4. ASSUME NEW h \in Hilos, NEW n \in PedidoIds, NEW q \in Publicaciones,
             CreateOrderCommit(h, n, q)
      PROVE  Reservado(o)'
  BY <1>1, <1>4 DEF CreateOrderCommit, Reservado
<1>5. ASSUME NEW h \in Hilos, AcceptOrderSave(h) \/ MarkOrderDeliveredSave(h)
      PROVE  Reservado(o)'
  <2>1. pedido' = pedido \/ \E n \in PedidoIds, e \in {"ACEPTADO", "ENTREGADO"} :
          pedido' = [pedido EXCEPT ![n].estado = e]
    BY <1>5, TipoHilo DEF AcceptOrderSave, MarkOrderDeliveredSave, GuardaEstado
  <2>2. ASSUME NEW n \in PedidoIds, NEW e \in {"ACEPTADO", "ENTREGADO"},
               pedido' = [pedido EXCEPT ![n].estado = e]
        PROVE  pedido'[o].estado = e \/ pedido'[o] = pedido[o]
    BY <1>1, <2>2 DEF Pedido
  <2> QED BY <2>1, <2>2 DEF Reservado
<1>6. ASSUME NEW n \in PedidoIds, MarkEntregado(n) PROVE Reservado(o)'
  <2>1. pedido'[o].estado = "ENTREGADO" \/ pedido'[o] = pedido[o]
    BY <1>1, <1>6 DEF MarkEntregado, Pedido
  <2> QED BY <2>1 DEF Reservado
<1>7. ASSUME \/ UNCHANGED vars
             \/ \E h \in Hilos : Llegada(h) \/ Caer(h)
             \/ \E p \in Publicaciones, s \in Stocks, m \in Maximos, c \in Precios :
                  CreatePublicacion(p, s, m, c)
             \/ \E p, e, s, m, c : UpdatePublicacion(p, e, s, m, c)
      PROVE  UNCHANGED pedido
  BY <1>7 DEF vars, Llegada, CreateOrderCheck, AcceptOrderRead, MarkOrderDeliveredRead,
              Caer, CreatePublicacion, UpdatePublicacion
<1>8. ASSUME NEW h \in Hilos,
             \/ \E x \in Publicaciones \cup Usuarios : CreateOrderLock(h, x)
             \/ CreateOrderRollback(h) \/ CreateOrderDeadlock(h) \/ Enviar(h)
      PROVE  UNCHANGED pedido
  BY <1>8 DEF CreateOrderLock, CreateOrderRollback, CreateOrderDeadlock, Enviar
<1> QED BY <1>2, <1>3, <1>4, <1>5, <1>6, <1>7, <1>8 DEF Next, Catalogo, Avance, Reparto

\* entregados only grows.
LEMMA EntregadosCrece ==
  ASSUME [Next]_vars PROVE entregados \subseteq entregados'
<1>1. ASSUME \/ UNCHANGED vars
             \/ Catalogo
             \/ \E h \in Hilos : Llegada(h) \/ Caer(h)
      PROVE  entregados' = entregados
  BY <1>1 DEF vars, historia, Catalogo, Llegada, CreateOrderCheck, AcceptOrderRead,
              MarkOrderDeliveredRead, Caer, CreatePublicacion, UpdatePublicacion, DeletePublicacion
<1>2. ASSUME NEW h \in Hilos, Avance(h) PROVE entregados \subseteq entregados'
  BY <1>2 DEF Avance, CreateOrderLock, CreateOrderCommit, CreateOrderRollback, CreateOrderDeadlock,
              AcceptOrderSave, MarkOrderDeliveredSave, Entregado, Enviar, historia
<1>3. ASSUME Reparto PROVE entregados \subseteq entregados'
  BY <1>3 DEF Reparto, MarkEntregado
<1> QED BY <1>1, <1>2, <1>3 DEF Next

LEMMA PasoMercado ==
  ASSUME IInvEntregas, Mercado
  PROVE  IInvEntregas'
<1>1. Next /\ ConCascada
  BY MercadoDentro
<1>2. IInv'
  BY <1>1, IInvPaso DEF IInvEntregas
<1>3. TypeOK /\ TiposR /\ UNCHANGED <<hiloR, caidasR>>
  BY <1>1 DEF IInvEntregas, IInv, IInvR, ConCascada
<1>4. \A o \in PedidoIds : asignacion'[o] = IF Existe(o)' THEN asignacion[o] ELSE SinAsignacion
  BY <1>1 DEF ConCascada, Cascada, Existe
<1>5. TiposR'
  <2>1. SinAsignacion \in Asignacion
    BY DEF SinAsignacion, Asignacion
  <2>2. asignacion' \in [PedidoIds -> Asignacion]
    BY <1>1, <1>3, <2>1 DEF ConCascada, Cascada, TiposR
  <2> QED BY <1>3, <2>2 DEF TiposR
<1>6. SinFila'
  BY <1>4 DEF IInvEntregas, IInvR, SinFila, Asignado
<1>7. \A o \in PedidoIds : Reservado(o) => Reservado(o)'
  BY <1>1, <1>3, ReservadoSigue
<1>8. \A o \in PedidoIds : pedido[o].estado = "BORRADO" => pedido'[o].estado = "BORRADO"
  BY <1>1, <1>3, BorradoPaso
<1>9. AsignadoFueAceptado'
  <2> SUFFICES ASSUME NEW o \in PedidoIds, Asignado(o)'
               PROVE  pedido'[o].estado \in {"ACEPTADO", "ENTREGADO"}
    BY DEF AsignadoFueAceptado
  <2>1. Existe(o)' /\ Asignado(o)
    BY <1>4 DEF Asignado, SinAsignacion, Etapas, ASIGNADO, LLEGO_RECOGIDA, EN_CAMINO_ENTREGA,
                LLEGO_ENTREGA, FINALIZADO
  <2>2. Reservado(o)
    BY <2>1 DEF IInvEntregas, IInvR, AsignadoFueAceptado, Reservado
  <2> QED BY <1>7, <2>1, <2>2 DEF Reservado, Existe, EstadosPedido
<1>10. HitosEnOrden'
  <2>1. \A o \in PedidoIds : asignacion'[o] \in {asignacion[o], SinAsignacion}
    BY <1>4
  <2> QED BY <2>1 DEF IInvEntregas, IInvR, HitosEnOrden, Asignado, SinAsignacion, Etapas, ASIGNADO,
                      LLEGO_RECOGIDA, EN_CAMINO_ENTREGA, LLEGO_ENTREGA, FINALIZADO
<1>11. ASSUME NEW o \in PedidoIds
       PROVE  asignacion[o].hitos \subseteq asignacion'[o].hitos \/ pedido'[o].estado = "BORRADO"
  <2>1. CASE Asignado(o)
    <3>1. Reservado(o)'
      BY <1>7, <2>1 DEF IInvEntregas, IInvR, AsignadoFueAceptado, Reservado
    <3> QED BY <3>1, <1>4 DEF Reservado, Existe, EstadosPedido
  <2>2. CASE ~Asignado(o)
    BY <2>2 DEF IInvEntregas, IInvR, SinFila, SinAsignacion
  <2> QED BY <2>1, <2>2
<1>12. ASSUME NEW k \in HilosR PROVE Vale(hiloR[k])'
  <2>1. hiloR[k] \in PeticionR /\ hiloR'[k] = hiloR[k] /\ Vale(hiloR[k])
    BY <1>3 DEF TiposR, IInvEntregas, IInvR
  <2>2. PICK t \in PeticionR : t = hiloR[k]
    BY <2>1
  <2>3. Vale(t)'
    BY <2>1, <2>2, <1>7, <1>8, <1>11, SigueValiendo
  <2> QED BY <2>1, <2>2, <2>3
<1> QED BY <1>2, <1>5, <1>6, <1>9, <1>10, <1>12 DEF IInvEntregas, IInvR

------------------------------------------------------------------------------
(* The couriers' requests *)

\* A step that only changes what a request holds.
LEMMA PasoSoloHilo ==
  ASSUME IInvEntregas, NEW k \in HilosR, NEW t \in PeticionR, Vale(t),
         hiloR' = [hiloR EXCEPT ![k] = t], UNCHANGED <<vars, asignacion>>, caidasR' \in Nat
  PROVE  IInvEntregas'
<1>1. TiposR /\ IInv
  BY DEF IInvEntregas, IInvR
<1>2. pedido' = pedido /\ asignacion' = asignacion
  BY DEF vars
<1>3. IInv'
  BY <1>1, IInvPaso
<1>4. /\ hiloR' \in [HilosR -> PeticionR]
      /\ hiloR'[k] = t
      /\ \A g \in HilosR : g = k \/ hiloR'[g] = hiloR[g]
  BY <1>1, OtroHilo
<1>5. TiposR' /\ SinFila' /\ AsignadoFueAceptado' /\ HitosEnOrden'
  BY <1>2, <1>4 DEF IInvEntregas, IInvR, TiposR, SinFila, AsignadoFueAceptado, HitosEnOrden, Asignado
<1>6. ASSUME NEW g \in HilosR PROVE Vale(hiloR[g])'
  <2>1. Vale(hiloR'[g])
    BY <1>4 DEF IInvEntregas, IInvR
  <2> QED BY <2>1, <1>2 DEF Vale, Reservado
<1> QED BY <1>3, <1>5, <1>6 DEF IInvEntregas, IInvR

LEMMA ConEtapa ==
  ASSUME NEW a \in Asignacion, NEW e \in Etapas
  PROVE  /\ [a EXCEPT !.estado = e, !.hitos = @ \cup {e}] \in Asignacion
         /\ [a EXCEPT !.estado = e, !.hitos = @ \cup {e}].estado = e
         /\ [a EXCEPT !.estado = e, !.hitos = @ \cup {e}].repartidor = a.repartidor
         /\ [a EXCEPT !.estado = e, !.hitos = @ \cup {e}].hitos = a.hitos \cup {e}
BY DEF Asignacion

\* mark_*: the row gets a stage for which it was ready.
LEMMA PasoMarca ==
  ASSUME IInvEntregas, NEW k \in HilosR, NEW o \in PedidoIds, NEW e \in Etapas \ {ASIGNADO},
         NEW t \in PeticionR, Vale(t)',
         Asignado(o),
         asignacion' = [asignacion EXCEPT ![o].estado = e, ![o].hitos = @ \cup {e}],
         e = LLEGO_RECOGIDA => ASIGNADO \in asignacion[o].hitos,
         e = EN_CAMINO_ENTREGA => LLEGO_RECOGIDA \in asignacion[o].hitos,
         e = LLEGO_ENTREGA => EN_CAMINO_ENTREGA \in asignacion[o].hitos,
         e = FINALIZADO => LLEGO_ENTREGA \in asignacion[o].hitos,
         hiloR' = [hiloR EXCEPT ![k] = t], UNCHANGED <<vars, caidasR>>
  PROVE  IInvEntregas'
<1>1. TiposR /\ IInv /\ asignacion[o] \in Asignacion
  BY DEF IInvEntregas, IInvR, TiposR
<1>2. pedido' = pedido
  BY DEF vars
<1>3. IInv'
  BY <1>1, IInvPaso
<1>4. /\ hiloR' \in [HilosR -> PeticionR]
      /\ hiloR'[k] = t
      /\ \A g \in HilosR : g = k \/ hiloR'[g] = hiloR[g]
  BY <1>1, OtroHilo
<1>5a. asignacion'[o] = [asignacion[o] EXCEPT !.estado = e, !.hitos = @ \cup {e}]
  BY <1>1 DEF TiposR
<1>5. /\ asignacion'[o] = [asignacion[o] EXCEPT !.estado = e, !.hitos = @ \cup {e}]
      /\ \A q \in PedidoIds : q = o \/ asignacion'[q] = asignacion[q]
  BY <1>1 DEF TiposR
<1>6. /\ asignacion'[o] \in Asignacion
      /\ asignacion'[o].estado = e
      /\ asignacion'[o].repartidor = asignacion[o].repartidor
      /\ asignacion'[o].hitos = asignacion[o].hitos \cup {e}
  <2>1. e \in Etapas /\ asignacion[o] \in Asignacion
    BY <1>1
  <2> DEFINE x == [asignacion[o] EXCEPT !.estado = e, !.hitos = @ \cup {e}]
  <2>2. /\ x \in Asignacion
        /\ x.estado = e
        /\ x.repartidor = asignacion[o].repartidor
        /\ x.hitos = asignacion[o].hitos \cup {e}
    BY <2>1, ConEtapa
  <2>3. asignacion'[o] = x
    BY <1>5a
  <2> HIDE DEF x
  <2> QED BY <2>2, <2>3
<1>7. TiposR'
  <2>1. asignacion' \in [PedidoIds -> Asignacion]
    <3>1. asignacion' = [asignacion EXCEPT ![o] = [asignacion[o] EXCEPT !.estado = e, !.hitos = @ \cup {e}]]
      BY <1>1 DEF TiposR
    <3> QED BY <1>1, <1>5, <1>6, <3>1 DEF TiposR
  <2> QED BY <2>1, <1>1, <1>4 DEF TiposR
<1>8. SinFila'
  BY <1>5, <1>6 DEF IInvEntregas, IInvR, SinFila, Asignado
<1>9. AsignadoFueAceptado'
  BY <1>2, <1>5 DEF IInvEntregas, IInvR, AsignadoFueAceptado, Asignado
<1>10. HitosEnOrden'
  <2> SUFFICES ASSUME NEW q \in PedidoIds
               PROVE  LET hitos == asignacion'[q].hitos
                      IN /\ Asignado(q)' => asignacion'[q].estado \in hitos
                         /\ FINALIZADO \in hitos => LLEGO_ENTREGA \in hitos
                         /\ LLEGO_ENTREGA \in hitos => EN_CAMINO_ENTREGA \in hitos
                         /\ EN_CAMINO_ENTREGA \in hitos => LLEGO_RECOGIDA \in hitos
                         /\ LLEGO_RECOGIDA \in hitos => ASIGNADO \in hitos
    BY DEF HitosEnOrden
  <2>1. CASE q = o
    BY <2>1, <1>6, ZenonT(40) DEF IInvEntregas, IInvR, HitosEnOrden, Asignado, Etapas, ASIGNADO, LLEGO_RECOGIDA,
                      EN_CAMINO_ENTREGA, LLEGO_ENTREGA, FINALIZADO
  <2>2. CASE q # o
    BY <2>2, <1>5 DEF IInvEntregas, IInvR, HitosEnOrden, Asignado
  <2> QED BY <2>1, <2>2
<1>11. ASSUME NEW g \in HilosR PROVE Vale(hiloR[g])'
  <2>1. CASE g = k
    BY <2>1, <1>4
  <2>2. CASE g # k
    <3>1. hiloR[g] \in PeticionR /\ Vale(hiloR[g]) /\ hiloR'[g] = hiloR[g]
      BY <2>2, <1>1, <1>4 DEF TiposR, IInvEntregas, IInvR
    <3>2. PICK x \in PeticionR : x = hiloR[g]
      BY <3>1
    <3>3. \A q \in PedidoIds : asignacion[q].hitos \subseteq asignacion'[q].hitos
      BY <1>5, <1>6
    <3>4. Vale(x)'
      BY <1>2, <3>1, <3>2, <3>3, SigueValiendo DEF Reservado
    <3> QED BY <3>1, <3>2, <3>4
  <2> QED BY <2>1, <2>2
<1> QED BY <1>3, <1>7, <1>8, <1>9, <1>10, <1>11 DEF IInvEntregas, IInvR

\* The early returns and the reads: nothing is written.
LEMMA PasoLectura ==
  ASSUME IInvEntregas, NEW k \in HilosR, NEW r \in Repartidores,
         \/ \E o \in PedidoIds :
              AceptarPedidoActivo(k, r, o) \/ MarcarSalioRead(k, r, o) \/ MarcarFinalizadoRead(k, r, o)
         \/ \E lugar \in Lugares : ActualizarUbicacion(k, r, lugar)
  PROVE  IInvEntregas'
<1>1. TiposR /\ HitosEnOrden /\ \A g \in HilosR : hiloR[g] \in PeticionR /\ Vale(hiloR[g])
  BY DEF IInvEntregas, IInvR, TiposR
<1>2. ASSUME NEW o \in PedidoIds, NEW f \in {"leer", "salir", "finalizar"},
             hiloR' = [hiloR EXCEPT ![k] = [fase |-> f, repartidor |-> r, pedido |-> o]],
             UNCHANGED <<vars, asignacion, caidasR>>,
             f = "salir" => LLEGO_RECOGIDA \in asignacion[o].hitos,
             f = "finalizar" => LLEGO_ENTREGA \in asignacion[o].hitos
      PROVE  IInvEntregas'
  <2> DEFINE t == [fase |-> f, repartidor |-> r, pedido |-> o]
  <2>1. t \in PeticionR /\ t.fase = f /\ t.pedido = o
    BY TiposDePeticion
  <2>2. Vale(t)
    BY <1>2, <2>1 DEF Vale, Previa
  <2>3. caidasR' \in Nat
    BY <1>1, <1>2 DEF TiposR
  <2>4. hiloR' = [hiloR EXCEPT ![k] = t]
    BY <1>2
  <2> HIDE DEF t
  <2> QED BY <1>2, <2>1, <2>2, <2>3, <2>4, PasoSoloHilo
<1>3. ASSUME NEW o \in PedidoIds, AceptarPedidoActivo(k, r, o) PROVE IInvEntregas'
  BY <1>2, <1>3 DEF AceptarPedidoActivo
<1>4. ASSUME NEW o \in PedidoIds, MarcarSalioRead(k, r, o) PROVE IInvEntregas'
  <2>1. asignacion[o].estado = LLEGO_RECOGIDA
    BY <1>4 DEF MarcarSalioRead, LeerPropia
  <2>2. LLEGO_RECOGIDA \in asignacion[o].hitos
    BY <1>1, <2>1 DEF HitosEnOrden, Asignado, Etapas
  <2> QED BY <1>2, <1>4, <2>2 DEF MarcarSalioRead, LeerPropia
<1>5. ASSUME NEW o \in PedidoIds, MarcarFinalizadoRead(k, r, o) PROVE IInvEntregas'
  <2>1. asignacion[o].estado = LLEGO_ENTREGA
    BY <1>5 DEF MarcarFinalizadoRead, LeerPropia
  <2>2. LLEGO_ENTREGA \in asignacion[o].hitos
    BY <1>1, <2>1 DEF HitosEnOrden, Asignado, Etapas
  <2> QED BY <1>2, <1>5, <2>2 DEF MarcarFinalizadoRead, LeerPropia
<1>6. ASSUME NEW lugar \in Lugares, ActualizarUbicacion(k, r, lugar) PROVE IInvEntregas'
  <2>1. UNCHANGED <<vars, asignacion, caidasR>> /\ caidasR' \in Nat
    BY <1>1, <1>6 DEF ActualizarUbicacion, TiposR
  <2>2. CASE UNCHANGED hiloR
    <3>1. hiloR' = [hiloR EXCEPT ![k] = hiloR[k]]
      BY <1>1, <2>2 DEF TiposR
    <3> QED BY <1>1, <2>1, <3>1, PasoSoloHilo
  <2>3. ASSUME NEW o \in PedidoIds, NEW e,
               EntregaActiva(o, r), e = EtapaPorUbicacion(asignacion[o].estado, lugar), e # "NINGUNA",
               hiloR' = [hiloR EXCEPT ![k] = [fase |-> "llegar", repartidor |-> r, pedido |-> o, etapa |-> e]]
        PROVE  IInvEntregas'
    <3> DEFINE t == [fase |-> "llegar", repartidor |-> r, pedido |-> o, etapa |-> e]
    <3>1. \/ e = LLEGO_RECOGIDA /\ asignacion[o].estado = ASIGNADO
          \/ e = LLEGO_ENTREGA /\ asignacion[o].estado = EN_CAMINO_ENTREGA
      BY <2>3 DEF EtapaPorUbicacion
    <3>2. t \in PeticionR /\ t.fase = "llegar" /\ t.pedido = o /\ t.etapa = e
      BY <3>1, TiposDePeticion
    <3>3. asignacion[o].estado \in asignacion[o].hitos
      BY <1>1, <2>3 DEF HitosEnOrden, EntregaActiva
    <3>4. Vale(t)
      BY <3>1, <3>2, <3>3 DEF Vale, Previa, LLEGO_RECOGIDA, LLEGO_ENTREGA
    <3>5. hiloR' = [hiloR EXCEPT ![k] = t]
      BY <2>3
    <3> HIDE DEF t
    <3> QED BY <2>1, <3>2, <3>4, <3>5, PasoSoloHilo
  <2> QED BY <1>6, <2>2, <2>3 DEF ActualizarUbicacion
<1> QED BY <1>3, <1>4, <1>5, <1>6

LEMMA PasoLeer ==
  ASSUME IInvEntregas, NEW k \in HilosR, AceptarPedidoLeer(k)
  PROVE  IInvEntregas'
<1>1. hiloR[k] \in PeticionR /\ hiloR[k].fase = "leer" /\ UNCHANGED <<vars, asignacion, caidasR>>
      /\ caidasR' \in Nat
  BY DEF IInvEntregas, IInvR, TiposR, AceptarPedidoLeer
<1>2. CASE pedido[hiloR[k].pedido].estado = "ACEPTADO"
  <2> DEFINE t == [fase |-> "crear", repartidor |-> hiloR[k].repartidor, pedido |-> hiloR[k].pedido]
  <2>1. t \in PeticionR /\ t.fase = "crear" /\ t.pedido = hiloR[k].pedido
    BY <1>1, EsR, TiposDePeticion
  <2>2. [hiloR[k] EXCEPT !.fase = "crear"] = t
    BY <1>1, PasaTipo
  <2>3. hiloR' = [hiloR EXCEPT ![k] = t]
    BY <1>2, <2>2 DEF AceptarPedidoLeer, Pasa
  <2>4. Vale(t)
    BY <1>2, <2>1 DEF Vale, Reservado
  <2> HIDE DEF t
  <2> QED BY <1>1, <2>1, <2>3, <2>4, PasoSoloHilo
<1>3. CASE pedido[hiloR[k].pedido].estado # "ACEPTADO"
  <2>1. hiloR' = [hiloR EXCEPT ![k] = Libre]
    BY <1>3 DEF AceptarPedidoLeer, Termina
  <2>2. Vale(Libre)
    BY TiposDePeticion DEF Vale
  <2> QED BY <1>1, <2>1, <2>2, TiposDePeticion, PasoSoloHilo
<1> QED BY <1>2, <1>3

\* Whatever ends a request without writing a row.
LEMMA PasoTermina ==
  ASSUME IInvEntregas, NEW k \in HilosR, Termina(k), UNCHANGED <<vars, asignacion>>,
         caidasR' \in Nat
  PROVE  IInvEntregas'
<1>1. Vale(Libre) /\ Libre \in PeticionR
  BY TiposDePeticion DEF Vale
<1> QED BY <1>1, PasoSoloHilo DEF Termina

LEMMA PasoCrearAsignacion ==
  ASSUME IInvEntregas, NEW k \in HilosR, AceptarPedidoCrear(k)
  PROVE  IInvEntregas'
<1>1. /\ TiposR /\ IInv /\ hiloR[k] \in PeticionR /\ hiloR[k].fase = "crear" /\ Vale(hiloR[k])
      /\ UNCHANGED <<vars, caidasR>> /\ caidasR' \in Nat
  BY DEF IInvEntregas, IInvR, TiposR, AceptarPedidoCrear
<1>2. PICK o \in PedidoIds : o = hiloR[k].pedido
  BY <1>1, EsR
<1>3. PICK r \in Repartidores : r = hiloR[k].repartidor
  BY <1>1, EsR
<1>4. CASE ~(Existe(o) /\ ~Asignado(o))
  <2>1. Termina(k) /\ UNCHANGED asignacion
    BY <1>2, <1>4 DEF AceptarPedidoCrear
  <2> QED BY <1>1, <2>1, PasoTermina
<1>5. CASE Existe(o) /\ ~Asignado(o)
  <2> DEFINE a == [estado |-> ASIGNADO, repartidor |-> r, hitos |-> {ASIGNADO}]
             u == pedido[o].comprador
             t == [fase |-> "avisar", repartidor |-> r, para |-> u, aviso |-> [hito |-> ASIGNADO, pedido |-> o]]
  <2>1. asignacion' = [asignacion EXCEPT ![o] = a] /\ hiloR' = [hiloR EXCEPT ![k] = t]
    BY <1>2, <1>3, <1>5 DEF AceptarPedidoCrear, PasaAAvisar
  <2>2. u \in Usuarios
    BY <1>1, <1>5 DEF IInv, IntegridadReferencial
  <2>3. t \in PeticionR /\ t.fase = "avisar"
    BY <2>2, TiposDePeticion DEF Etapas
  <2>4. a \in Asignacion
    BY DEF Asignacion, Etapas
  <2>5. pedido' = pedido
    BY <1>1 DEF vars
  <2>6. /\ hiloR' \in [HilosR -> PeticionR]
        /\ hiloR'[k] = t
        /\ \A g \in HilosR : g = k \/ hiloR'[g] = hiloR[g]
    <3> HIDE DEF t
    <3> QED BY <1>1, <2>1, <2>3, OtroHilo
  <2>7. asignacion'[o] = a /\ \A q \in PedidoIds : q = o \/ asignacion'[q] = asignacion[q]
    BY <1>1, <2>1 DEF TiposR
  <2>8. a.estado = ASIGNADO /\ a.hitos = {ASIGNADO}
    OBVIOUS
  <2> HIDE DEF a
  <2>9. TiposR'
    BY <1>1, <2>1, <2>4, <2>6 DEF TiposR
  <2>10. SinFila'
    BY <2>7, <2>8 DEF IInvEntregas, IInvR, SinFila, Asignado, Etapas
  <2>11. AsignadoFueAceptado'
    <3>1. pedido[o].estado \in {"ACEPTADO", "ENTREGADO"}
      BY <1>1, <1>2, <1>5 DEF Vale, Reservado, Existe, EstadosPedido
    <3> QED BY <3>1, <2>5, <2>7 DEF IInvEntregas, IInvR, AsignadoFueAceptado, Asignado
  <2>12. HitosEnOrden'
    <3> SUFFICES ASSUME NEW q \in PedidoIds
                 PROVE  LET hitos == asignacion'[q].hitos
                        IN /\ Asignado(q)' => asignacion'[q].estado \in hitos
                           /\ FINALIZADO \in hitos => LLEGO_ENTREGA \in hitos
                           /\ LLEGO_ENTREGA \in hitos => EN_CAMINO_ENTREGA \in hitos
                           /\ EN_CAMINO_ENTREGA \in hitos => LLEGO_RECOGIDA \in hitos
                           /\ LLEGO_RECOGIDA \in hitos => ASIGNADO \in hitos
      BY DEF HitosEnOrden
    <3>1. CASE q = o
      BY <3>1, <2>7, <2>8 DEF ASIGNADO, LLEGO_RECOGIDA, EN_CAMINO_ENTREGA, LLEGO_ENTREGA, FINALIZADO
    <3>2. CASE q # o
      BY <3>2, <2>7 DEF IInvEntregas, IInvR, HitosEnOrden, Asignado
    <3> QED BY <3>1, <3>2
  <2>13. ASSUME NEW g \in HilosR PROVE Vale(hiloR[g])'
    <3>1. CASE g = k
      BY <3>1, <2>3, <2>6 DEF Vale
    <3>2. CASE g # k
      <4>1. hiloR[g] \in PeticionR /\ Vale(hiloR[g]) /\ hiloR'[g] = hiloR[g]
        BY <3>2, <1>1, <2>6 DEF TiposR, IInvEntregas, IInvR
      <4>2. PICK x \in PeticionR : x = hiloR[g]
        BY <4>1
      <4>3. asignacion[o].hitos = {}
        BY <1>5 DEF IInvEntregas, IInvR, SinFila, SinAsignacion
      <4>4. \A q \in PedidoIds : asignacion[q].hitos \subseteq asignacion'[q].hitos
        BY <2>7, <4>3
      <4>5. Vale(x)'
        BY <2>5, <4>1, <4>2, <4>4, SigueValiendo DEF Reservado
      <4> QED BY <4>1, <4>2, <4>5
    <3> QED BY <3>1, <3>2
  <2>14. IInv'
    BY <1>1, IInvPaso
  <2> QED BY <2>9, <2>10, <2>11, <2>12, <2>13, <2>14 DEF IInvEntregas, IInvR
<1> QED BY <1>4, <1>5

\* A stage is written on an assigned order and its buyer told, or, for the
\* last stage, the order closed next; without the row nothing is written.
LEMMA PasoDeEtapa ==
  ASSUME IInvEntregas, NEW k \in HilosR, NEW e \in Etapas \ {ASIGNADO}, NEW f \in {"avisar", "cerrar"},
         hiloR[k].fase \in {"llegar", "salir", "finalizar"},
         e = LLEGO_RECOGIDA => Previa(hiloR[k]) = ASIGNADO,
         e = EN_CAMINO_ENTREGA => Previa(hiloR[k]) = LLEGO_RECOGIDA,
         e = LLEGO_ENTREGA => Previa(hiloR[k]) = EN_CAMINO_ENTREGA,
         e = FINALIZADO => Previa(hiloR[k]) = LLEGO_ENTREGA,
         f = "cerrar" <=> e = FINALIZADO,
         f = "cerrar" => hiloR[k].fase = "finalizar",
         Marca(k, e, f), UNCHANGED <<vars, caidasR>>
  PROVE  IInvEntregas'
<1>1. TiposR /\ hiloR[k] \in PeticionR /\ Vale(hiloR[k]) /\ caidasR' \in Nat
  BY DEF IInvEntregas, IInvR, TiposR
<1>2. PICK o \in PedidoIds : o = hiloR[k].pedido
  BY <1>1, EsR
<1>3. PICK r \in Repartidores : r = hiloR[k].repartidor
  BY <1>1, EsR
<1>4. CASE ~Asignado(o)
  <2>1. Termina(k) /\ UNCHANGED asignacion
    BY <1>2, <1>4 DEF Marca
  <2> QED BY <1>1, <2>1, PasoTermina
<1>5. CASE Asignado(o)
  <2>1. asignacion' = [asignacion EXCEPT ![o].estado = e, ![o].hitos = @ \cup {e}]
    BY <1>2, <1>5 DEF Marca
  <2>2. Previa(hiloR[k]) \in asignacion[o].hitos
    <3>1. pedido[o].estado # "BORRADO"
      BY <1>5, BorradoSinAsignacion DEF IInvEntregas
    <3> QED BY <1>1, <1>2, <3>1 DEF Vale
  <2>3. Existe(o) /\ pedido[o].comprador \in Usuarios
    BY <1>5, AsignadoExiste
  <2>4. CASE f = "avisar"
    <3> DEFINE u == pedido[o].comprador
               t == [fase |-> "avisar", repartidor |-> r, para |-> u, aviso |-> [hito |-> e, pedido |-> o]]
    <3>1. hiloR' = [hiloR EXCEPT ![k] = t]
      BY <1>2, <1>3, <1>5, <2>4 DEF Marca, PasaAAvisar
    <3>2. t \in PeticionR /\ t.fase = "avisar"
      BY <2>3, TiposDePeticion
    <3>3. PICK x \in PeticionR : x = t
      BY <3>2
    <3>4. Vale(x)'
      BY <3>2, <3>3 DEF Vale
    <3> HIDE DEF t
    <3> QED BY <1>5, <2>1, <2>2, <3>1, <3>3, <3>4, PasoMarca
  <2>5. CASE f = "cerrar"
    <3> DEFINE t == [fase |-> "cerrar", repartidor |-> r, pedido |-> o]
    <3>1. hiloR' = [hiloR EXCEPT ![k] = t]
      <4>1. hiloR' = [hiloR EXCEPT ![k] = [hiloR[k] EXCEPT !.fase = "cerrar"]]
        BY <1>2, <1>5, <2>5 DEF Marca, Pasa
      <4>2. [hiloR[k] EXCEPT !.fase = "cerrar"] = t
        BY <1>1, <1>2, <1>3, <2>5, PasaTipo
      <4> QED BY <4>1, <4>2
    <3>2. t \in PeticionR /\ t.fase = "cerrar" /\ t.pedido = o
      BY TiposDePeticion
    <3>3. PICK x \in PeticionR : x = t
      BY <3>2
    <3>4. FINALIZADO \in asignacion'[o].hitos
      BY <1>1, <2>1, <2>5 DEF TiposR, Asignacion
    <3>5. Vale(x)'
      BY <3>2, <3>3, <3>4 DEF Vale, Previa
    <3> HIDE DEF t
    <3> QED BY <1>5, <2>1, <2>2, <3>1, <3>3, <3>5, PasoMarca
  <2> QED BY <2>4, <2>5
<1> QED BY <1>4, <1>5

LEMMA PasoEtapas ==
  ASSUME IInvEntregas, NEW k \in HilosR, MarkLlego(k) \/ MarkSalio(k) \/ MarkFinalizado(k)
  PROVE  IInvEntregas'
<1>1. hiloR[k] \in PeticionR
  BY DEF IInvEntregas, IInvR, TiposR
<1>2. CASE MarkLlego(k)
  <2>1. hiloR[k].fase = "llegar" /\ Marca(k, hiloR[k].etapa, "avisar") /\ UNCHANGED <<vars, caidasR>>
    BY <1>2 DEF MarkLlego
  <2>2. PICK e \in {LLEGO_RECOGIDA, LLEGO_ENTREGA} : e = hiloR[k].etapa
    BY <1>1, <2>1, EsR
  <2>3. Previa(hiloR[k]) = IF e = LLEGO_RECOGIDA THEN ASIGNADO ELSE EN_CAMINO_ENTREGA
    BY <2>1, <2>2 DEF Previa
  <2> QED BY <2>1, <2>2, <2>3, PasoDeEtapa
          DEF Etapas, ASIGNADO, LLEGO_RECOGIDA, EN_CAMINO_ENTREGA, LLEGO_ENTREGA, FINALIZADO
<1>3. CASE MarkSalio(k)
  <2>1. hiloR[k].fase = "salir" /\ Marca(k, EN_CAMINO_ENTREGA, "avisar") /\ UNCHANGED <<vars, caidasR>>
    BY <1>3 DEF MarkSalio
  <2>2. Previa(hiloR[k]) = LLEGO_RECOGIDA
    BY <2>1 DEF Previa
  <2> QED BY <2>1, <2>2, PasoDeEtapa
          DEF Etapas, ASIGNADO, LLEGO_RECOGIDA, EN_CAMINO_ENTREGA, LLEGO_ENTREGA, FINALIZADO
<1>4. CASE MarkFinalizado(k)
  <2>1. hiloR[k].fase = "finalizar" /\ Marca(k, FINALIZADO, "cerrar") /\ UNCHANGED <<vars, caidasR>>
    BY <1>4 DEF MarkFinalizado
  <2>2. Previa(hiloR[k]) = LLEGO_ENTREGA
    BY <2>1 DEF Previa
  <2> QED BY <2>1, <2>2, PasoDeEtapa
          DEF Etapas, ASIGNADO, LLEGO_RECOGIDA, EN_CAMINO_ENTREGA, LLEGO_ENTREGA, FINALIZADO
<1> QED BY <1>2, <1>3, <1>4

\* A request that closes an order does what the market expects of delivery.
LEMMA CerrarEsReparto ==
  ASSUME IInvEntregas, NEW k \in HilosR, CerrarPedido(k)
  PROVE  Reparto \/ UNCHANGED vars
<1>1. hiloR[k] \in PeticionR /\ hiloR[k].fase = "cerrar" /\ Vale(hiloR[k])
  BY DEF IInvEntregas, IInvR, TiposR, CerrarPedido
<1>2. PICK o \in PedidoIds : o = hiloR[k].pedido
  BY <1>1, EsR
<1>3. CASE Existe(o)
  <2>1. MarkEntregado(o)
    BY <1>2, <1>3 DEF CerrarPedido
  <2>2. FINALIZADO \in asignacion[o].hitos
    BY <1>1, <1>2, <1>3 DEF Vale, Previa, Existe, EstadosPedido
  <2>3. Asignado(o)
    BY <2>2 DEF IInvEntregas, IInvR, SinFila, SinAsignacion
  <2> QED BY <2>1, <2>3 DEF Reparto, IInvEntregas, IInvR, AsignadoFueAceptado
<1>4. CASE ~Existe(o)
  BY <1>2, <1>4 DEF CerrarPedido
<1> QED BY <1>3, <1>4

LEMMA PasoCerrar ==
  ASSUME IInvEntregas, NEW k \in HilosR, CerrarPedido(k)
  PROVE  IInvEntregas'
<1>1. TiposR /\ IInv /\ hiloR[k] \in PeticionR /\ hiloR[k].fase = "cerrar"
      /\ UNCHANGED <<asignacion, caidasR>> /\ caidasR' \in Nat
  BY DEF IInvEntregas, IInvR, TiposR, CerrarPedido
<1>2. PICK o \in PedidoIds : o = hiloR[k].pedido
  BY <1>1, EsR
<1>3. PICK r \in Repartidores : r = hiloR[k].repartidor
  BY <1>1, EsR
<1>4. CASE ~Existe(o)
  <2>1. Termina(k) /\ UNCHANGED vars
    BY <1>2, <1>4 DEF CerrarPedido
  <2> QED BY <1>1, <2>1, PasoTermina
<1>5. CASE Existe(o)
  <2> DEFINE u == pedido[o].comprador
             t == [fase |-> "avisar", repartidor |-> r, para |-> u, aviso |-> [hito |-> FINALIZADO, pedido |-> o]]
  <2>1. hiloR' = [hiloR EXCEPT ![k] = t] /\ MarkEntregado(o)
    BY <1>2, <1>3, <1>5 DEF CerrarPedido, PasaAAvisar
  <2>2. u \in Usuarios
    BY <1>1, <1>5 DEF IInv, IntegridadReferencial
  <2>3. t \in PeticionR /\ t.fase = "avisar"
    BY <2>2, TiposDePeticion DEF Etapas
  <2>4. /\ hiloR' \in [HilosR -> PeticionR]
        /\ hiloR'[k] = t
        /\ \A g \in HilosR : g = k \/ hiloR'[g] = hiloR[g]
    <3> HIDE DEF t
    <3> QED BY <1>1, <2>1, <2>3, OtroHilo
  <2>5. [Next]_vars
    BY CerrarEsReparto DEF Next
  <2>6. IInv' /\ \A q \in PedidoIds : (Reservado(q) => Reservado(q)')
                   /\ (pedido[q].estado = "BORRADO" => pedido'[q].estado = "BORRADO")
    BY <1>1, <2>5, IInvPaso, ReservadoSigue, BorradoPaso DEF IInv
  <2>7. TiposR' /\ SinFila' /\ HitosEnOrden'
    BY <1>1, <2>4 DEF IInvEntregas, IInvR, TiposR, SinFila, HitosEnOrden, Asignado
  <2>8. AsignadoFueAceptado'
    <3>1. pedido \in [PedidoIds -> Pedido] /\ pedido[o] \in Pedido
      BY <1>1 DEF IInv, TypeOK
    <3>2. \A q \in PedidoIds : pedido'[q] = pedido[q] \/ pedido'[q].estado = "ENTREGADO"
      BY <2>1, <3>1 DEF MarkEntregado, Pedido
    <3> QED BY <1>1, <3>2 DEF IInvEntregas, IInvR, AsignadoFueAceptado, Asignado
  <2>9. ASSUME NEW g \in HilosR PROVE Vale(hiloR[g])'
    <3>1. CASE g = k
      BY <3>1, <2>3, <2>4 DEF Vale
    <3>2. CASE g # k
      <4>1. hiloR[g] \in PeticionR /\ Vale(hiloR[g]) /\ hiloR'[g] = hiloR[g]
        BY <3>2, <1>1, <2>4 DEF TiposR, IInvEntregas, IInvR
      <4>2. PICK x \in PeticionR : x = hiloR[g]
        BY <4>1
      <4>3. Vale(x)'
        BY <1>1, <2>6, <4>1, <4>2, SigueValiendo
      <4> QED BY <4>1, <4>2, <4>3
    <3> QED BY <3>1, <3>2
  <2> QED BY <2>6, <2>7, <2>8, <2>9 DEF IInvEntregas, IInvR
<1> QED BY <1>4, <1>5

LEMMA PasoEnviar ==
  ASSUME IInvEntregas, NEW k \in HilosR, EnviarR(k) \/ CaerR(k)
  PROVE  IInvEntregas'
<1>1. Termina(k) /\ UNCHANGED <<vars, asignacion>> /\ caidasR' \in Nat
  BY DEF EnviarR, CaerR, IInvEntregas, IInvR, TiposR
<1> QED BY <1>1, PasoTermina

LEMMA InicioEntregas == InitEntregas => IInvEntregas
<1> SUFFICES ASSUME InitEntregas PROVE IInvEntregas
  OBVIOUS
<1>1. IInv
  BY InitIInv DEF InitEntregas
<1>2. SinAsignacion \in Asignacion /\ SinAsignacion.estado = "NINGUNA" /\ SinAsignacion.hitos = {}
      /\ ~(SinAsignacion.estado \in Etapas)
  BY DEF SinAsignacion, Asignacion, Etapas, ASIGNADO, LLEGO_RECOGIDA, EN_CAMINO_ENTREGA,
         LLEGO_ENTREGA, FINALIZADO
<1>3. TiposR
  BY <1>2, TiposDePeticion DEF InitEntregas, TiposR
<1>4. \A o \in PedidoIds : asignacion[o] = SinAsignacion
  BY DEF InitEntregas
<1>5. SinFila /\ AsignadoFueAceptado /\ HitosEnOrden
  BY <1>2, <1>4 DEF SinFila, AsignadoFueAceptado, HitosEnOrden, Asignado
<1>6. ASSUME NEW k \in HilosR PROVE Vale(hiloR[k])
  <2>1. hiloR[k] = Libre
    BY DEF InitEntregas
  <2> QED BY <2>1, TiposDePeticion DEF Vale
<1> QED BY <1>1, <1>3, <1>5, <1>6 DEF IInvEntregas, IInvR

LEMMA PasoEntregas ==
  ASSUME IInvEntregas, [NextEntregas]_varsTodo
  PROVE  IInvEntregas'
<1>1. CASE Mercado
  BY <1>1, PasoMercado
<1>2. ASSUME NEW k \in HilosR, LlegadaR(k) PROVE IInvEntregas'
  BY <1>2, PasoLectura DEF LlegadaR
<1>3. ASSUME NEW k \in HilosR, AvanceR(k) \/ CaerR(k) PROVE IInvEntregas'
  BY <1>3, PasoLeer, PasoCrearAsignacion, PasoEtapas, PasoCerrar, PasoEnviar DEF AvanceR
<1>4. CASE UNCHANGED varsTodo
  <2>1. UNCHANGED <<vars, asignacion, hiloR, caidasR>>
    BY <1>4 DEF varsTodo, varsEntregas
  <2>2. IInv' /\ pedido' = pedido
    BY <2>1, IInvPaso DEF IInvEntregas, vars
  <2> QED BY <2>1, <2>2 DEF IInvEntregas, IInvR, TiposR, SinFila, AsignadoFueAceptado, HitosEnOrden,
                            Asignado, Vale, Reservado
<1> QED BY <1>1, <1>2, <1>3, <1>4 DEF NextEntregas

------------------------------------------------------------------------------
(* Theorems *)

\* The market and its couriers together keep the invariant: the market's own,
\* and with it that the rows of delivery agree with the orders they carry.
THEOREM InvarianteEntregas == SpecEntregas => []IInvEntregas
BY InicioEntregas, PasoEntregas, PTL DEF SpecEntregas

\* A courier only ever carries an order that its seller accepted, although
\* aceptar_pedido reads the order in one statement and assigns it in another.
THEOREM Aceptado == SpecEntregas => []AsignadoFueAceptado
<1>1. IInvEntregas => AsignadoFueAceptado
  BY DEF IInvEntregas, IInvR
<1> QED BY <1>1, InvarianteEntregas, PTL

\* The stages of a delivery are reached in order, none skipped, however many
\* requests of the courier overlap.
THEOREM EnOrden == SpecEntregas => []HitosEnOrden
<1>1. IInvEntregas => HitosEnOrden
  BY DEF IInvEntregas, IInvR
<1> QED BY <1>1, InvarianteEntregas, PTL

\* The delivery of an order stays with the courier who obtained it.
LEMMA PasoEstable ==
  ASSUME IInvEntregas, [NextEntregas]_varsTodo, NEW o \in PedidoIds, Asignado(o), Asignado(o)'
  PROVE  asignacion'[o].repartidor = asignacion[o].repartidor
<1>1. asignacion \in [PedidoIds -> Asignacion]
  BY DEF IInvEntregas, IInvR, TiposR
<1>2. CASE Mercado
  <2>1. asignacion'[o] \in {asignacion[o], SinAsignacion}
    BY <1>2, MercadoDentro DEF ConCascada, Cascada
  <2> QED BY <2>1 DEF Asignado, SinAsignacion, Etapas, ASIGNADO, LLEGO_RECOGIDA, EN_CAMINO_ENTREGA,
                      LLEGO_ENTREGA, FINALIZADO
<1>3. ASSUME NEW k \in HilosR, LlegadaR(k) \/ CaerR(k) \/ AceptarPedidoLeer(k) \/ CerrarPedido(k) \/ EnviarR(k)
      PROVE  asignacion' = asignacion
  BY <1>3 DEF LlegadaR, AceptarPedidoActivo, MarcarSalioRead, MarcarFinalizadoRead, LeerPropia,
              ActualizarUbicacion, CaerR, AceptarPedidoLeer, CerrarPedido, EnviarR
<1>4. ASSUME NEW k \in HilosR, AceptarPedidoCrear(k)
      PROVE  asignacion'[o] = asignacion[o]
  <2>1. CASE asignacion' = asignacion
    BY <2>1
  <2>2. ASSUME NEW x, hiloR[k].pedido # o, asignacion' = [asignacion EXCEPT ![hiloR[k].pedido] = x]
        PROVE  asignacion'[o] = asignacion[o]
    BY <2>2, <1>1
  <2> QED BY <1>4, <2>1, <2>2 DEF AceptarPedidoCrear
<1>5. ASSUME NEW k \in HilosR, NEW e, NEW f, Marca(k, e, f)
      PROVE  asignacion'[o].repartidor = asignacion[o].repartidor
  <2>1. CASE asignacion' = asignacion
    BY <2>1
  <2>2. ASSUME NEW q, asignacion' = [asignacion EXCEPT ![q].estado = e, ![q].hitos = @ \cup {e}]
        PROVE  asignacion'[o].repartidor = asignacion[o].repartidor
    <3>1. asignacion[o] \in Asignacion
      BY <1>1
    <3>2. CASE q = o
      <4>1. asignacion'[o] = [asignacion[o] EXCEPT !.estado = e, !.hitos = @ \cup {e}]
        BY <1>1, <2>2, <3>2
      <4> QED BY <3>1, <4>1 DEF Asignacion
    <3>3. CASE q # o
      BY <1>1, <2>2, <3>3
    <3> QED BY <3>2, <3>3
  <2> QED BY <1>5, <2>1, <2>2 DEF Marca
<1>6. ASSUME NEW k \in HilosR, MarkLlego(k) \/ MarkSalio(k) \/ MarkFinalizado(k)
      PROVE  asignacion'[o].repartidor = asignacion[o].repartidor
  BY <1>5, <1>6 DEF MarkLlego, MarkSalio, MarkFinalizado
<1>7. CASE UNCHANGED varsTodo
  BY <1>7 DEF varsTodo, varsEntregas
<1> QED BY <1>2, <1>3, <1>4, <1>6, <1>7 DEF NextEntregas, AvanceR

\* Couriers who race for an order: the one who obtained it keeps it, whatever
\* requests of the others are already past the check that it is free.
THEOREM Estable == SpecEntregas => RepartidorEstable
<1>1. IInvEntregas /\ [NextEntregas]_varsTodo =>
        [\A o \in PedidoIds : Asignado(o) /\ Asignado(o)'
            => asignacion'[o].repartidor = asignacion[o].repartidor]_asignacion
  BY PasoEstable
<1> QED BY <1>1, InvarianteEntregas, PTL DEF SpecEntregas, RepartidorEstable

\* A step of the composition is a step of the market or leaves it as it is.
LEMMA PasoDelMercado ==
  ASSUME IInvEntregas, [NextEntregas]_varsTodo
  PROVE  [Next]_vars
<1>1. CASE Mercado
  BY <1>1, MercadoDentro
<1>2. ASSUME NEW k \in HilosR, LlegadaR(k) PROVE UNCHANGED vars
  BY <1>2 DEF LlegadaR, AceptarPedidoActivo, MarcarSalioRead, MarcarFinalizadoRead, LeerPropia,
              ActualizarUbicacion
<1>3. ASSUME NEW k \in HilosR, AvanceR(k) \/ CaerR(k) PROVE Reparto \/ UNCHANGED vars
  <2>1. CASE CerrarPedido(k)
    BY <2>1, CerrarEsReparto
  <2>2. CASE AceptarPedidoLeer(k) \/ AceptarPedidoCrear(k) \/ MarkLlego(k) \/ MarkSalio(k)
             \/ MarkFinalizado(k) \/ EnviarR(k) \/ CaerR(k)
    BY <2>2 DEF AceptarPedidoLeer, AceptarPedidoCrear, MarkLlego, MarkSalio, MarkFinalizado, EnviarR, CaerR
  <2> QED BY <1>3, <2>1, <2>2 DEF AvanceR
<1>4. CASE UNCHANGED varsTodo
  BY <1>4 DEF varsTodo
<1> QED BY <1>1, <1>2, <1>3, <1>4 DEF NextEntregas, Next

\* The composition implements the market alone: whatever couriers do to an
\* order is a Reparto step, so every theorem about the market holds beside them.
THEOREM Implementa == SpecEntregas => ImplementaPedidos
<1>1. InitEntregas => Init
  BY DEF InitEntregas
<1> QED BY <1>1, PasoDelMercado, InvarianteEntregas, PTL DEF SpecEntregas, ImplementaPedidos, Spec

\* So what the market promises its buyers holds with couriers as well.
THEOREM TiendaConReparto == SpecEntregas => ImplementaTienda
BY Implementa, VendeDeUnaVez DEF ImplementaPedidos

------------------------------------------------------------------------------
(* Deliveries that were not closed and stages that were not announced *)

SinCerrar(o) ==
  /\ FINALIZADO \in asignacion[o].hitos
  /\ o \notin entregados
  /\ ~\E k \in HilosR : hiloR[k].fase = "cerrar" /\ hiloR[k].pedido = o

SinDecir(o, e) == e \in asignacion[o].hitos /\ ~InformadoR(e, o)

PorCerrar == {o \in PedidoIds : SinCerrar(o)}
PorDecir == {x \in PedidoIds \X Etapas : SinDecir(x[1], x[2])}

\* No order and no stage is owed that was not.
SinDeudaNueva ==
  /\ \A o \in PedidoIds : SinCerrar(o)' => SinCerrar(o)
  /\ \A o \in PedidoIds, e \in Etapas : SinDecir(o, e)' => SinDecir(o, e)

LEMMA DeudaMercado ==
  ASSUME IInvEntregas, Mercado PROVE SinDeudaNueva
<1>1. [Next]_vars /\ ConCascada
  BY MercadoDentro
<1>2. \A o \in PedidoIds : asignacion'[o] \in {asignacion[o], SinAsignacion}
  BY <1>1 DEF ConCascada, Cascada
<1>3. \A o \in PedidoIds : asignacion'[o].hitos \subseteq asignacion[o].hitos
  BY <1>2 DEF SinAsignacion
<1>4. entregados \subseteq entregados' /\ hiloR' = hiloR /\ avisosR' = avisosR
  BY <1>1, EntregadosCrece DEF ConCascada
<1> QED BY <1>3, <1>4 DEF SinDeudaNueva, SinCerrar, SinDecir, InformadoR

\* A request that neither closes nor announces goes on, or ends.
LEMMA DeudaHilo ==
  ASSUME IInvEntregas, NEW k \in HilosR, NEW t, hiloR' = [hiloR EXCEPT ![k] = t],
         ~(hiloR[k].fase \in {"cerrar", "avisar"}),
         UNCHANGED <<entregados, asignacion, avisosR>>
  PROVE  SinDeudaNueva
<1>1. \A g \in HilosR : g # k => hiloR'[g] = hiloR[g]
  BY DEF IInvEntregas, IInvR, TiposR
<1> QED BY <1>1 DEF SinDeudaNueva, SinCerrar, SinDecir, InformadoR

\* A row gets a stage, and the request that wrote it will see to it.
LEMMA DeudaFila ==
  ASSUME IInvEntregas, NEW k \in HilosR, NEW o \in PedidoIds, NEW e \in Etapas,
         ~(hiloR[k].fase \in {"cerrar", "avisar"}),
         \A q \in PedidoIds : q # o => asignacion'[q] = asignacion[q],
         asignacion'[o].hitos \subseteq asignacion[o].hitos \cup {e},
         \A g \in HilosR : g # k => hiloR'[g] = hiloR[g],
         e = FINALIZADO => hiloR'[k].fase = "cerrar" /\ hiloR'[k].pedido = o,
         e # FINALIZADO => hiloR'[k].fase = "avisar" /\ hiloR'[k].aviso = [hito |-> e, pedido |-> o],
         UNCHANGED <<entregados, avisosR>>
  PROVE  SinDeudaNueva
<1>1. ASSUME NEW q \in PedidoIds, SinCerrar(q)' PROVE SinCerrar(q)
  <2>1. ~\E g \in HilosR : hiloR[g].fase = "cerrar" /\ hiloR[g].pedido = q
    BY <1>1 DEF SinCerrar
  <2>2. q # o \/ e # FINALIZADO
    BY <1>1 DEF SinCerrar
  <2>3. FINALIZADO \in asignacion[q].hitos
    BY <1>1, <2>2 DEF SinCerrar
  <2> QED BY <1>1, <2>1, <2>3 DEF SinCerrar
<1>2. ASSUME NEW q \in PedidoIds, NEW f \in Etapas, SinDecir(q, f)' PROVE SinDecir(q, f)
  <2>1. ~InformadoR(f, q)
    BY <1>2 DEF SinDecir, InformadoR
  <2>2. ~(q = o /\ f = e)
    BY <1>2 DEF SinDecir, InformadoR
  <2>3. f \in asignacion[q].hitos
    BY <1>2, <2>2 DEF SinDecir
  <2> QED BY <2>1, <2>3 DEF SinDecir
<1> QED BY <1>1, <1>2 DEF SinDeudaNueva

LEMMA DeudaCrear ==
  ASSUME IInvEntregas, NEW k \in HilosR, AceptarPedidoCrear(k) PROVE SinDeudaNueva
<1>1. TiposR /\ hiloR[k] \in PeticionR /\ hiloR[k].fase = "crear" /\ UNCHANGED <<entregados, avisosR>>
  BY DEF IInvEntregas, IInvR, TiposR, AceptarPedidoCrear, vars, historia
<1>2. PICK o \in PedidoIds : o = hiloR[k].pedido
  BY <1>1, EsR
<1>3. CASE Termina(k) /\ UNCHANGED asignacion
  BY <1>1, <1>3, DeudaHilo DEF Termina
<1>4. CASE /\ asignacion' = [asignacion EXCEPT ![o] =
                [estado |-> ASIGNADO, repartidor |-> hiloR[k].repartidor, hitos |-> {ASIGNADO}]]
           /\ PasaAAvisar(k, ASIGNADO, o)
  <2>1. asignacion'[o].hitos = {ASIGNADO} /\ \A q \in PedidoIds : q # o => asignacion'[q] = asignacion[q]
    BY <1>1, <1>4 DEF TiposR
  <2>2. /\ hiloR'[k].fase = "avisar" /\ hiloR'[k].aviso = [hito |-> ASIGNADO, pedido |-> o]
        /\ \A g \in HilosR : g # k => hiloR'[g] = hiloR[g]
    BY <1>1, <1>4 DEF PasaAAvisar, TiposR
  <2>3. ASIGNADO \in Etapas /\ ASIGNADO # FINALIZADO
    BY DEF Etapas, ASIGNADO, FINALIZADO
  <2> QED BY <1>1, <2>1, <2>2, <2>3, DeudaFila
<1> QED BY <1>2, <1>3, <1>4 DEF AceptarPedidoCrear

LEMMA DeudaEtapa ==
  ASSUME IInvEntregas, NEW k \in HilosR, NEW e \in Etapas, NEW f \in {"avisar", "cerrar"},
         hiloR[k].fase \in {"llegar", "salir", "finalizar"},
         f = "cerrar" <=> e = FINALIZADO,
         f = "cerrar" => hiloR[k].fase = "finalizar",
         Marca(k, e, f), UNCHANGED <<vars, avisosR>>
  PROVE  SinDeudaNueva
<1>1. TiposR /\ hiloR[k] \in PeticionR /\ entregados' = entregados
  BY DEF IInvEntregas, IInvR, TiposR, vars, historia
<1>2. PICK o \in PedidoIds : o = hiloR[k].pedido
  BY <1>1, EsR
<1>3. CASE ~Asignado(o)
  BY <1>1, <1>2, <1>3, DeudaHilo DEF Marca, Termina
<1>4. CASE Asignado(o)
  <2>1. asignacion' = [asignacion EXCEPT ![o].estado = e, ![o].hitos = @ \cup {e}]
    BY <1>2, <1>4 DEF Marca
  <2>2. asignacion'[o] = [asignacion[o] EXCEPT !.estado = e, !.hitos = @ \cup {e}]
    BY <1>1, <2>1 DEF TiposR
  <2>3. asignacion'[o].hitos = asignacion[o].hitos \cup {e}
    BY <1>1, <2>2 DEF TiposR, Asignacion
  <2>4. \A q \in PedidoIds : q # o => asignacion'[q] = asignacion[q]
    BY <1>1, <2>1 DEF TiposR
  <2>5. CASE f = "avisar"
    <3>1. PasaAAvisar(k, e, o)
      BY <1>2, <1>4, <2>5 DEF Marca
    <3>2. /\ hiloR'[k].fase = "avisar" /\ hiloR'[k].aviso = [hito |-> e, pedido |-> o]
          /\ \A g \in HilosR : g # k => hiloR'[g] = hiloR[g]
      BY <1>1, <3>1 DEF PasaAAvisar, TiposR
    <3> QED BY <1>1, <2>3, <2>4, <2>5, <3>2, DeudaFila
  <2>6. CASE f = "cerrar"
    <3> DEFINE t == [fase |-> "cerrar", repartidor |-> hiloR[k].repartidor, pedido |-> hiloR[k].pedido]
    <3>1. hiloR' = [hiloR EXCEPT ![k] = [hiloR[k] EXCEPT !.fase = "cerrar"]]
      BY <1>2, <1>4, <2>6 DEF Marca, Pasa
    <3>2. [hiloR[k] EXCEPT !.fase = "cerrar"] = t
      BY <1>1, <2>6, PasaTipo
    <3>3. hiloR' = [hiloR EXCEPT ![k] = t]
      BY <3>1, <3>2
    <3>4. t.fase = "cerrar" /\ t.pedido = o
      BY <1>2
    <3> HIDE DEF t
    <3>5. hiloR'[k] = t /\ \A g \in HilosR : g # k => hiloR'[g] = hiloR[g]
      BY <1>1, <3>3 DEF TiposR
    <3>6. hiloR'[k].fase = "cerrar" /\ hiloR'[k].pedido = o
      BY <3>4, <3>5
    <3>7. /\ ~(hiloR[k].fase \in {"cerrar", "avisar"})
          /\ asignacion'[o].hitos \subseteq asignacion[o].hitos \cup {e}
          /\ UNCHANGED <<entregados, avisosR>>
      BY <1>1, <2>3, <2>6
    <3>8. \A g \in HilosR : g # k => hiloR'[g] = hiloR[g]
      BY <3>5
    <3>9. /\ e = FINALIZADO => hiloR'[k].fase = "cerrar" /\ hiloR'[k].pedido = o
          /\ e # FINALIZADO => hiloR'[k].fase = "avisar" /\ hiloR'[k].aviso = [hito |-> e, pedido |-> o]
      BY <2>6, <3>6
    <3> QED BY <2>4, <3>7, <3>8, <3>9, DeudaFila
  <2> QED BY <2>5, <2>6
<1> QED BY <1>3, <1>4

LEMMA DeudaCerrar ==
  ASSUME IInvEntregas, NEW k \in HilosR, CerrarPedido(k) PROVE SinDeudaNueva
<1>1. /\ TiposR /\ hiloR[k] \in PeticionR /\ hiloR[k].fase = "cerrar" /\ Vale(hiloR[k])
      /\ UNCHANGED <<asignacion, avisosR>>
  BY DEF IInvEntregas, IInvR, TiposR, CerrarPedido
<1>2. PICK o \in PedidoIds : o = hiloR[k].pedido
  BY <1>1, EsR
<1>3. entregados \subseteq entregados'
  BY CerrarEsReparto, EntregadosCrece DEF Next
<1>4. CASE ~Existe(o)
  <2>1. hiloR' = [hiloR EXCEPT ![k] = Libre]
    BY <1>2, <1>4 DEF CerrarPedido, Termina
  <2>2. \A g \in HilosR : g # k => hiloR'[g] = hiloR[g]
    BY <1>1, <2>1 DEF TiposR
  <2>3. asignacion[o].hitos = {}
    <3>1. ~Asignado(o)
      BY <1>4, AsignadoExiste
    <3> QED BY <3>1 DEF IInvEntregas, IInvR, SinFila, SinAsignacion
  <2>4. ASSUME NEW q \in PedidoIds, SinCerrar(q)' PROVE SinCerrar(q)
    BY <1>1, <1>2, <1>3, <2>2, <2>3, <2>4 DEF SinCerrar
  <2>5. ASSUME NEW q \in PedidoIds, NEW e \in Etapas, SinDecir(q, e)' PROVE SinDecir(q, e)
    BY <1>1, <1>2, <2>2, <2>3, <2>5 DEF SinDecir, InformadoR
  <2> QED BY <2>4, <2>5 DEF SinDeudaNueva
<1>5. CASE Existe(o)
  <2>1. MarkEntregado(o) /\ PasaAAvisar(k, FINALIZADO, o)
    BY <1>2, <1>5 DEF CerrarPedido
  <2>2. o \in entregados'
    BY <2>1 DEF MarkEntregado
  <2>3. /\ hiloR'[k].fase = "avisar" /\ hiloR'[k].aviso = [hito |-> FINALIZADO, pedido |-> o]
        /\ \A g \in HilosR : g # k => hiloR'[g] = hiloR[g]
    BY <1>1, <2>1 DEF PasaAAvisar, TiposR
  <2>4. ASSUME NEW q \in PedidoIds, SinCerrar(q)' PROVE SinCerrar(q)
    BY <1>1, <1>2, <1>3, <2>2, <2>3, <2>4 DEF SinCerrar
  <2>5. ASSUME NEW q \in PedidoIds, NEW e \in Etapas, SinDecir(q, e)' PROVE SinDecir(q, e)
    BY <1>1, <1>2, <2>3, <2>5 DEF SinDecir, InformadoR
  <2> QED BY <2>4, <2>5 DEF SinDeudaNueva
<1> QED BY <1>4, <1>5

LEMMA DeudaEnviar ==
  ASSUME IInvEntregas, NEW k \in HilosR, EnviarR(k) PROVE SinDeudaNueva
<1>1. hiloR[k].fase = "avisar" /\ hiloR' = [hiloR EXCEPT ![k] = Libre] /\ avisosR' = avisosR \cup {hiloR[k].aviso}
      /\ UNCHANGED <<entregados, asignacion>>
  BY DEF EnviarR, Termina, vars, historia
<1>2. \A g \in HilosR : g # k => hiloR'[g] = hiloR[g]
  BY <1>1 DEF IInvEntregas, IInvR, TiposR
<1>3. ASSUME NEW q \in PedidoIds, SinCerrar(q)' PROVE SinCerrar(q)
  BY <1>1, <1>2, <1>3 DEF SinCerrar
<1>4. ASSUME NEW q \in PedidoIds, NEW e \in Etapas, SinDecir(q, e)' PROVE SinDecir(q, e)
  BY <1>1, <1>2, <1>4 DEF SinDecir, InformadoR
<1> QED BY <1>3, <1>4 DEF SinDeudaNueva

\* A request that dies leaves one order open and one stage untold at most.
LEMMA DeudaCaer ==
  ASSUME IInvEntregas, NEW k \in HilosR, CaerR(k)
  PROVE  /\ \E o : PorCerrar' \subseteq PorCerrar \cup {o}
         /\ \E x : PorDecir' \subseteq PorDecir \cup {x}
<1>1. hiloR' = [hiloR EXCEPT ![k] = Libre] /\ UNCHANGED <<entregados, asignacion, avisosR>>
  BY DEF CaerR, Termina, vars, historia
<1>2. \A g \in HilosR : g # k => hiloR'[g] = hiloR[g]
  BY <1>1 DEF IInvEntregas, IInvR, TiposR
<1>3. hiloR[k] \in PeticionR
  BY DEF IInvEntregas, IInvR, TiposR
<1>4. ASSUME NEW q \in PedidoIds, SinCerrar(q)', q # hiloR[k].pedido PROVE SinCerrar(q)
  BY <1>1, <1>2, <1>4 DEF SinCerrar
<1>5. PorCerrar' \subseteq PorCerrar \cup {hiloR[k].pedido}
  BY <1>4 DEF PorCerrar
<1>6. CASE hiloR[k].fase = "avisar"
  <2>1. ASSUME NEW q \in PedidoIds, NEW e \in Etapas, SinDecir(q, e)', [hito |-> e, pedido |-> q] # hiloR[k].aviso
        PROVE  SinDecir(q, e)
    BY <1>1, <1>2, <1>6, <2>1 DEF SinDecir, InformadoR
  <2>2. PICK f \in Etapas, p \in PedidoIds : hiloR[k].aviso = [hito |-> f, pedido |-> p]
    BY <1>3, <1>6, EsR DEF AvisoR
  <2>3. PorDecir' \subseteq PorDecir \cup {<<p, f>>}
    <3> SUFFICES ASSUME NEW x \in PorDecir', x # <<p, f>> PROVE x \in PorDecir
      OBVIOUS
    <3>1. PICK q \in PedidoIds, e \in Etapas : x = <<q, e>> /\ SinDecir(q, e)'
      BY DEF PorDecir
    <3>2. [hito |-> e, pedido |-> q] # hiloR[k].aviso
      BY <2>2, <3>1
    <3> QED BY <2>1, <3>1, <3>2 DEF PorDecir
  <2> QED BY <1>5, <2>3
<1>7. CASE hiloR[k].fase # "avisar"
  <2>1. ASSUME NEW q \in PedidoIds, NEW e \in Etapas, SinDecir(q, e)', ~(e = FINALIZADO /\ q = hiloR[k].pedido)
        PROVE  SinDecir(q, e)
    BY <1>1, <1>2, <1>7, <2>1 DEF SinDecir, InformadoR
  <2>2. PorDecir' \subseteq PorDecir \cup {<<hiloR[k].pedido, FINALIZADO>>}
    <3> SUFFICES ASSUME NEW x \in PorDecir', x # <<hiloR[k].pedido, FINALIZADO>> PROVE x \in PorDecir
      OBVIOUS
    <3>1. PICK q \in PedidoIds, e \in Etapas : x = <<q, e>> /\ SinDecir(q, e)'
      BY DEF PorDecir
    <3> QED BY <2>1, <3>1 DEF PorDecir
  <2> QED BY <1>5, <2>2
<1> QED BY <1>6, <1>7

LEMMA UnoMas ==
  ASSUME NEW S, IsFiniteSet(S), NEW n \in Nat, Cardinality(S) <= n, NEW T,
         \E x : T \subseteq S \cup {x}
  PROVE  IsFiniteSet(T) /\ Cardinality(T) <= n + 1
<1>1. PICK x : T \subseteq S \cup {x}
  OBVIOUS
<1>2. IsFiniteSet(S \cup {x}) /\ Cardinality(S \cup {x}) <= n + 1
  <2>1. Cardinality(S) \in Nat
    BY FS_CardinalityType
  <2>2. /\ IsFiniteSet(S \cup {x})
        /\ Cardinality(S \cup {x}) = IF x \in S THEN Cardinality(S) ELSE Cardinality(S) + 1
    BY FS_AddElement
  <2> QED BY <2>1, <2>2
<1> QED BY <1>1, <1>2, FS_Subset, FS_CardinalityType

LEMMA NingunoMas ==
  ASSUME NEW S, IsFiniteSet(S), NEW n \in Nat, Cardinality(S) <= n, NEW T \in SUBSET S
  PROVE  IsFiniteSet(T) /\ Cardinality(T) <= n
BY FS_Subset, FS_CardinalityType

Deudas ==
  /\ IsFiniteSet(PorCerrar) /\ Cardinality(PorCerrar) <= caidasR
  /\ IsFiniteSet(PorDecir) /\ Cardinality(PorDecir) <= caidasR

LEMMA PasoDeudas ==
  ASSUME IInvEntregas, Deudas, [NextEntregas]_varsTodo PROVE Deudas'
<1>1. caidasR \in Nat
  BY DEF IInvEntregas, IInvR, TiposR
<1>2. ASSUME NEW k \in HilosR, CaerR(k) PROVE Deudas'
  <2>1. caidasR' = caidasR + 1
    BY <1>2 DEF CaerR
  <2>2. IsFiniteSet(PorCerrar') /\ Cardinality(PorCerrar') <= caidasR + 1
    BY <1>1, <1>2, DeudaCaer, UnoMas DEF Deudas
  <2>3. IsFiniteSet(PorDecir') /\ Cardinality(PorDecir') <= caidasR + 1
    BY <1>1, <1>2, DeudaCaer, UnoMas DEF Deudas
  <2> QED BY <2>1, <2>2, <2>3 DEF Deudas
<1>3. ASSUME SinDeudaNueva, caidasR' = caidasR PROVE Deudas'
  <2>1. PorCerrar' \in SUBSET PorCerrar /\ PorDecir' \in SUBSET PorDecir
    BY <1>3 DEF SinDeudaNueva, PorCerrar, PorDecir
  <2>2. IsFiniteSet(PorCerrar') /\ Cardinality(PorCerrar') <= caidasR
    BY <1>1, <2>1, NingunoMas DEF Deudas
  <2>3. IsFiniteSet(PorDecir') /\ Cardinality(PorDecir') <= caidasR
    BY <1>1, <2>1, NingunoMas DEF Deudas
  <2> QED BY <1>3, <2>2, <2>3 DEF Deudas
<1>4. CASE Mercado
  <2>1. caidasR' = caidasR
    BY <1>4, MercadoDentro DEF ConCascada
  <2> QED BY <1>3, <1>4, <2>1, DeudaMercado
<1>5. ASSUME NEW k \in HilosR, LlegadaR(k) \/ AceptarPedidoLeer(k) PROVE Deudas'
  <2>1. caidasR' = caidasR /\ UNCHANGED <<entregados, asignacion, avisosR>> /\ hiloR[k].fase \in {"libre", "leer"}
    BY <1>5 DEF LlegadaR, EntraR, AceptarPedidoActivo, MarcarSalioRead, MarcarFinalizadoRead, LeerPropia,
                ActualizarUbicacion, AceptarPedidoLeer, Libre, vars, historia
  <2>2. \E t : hiloR' = [hiloR EXCEPT ![k] = t]
    <3>1. hiloR = [hiloR EXCEPT ![k] = hiloR[k]]
      BY DEF IInvEntregas, IInvR, TiposR
    <3> QED BY <1>5, <3>1
            DEF LlegadaR, AceptarPedidoActivo, MarcarSalioRead, MarcarFinalizadoRead, LeerPropia,
                ActualizarUbicacion, AceptarPedidoLeer, Pasa, Termina
  <2> QED BY <1>3, <2>1, <2>2, DeudaHilo
<1>6. ASSUME NEW k \in HilosR, AceptarPedidoCrear(k) PROVE Deudas'
  BY <1>3, <1>6, DeudaCrear DEF AceptarPedidoCrear
<1>7. ASSUME NEW k \in HilosR, MarkLlego(k) \/ MarkSalio(k) \/ MarkFinalizado(k) PROVE Deudas'
  <2>1. hiloR[k] \in PeticionR /\ caidasR' = caidasR /\ UNCHANGED <<vars, avisosR>>
    BY <1>7 DEF IInvEntregas, IInvR, TiposR, MarkLlego, MarkSalio, MarkFinalizado
  <2>2. CASE MarkLlego(k)
    <3>1. hiloR[k].fase = "llegar" /\ Marca(k, hiloR[k].etapa, "avisar")
      BY <2>2 DEF MarkLlego
    <3>2. hiloR[k].etapa \in Etapas /\ hiloR[k].etapa # FINALIZADO
      BY <2>1, <3>1, EsR DEF Etapas, LLEGO_RECOGIDA, LLEGO_ENTREGA, FINALIZADO
    <3> QED BY <1>3, <2>1, <3>1, <3>2, DeudaEtapa
  <2>3. CASE MarkSalio(k)
    <3>1. hiloR[k].fase = "salir" /\ Marca(k, EN_CAMINO_ENTREGA, "avisar")
      BY <2>3 DEF MarkSalio
    <3>2. EN_CAMINO_ENTREGA \in Etapas /\ EN_CAMINO_ENTREGA # FINALIZADO
      BY DEF Etapas, EN_CAMINO_ENTREGA, FINALIZADO
    <3> QED BY <1>3, <2>1, <3>1, <3>2, DeudaEtapa
  <2>4. CASE MarkFinalizado(k)
    <3>1. hiloR[k].fase = "finalizar" /\ Marca(k, FINALIZADO, "cerrar")
      BY <2>4 DEF MarkFinalizado
    <3>2. FINALIZADO \in Etapas
      BY DEF Etapas
    <3> QED BY <1>3, <2>1, <3>1, <3>2, DeudaEtapa
  <2> QED BY <1>7, <2>2, <2>3, <2>4
<1>8. ASSUME NEW k \in HilosR, CerrarPedido(k) \/ EnviarR(k) PROVE Deudas'
  <2>1. caidasR' = caidasR
    BY <1>8 DEF CerrarPedido, EnviarR
  <2> QED BY <1>3, <1>8, <2>1, DeudaCerrar, DeudaEnviar
<1>9. CASE UNCHANGED varsTodo
  <2>1. caidasR' = caidasR /\ UNCHANGED <<entregados, asignacion, avisosR, hiloR>>
    BY <1>9 DEF varsTodo, varsEntregas, vars, historia
  <2>2. SinDeudaNueva
    BY <2>1 DEF SinDeudaNueva, SinCerrar, SinDecir, InformadoR
  <2> QED BY <1>3, <2>1, <2>2
<1> QED BY <1>2, <1>4, <1>5, <1>6, <1>7, <1>8, <1>9 DEF NextEntregas, AvanceR

LEMMA InicioDeudas == InitEntregas => Deudas
<1> SUFFICES ASSUME InitEntregas PROVE Deudas
  OBVIOUS
<1>1. \A o \in PedidoIds : asignacion[o].hitos = {}
  BY DEF InitEntregas, SinAsignacion
<1>2. PorCerrar = {} /\ PorDecir = {}
  BY <1>1 DEF PorCerrar, PorDecir, SinCerrar, SinDecir
<1> QED BY <1>2, FS_EmptySet DEF Deudas, InitEntregas

LEMMA InvarianteDeudas == SpecEntregas => []Deudas
BY InicioDeudas, PasoDeudas, InvarianteEntregas, PTL DEF SpecEntregas

\* Each delivery that was finished and whose order stays open costs a request
\* that died between mark_finalizado and mark_entregado.
THEOREM Cierra == SpecEntregas => []FinalizadoCierra
<1>1. Deudas => FinalizadoCierra
  BY DEF Deudas, FinalizadoCierra, PorCerrar, SinCerrar
<1> QED BY <1>1, InvarianteDeudas, PTL

\* Each stage that its buyer is never told of costs a request that died between
\* the write of the stage and enviar.
THEOREM Informa == SpecEntregas => []AvisosEntregaCompletos
<1>1. Deudas => AvisosEntregaCompletos
  BY DEF Deudas, AvisosEntregaCompletos, PorDecir, SinDecir
<1> QED BY <1>1, InvarianteDeudas, PTL

------------------------------------------------------------------------------
(* The handlers keep the promise of CicloEntrega *)

\* With couriers that send one request at a time, a request knows its rows.
SerieR ==
  \A g, k \in HilosR :
    hiloR[g] # Libre /\ hiloR[k] # Libre /\ hiloR[g].repartidor = hiloR[k].repartidor => g = k

\* What a request read before it writes the row still holds: its courier has
\* nothing to carry, or carries the order at the stage it saw.
Cabe(t) ==
  /\ t.fase \in {"leer", "crear"} => \A q \in PedidoIds : ~EntregaActiva(q, t.repartidor)
  /\ t.fase \in {"llegar", "salir", "finalizar"} =>
       \/ pedido[t.pedido].estado = "BORRADO"
       \/ /\ asignacion[t.pedido].repartidor = t.repartidor
          /\ asignacion[t.pedido].estado = Previa(t)

\* What a step may do: no other request is of courier r, only rows of r change or
\* appear, deleted orders stay deleted.
Sola(k, r) == \A g \in HilosR : g # k /\ hiloR[g] # Libre => hiloR[g].repartidor # r
SoloFilasDe(r) ==
  \A o \in PedidoIds :
    \/ asignacion'[o] = asignacion[o]
    \/ /\ asignacion'[o].repartidor = r
       /\ asignacion[o].repartidor = r \/ (asignacion[o] = SinAsignacion /\ pedido[o].estado # "BORRADO")
BorradosQuedan == \A o \in PedidoIds : pedido[o].estado = "BORRADO" => pedido'[o].estado = "BORRADO"

IInvCiclo == SerieR /\ \A k \in HilosR : Cabe(hiloR[k])

\* A request of another courier is not disturbed by the rows of courier r.
LEMMA CabeSigue ==
  ASSUME NEW t \in PeticionR, Cabe(t), NEW r, t.repartidor # r \/ t.fase = "libre",
         asignacion \in [PedidoIds -> Asignacion],
         BorradosQuedan,
         SoloFilasDe(r)
  PROVE  Cabe(t)'
<1>1. ASSUME t.fase \in {"leer", "crear"}, NEW q \in PedidoIds PROVE ~EntregaActiva(q, t.repartidor)'
  <2>1. ~EntregaActiva(q, t.repartidor)
    BY <1>1 DEF Cabe
  <2>2. CASE asignacion'[q] = asignacion[q]
    BY <2>1, <2>2 DEF EntregaActiva, Asignado
  <2>3. CASE asignacion'[q].repartidor = r
    BY <1>1, <2>3 DEF EntregaActiva
  <2> QED BY <2>2, <2>3 DEF SoloFilasDe
<1>2. ASSUME t.fase \in {"llegar", "salir", "finalizar"}
      PROVE  \/ pedido'[t.pedido].estado = "BORRADO"
             \/ /\ asignacion'[t.pedido].repartidor = t.repartidor
                /\ asignacion'[t.pedido].estado = Previa(t)
  <2>1. t.pedido \in PedidoIds /\ t.repartidor \in Repartidores /\ t.repartidor # r
    BY <1>2, EsR
  <2>2. CASE pedido[t.pedido].estado = "BORRADO"
    BY <2>1, <2>2 DEF BorradosQuedan
  <2>3. CASE asignacion[t.pedido].repartidor = t.repartidor /\ asignacion[t.pedido].estado = Previa(t)
    <3>1. Previa(t) # "NINGUNA"
      BY DEF Previa, ASIGNADO, LLEGO_RECOGIDA, EN_CAMINO_ENTREGA, LLEGO_ENTREGA, FINALIZADO
    <3>2. asignacion[t.pedido] # SinAsignacion
      BY <2>3, <3>1 DEF SinAsignacion
    <3>3. asignacion'[t.pedido] = asignacion[t.pedido]
      BY <2>1, <2>3, <3>2 DEF SoloFilasDe
    <3> QED BY <2>3, <3>3
  <2> QED BY <1>2, <2>2, <2>3 DEF Cabe
<1> QED BY <1>1, <1>2 DEF Cabe

\* A step of a request of courier r that writes at most rows of r.
LEMMA CicloHilo ==
  ASSUME IInvEntregas, IInvCiclo, NEW k \in HilosR, NEW t \in PeticionR, hiloR' = [hiloR EXCEPT ![k] = t],
         Cabe(t)', NEW r \in Repartidores,
         t = Libre \/ t.repartidor = r,
         Sola(k, r),
         BorradosQuedan,
         SoloFilasDe(r)
  PROVE  IInvCiclo'
<1>1. /\ asignacion \in [PedidoIds -> Asignacion] /\ hiloR'[k] = t
      /\ \A g \in HilosR : hiloR[g] \in PeticionR /\ (g = k \/ hiloR'[g] = hiloR[g])
  BY OtroHilo DEF IInvEntregas, IInvR, TiposR
<1>2. SerieR'
  BY <1>1 DEF IInvCiclo, SerieR, Sola
<1>3. ASSUME NEW g \in HilosR PROVE Cabe(hiloR[g])'
  <2>1. CASE g = k
    <3>1. \A x : x = t => Cabe(x)'
      OBVIOUS
    <3> QED BY <1>1, <2>1 DEF Cabe
  <2>2. CASE g # k
    <3>1. PICK x \in PeticionR : x = hiloR[g]
      BY <1>1
    <3>2. Cabe(x) /\ (x.repartidor # r \/ x.fase = "libre")
      BY <2>2, <3>1, EsR DEF IInvCiclo, Sola
    <3>3. Cabe(x)'
      BY <1>1, <3>2, CabeSigue
    <3>4. hiloR'[g] = x
      BY <1>1, <2>2, <3>1
    <3> QED BY <3>3, <3>4 DEF Cabe
  <2> QED BY <2>1, <2>2
<1> QED BY <1>2, <1>3 DEF IInvCiclo

LEMMA CicloMercado ==
  ASSUME IInvEntregas, IInvCiclo, Mercado
  PROVE  IInvCiclo'
<1>1. Next /\ ConCascada
  BY MercadoDentro
<1>2. TypeOK /\ TiposR /\ UNCHANGED hiloR
  BY <1>1 DEF IInvEntregas, IInv, IInvR, ConCascada
<1>3. \A o \in PedidoIds : asignacion'[o] = IF Existe(o)' THEN asignacion[o] ELSE SinAsignacion
  BY <1>1 DEF ConCascada, Cascada, Existe
<1>4. \A o \in PedidoIds : Reservado(o) => Reservado(o)'
  BY <1>1, <1>2, ReservadoSigue
<1>5. \A o \in PedidoIds : pedido[o].estado = "BORRADO" => pedido'[o].estado = "BORRADO"
  BY <1>1, <1>2, BorradoPaso
<1>6. SerieR'
  BY <1>2 DEF IInvCiclo, SerieR
<1>7. ASSUME NEW t \in PeticionR, Cabe(t) PROVE Cabe(t)'
  <2>1. ASSUME t.fase \in {"leer", "crear"}, NEW q \in PedidoIds PROVE ~EntregaActiva(q, t.repartidor)'
    <3>1. ~EntregaActiva(q, t.repartidor)
      BY <1>7, <2>1 DEF Cabe
    <3>2. SinAsignacion.estado \notin Etapas
      BY DEF SinAsignacion, Etapas, ASIGNADO, LLEGO_RECOGIDA, EN_CAMINO_ENTREGA, LLEGO_ENTREGA, FINALIZADO
    <3> QED BY <1>3, <3>1, <3>2 DEF EntregaActiva, Asignado
  <2>2. ASSUME t.fase \in {"llegar", "salir", "finalizar"}
        PROVE  \/ pedido'[t.pedido].estado = "BORRADO"
               \/ /\ asignacion'[t.pedido].repartidor = t.repartidor
                  /\ asignacion'[t.pedido].estado = Previa(t)
    <3>1. t.pedido \in PedidoIds
      BY <2>2, EsR
    <3>2. CASE pedido[t.pedido].estado = "BORRADO"
      BY <1>5, <3>1, <3>2
    <3>3. CASE asignacion[t.pedido].repartidor = t.repartidor /\ asignacion[t.pedido].estado = Previa(t)
      <4>1. Previa(t) \in Etapas
        BY DEF Previa, Etapas
      <4>2. Reservado(t.pedido)
        BY <3>1, <3>3, <4>1 DEF IInvEntregas, IInvR, AsignadoFueAceptado, Reservado, Asignado
      <4>3. Existe(t.pedido)' \/ pedido'[t.pedido].estado = "BORRADO"
        BY <1>4, <3>1, <4>2 DEF Reservado, Existe, EstadosPedido
      <4> QED BY <1>3, <3>1, <3>3, <4>3
    <3> QED BY <1>7, <2>2, <3>2, <3>3 DEF Cabe
  <2> QED BY <2>1, <2>2 DEF Cabe
<1>8. ASSUME NEW k \in HilosR PROVE Cabe(hiloR[k])'
  <2>1. PICK t \in PeticionR : t = hiloR[k] /\ hiloR'[k] = t
    BY <1>2 DEF TiposR
  <2>2. Cabe(t)'
    BY <1>7, <2>1 DEF IInvCiclo
  <2> QED BY <2>1, <2>2 DEF Cabe
<1> QED BY <1>6, <1>8 DEF IInvCiclo

LEMMA EsSola ==
  ASSUME IInvCiclo, NEW k \in HilosR, hiloR[k] # Libre
  PROVE  Sola(k, hiloR[k].repartidor)
BY DEF IInvCiclo, SerieR, Sola

\* A step of a request that writes neither rows nor orders.
LEMMA CicloQuieto ==
  ASSUME IInvEntregas, IInvCiclo, NEW k \in HilosR, NEW t \in PeticionR, hiloR' = [hiloR EXCEPT ![k] = t],
         Cabe(t), UNCHANGED <<pedido, asignacion>>, NEW r \in Repartidores,
         t = Libre \/ t.repartidor = r,
         Sola(k, r)
  PROVE  IInvCiclo'
<1>1. pedido' = pedido /\ asignacion' = asignacion
  OBVIOUS
<1>2. Cabe(t)'
  BY <1>1 DEF Cabe, EntregaActiva, Asignado
<1>3. SoloFilasDe(r) /\ BorradosQuedan
  BY <1>1 DEF SoloFilasDe, BorradosQuedan
<1> QED BY <1>2, <1>3, CicloHilo

LEMMA CabeLibre == Cabe(Libre) /\ Cabe(Libre)' /\ Libre \in PeticionR
BY TiposDePeticion DEF Cabe

LEMMA CicloLlegada ==
  ASSUME ClienteSerie, IInvEntregas, IInvCiclo, NEW k \in HilosR, LlegadaR(k)
  PROVE  IInvCiclo'
<1>1. PICK r \in Repartidores :
        \/ \E o \in PedidoIds :
             AceptarPedidoActivo(k, r, o) \/ MarcarSalioRead(k, r, o) \/ MarcarFinalizadoRead(k, r, o)
        \/ \E lugar \in Lugares : ActualizarUbicacion(k, r, lugar)
  BY DEF LlegadaR
<1>2. /\ EntraR(k, r) /\ pedido' = pedido /\ asignacion' = asignacion
      /\ Sola(k, r)
  BY <1>1 DEF AceptarPedidoActivo, MarcarSalioRead, MarcarFinalizadoRead, LeerPropia,
              ActualizarUbicacion, EntraR, Sola, vars
<1>3. ASSUME NEW o \in PedidoIds, AceptarPedidoActivo(k, r, o) PROVE IInvCiclo'
  <2> DEFINE t == [fase |-> "leer", repartidor |-> r, pedido |-> o]
  <2>1. t \in PeticionR /\ t.repartidor = r /\ hiloR' = [hiloR EXCEPT ![k] = t]
    BY <1>3, TiposDePeticion DEF AceptarPedidoActivo
  <2>2. Cabe(t)
    BY <1>3 DEF AceptarPedidoActivo, Cabe
  <2> HIDE DEF t
  <2> QED BY <1>2, <2>1, <2>2, CicloQuieto
<1>4. ASSUME NEW o \in PedidoIds, NEW f \in {"salir", "finalizar"}, NEW e,
             LeerPropia(k, r, o, e, f),
             f = "salir" => e = LLEGO_RECOGIDA, f = "finalizar" => e = LLEGO_ENTREGA
      PROVE  IInvCiclo'
  <2> DEFINE t == [fase |-> f, repartidor |-> r, pedido |-> o]
  <2>1. t \in PeticionR /\ t.repartidor = r /\ hiloR' = [hiloR EXCEPT ![k] = t]
    BY <1>4, TiposDePeticion DEF LeerPropia
  <2>2. Cabe(t)
    BY <1>4 DEF LeerPropia, Cabe, Previa
  <2> HIDE DEF t
  <2> QED BY <1>2, <2>1, <2>2, CicloQuieto
<1>5. ASSUME NEW lugar \in Lugares, ActualizarUbicacion(k, r, lugar) PROVE IInvCiclo'
  <2>1. CASE hiloR' = hiloR
    BY <1>2, <2>1 DEF IInvCiclo, SerieR, Cabe, EntregaActiva, Asignado
  <2>2. CASE hiloR' # hiloR
    <3>1. PICK o \in PedidoIds :
            /\ EntregaActiva(o, r)
            /\ EtapaPorUbicacion(asignacion[o].estado, lugar) # "NINGUNA"
            /\ hiloR' = [hiloR EXCEPT ![k] =
                 [fase |-> "llegar", repartidor |-> r, pedido |-> o,
                  etapa |-> EtapaPorUbicacion(asignacion[o].estado, lugar)]]
      BY <1>5, <2>2 DEF ActualizarUbicacion
    <3>2. PICK e : e = EtapaPorUbicacion(asignacion[o].estado, lugar)
      OBVIOUS
    <3>3. \/ e = LLEGO_RECOGIDA /\ asignacion[o].estado = ASIGNADO
          \/ e = LLEGO_ENTREGA /\ asignacion[o].estado = EN_CAMINO_ENTREGA
      BY <3>1, <3>2 DEF EtapaPorUbicacion
    <3> DEFINE t == [fase |-> "llegar", repartidor |-> r, pedido |-> o, etapa |-> e]
    <3>4. t \in PeticionR /\ t.repartidor = r /\ hiloR' = [hiloR EXCEPT ![k] = t]
      BY <3>1, <3>2, <3>3, TiposDePeticion
    <3>5. Cabe(t)
      BY <3>1, <3>3 DEF Cabe, EntregaActiva, Previa, LLEGO_RECOGIDA, LLEGO_ENTREGA
    <3> HIDE DEF t
    <3> QED BY <1>2, <3>4, <3>5, CicloQuieto
  <2> QED BY <2>1, <2>2
<1>6. ASSUME NEW o \in PedidoIds, MarcarSalioRead(k, r, o) \/ MarcarFinalizadoRead(k, r, o) PROVE IInvCiclo'
  BY <1>4, <1>6 DEF MarcarSalioRead, MarcarFinalizadoRead
<1> QED BY <1>1, <1>3, <1>5, <1>6

\* A request that ends, or goes on without writing a row.
LEMMA CicloSigue ==
  ASSUME IInvEntregas, IInvCiclo, NEW k \in HilosR,
         AceptarPedidoLeer(k) \/ EnviarR(k) \/ CaerR(k)
  PROVE  IInvCiclo'
<1>1. /\ hiloR[k] \in PeticionR /\ hiloR[k] # Libre /\ pedido' = pedido /\ asignacion' = asignacion
      /\ Cabe(hiloR[k])
  BY TiposDePeticion DEF AceptarPedidoLeer, EnviarR, CaerR, IInvEntregas, IInvR, TiposR, vars, IInvCiclo
<1>2. PICK r \in Repartidores : r = hiloR[k].repartidor
  BY <1>1, EsR DEF PeticionR, Libre
<1>3. Sola(k, r)
  BY <1>1, <1>2, EsSola
<1>4. CASE Termina(k)
  BY <1>1, <1>3, <1>4, CabeLibre, CicloQuieto DEF Termina
<1>5. CASE AceptarPedidoLeer(k) /\ Pasa(k, "crear")
  <2> DEFINE t == [fase |-> "crear", repartidor |-> hiloR[k].repartidor, pedido |-> hiloR[k].pedido]
  <2>1. hiloR[k].fase = "leer"
    BY <1>5 DEF AceptarPedidoLeer
  <2>2. t \in PeticionR /\ t.fase = "crear" /\ t.repartidor = r
    BY <1>1, <1>2, <2>1, EsR, TiposDePeticion
  <2>3. hiloR' = [hiloR EXCEPT ![k] = t]
    <3>1. [hiloR[k] EXCEPT !.fase = "crear"] = t
      BY <1>1, <2>1, PasaTipo
    <3> QED BY <1>5, <3>1 DEF Pasa
  <2>4. Cabe(t)
    BY <1>1, <1>2, <2>1, <2>2 DEF Cabe
  <2> HIDE DEF t
  <2> QED BY <1>1, <1>3, <2>2, <2>3, <2>4, CicloQuieto, ZenonT(40)
<1> QED BY <1>4, <1>5 DEF AceptarPedidoLeer, EnviarR, CaerR

\* The steps of the abstract cycle.
etapaDe == [o \in PedidoIds |-> asignacion[o].estado]
quienDe == [o \in PedidoIds |-> asignacion[o].repartidor]

\* aceptar_pedido takes the order, or finds it taken or gone.
LEMMA CicloCrear ==
  ASSUME IInvEntregas, IInvCiclo, NEW k \in HilosR, AceptarPedidoCrear(k)
  PROVE  IInvCiclo' /\ [Ciclo!Next]_<<etapaDe, quienDe>>
<1>1. /\ hiloR[k] \in PeticionR /\ hiloR[k].fase = "crear" /\ hiloR[k] # Libre /\ pedido' = pedido
      /\ Cabe(hiloR[k]) /\ asignacion \in [PedidoIds -> Asignacion] /\ SinFila
  BY TiposDePeticion DEF AceptarPedidoCrear, IInvEntregas, IInvR, TiposR, vars, IInvCiclo
<1>2. PICK r \in Repartidores, o \in PedidoIds : r = hiloR[k].repartidor /\ o = hiloR[k].pedido
  BY <1>1, EsR
<1>3. Sola(k, r)
  BY <1>1, <1>2, EsSola
<1>4. CASE Termina(k) /\ UNCHANGED asignacion
  <2>1. IInvCiclo'
    BY <1>1, <1>3, <1>4, CabeLibre, CicloQuieto DEF Termina
  <2>2. UNCHANGED <<etapaDe, quienDe>>
    BY <1>4 DEF etapaDe, quienDe
  <2> QED BY <2>1, <2>2
<1>5. CASE Existe(o) /\ ~Asignado(o)
  <2> DEFINE fila == [estado |-> ASIGNADO, repartidor |-> r, hitos |-> {ASIGNADO}]
  <2>0. PICK t : t = [fase |-> "avisar", repartidor |-> r, para |-> pedido[o].comprador,
                      aviso |-> [hito |-> ASIGNADO, pedido |-> o]]
    OBVIOUS
  <2>1. asignacion' = [asignacion EXCEPT ![o] = fila] /\ hiloR' = [hiloR EXCEPT ![k] = t]
    BY <1>2, <1>5, <2>0 DEF AceptarPedidoCrear, PasaAAvisar
  <2>2. pedido[o].comprador \in Usuarios
    BY <1>5 DEF IInvEntregas, IInv, IntegridadReferencial
  <2>3. t \in PeticionR /\ t.fase = "avisar" /\ t.repartidor = r
    BY <2>0, <2>2, TiposDePeticion DEF Etapas
  <2>4. Cabe(t)'
    BY <2>3 DEF Cabe
  <2>5. asignacion[o] = SinAsignacion /\ pedido[o].estado # "BORRADO"
    BY <1>1, <1>5 DEF SinFila, Existe, EstadosPedido
  <2>6. asignacion'[o] = fila /\ \A q \in PedidoIds : q # o => asignacion'[q] = asignacion[q]
    BY <1>1, <2>1
  <2>7. fila.repartidor = r /\ fila.estado = ASIGNADO
    OBVIOUS
  <2> HIDE DEF fila
  <2>8. Ciclo!Tomar(o, r)
    <3>1. etapaDe[o] = "NINGUNA"
      BY <2>5 DEF etapaDe, SinAsignacion
    <3>2. \A q \in PedidoIds : quienDe[q] = r => etapaDe[q] \in {"NINGUNA", "FINALIZADO"}
      <4>1. \A q \in PedidoIds : ~EntregaActiva(q, r)
        BY <1>1, <1>2 DEF Cabe
      <4>2. \A q \in PedidoIds : asignacion[q].estado \in Etapas \cup {"NINGUNA"}
        BY <1>1 DEF Asignacion
      <4> QED BY <4>1, <4>2 DEF EntregaActiva, Asignado, etapaDe, quienDe, FINALIZADO
    <3>3. etapaDe' = [etapaDe EXCEPT ![o] = "ASIGNADO"]
      BY <2>6, <2>7 DEF etapaDe, ASIGNADO
    <3>4. quienDe' = [quienDe EXCEPT ![o] = r]
      BY <2>6, <2>7 DEF quienDe
    <3> QED BY <3>1, <3>2, <3>3, <3>4 DEF Ciclo!Tomar, Ciclo!EnCurso, Ciclo!Camino, etapaDe, quienDe
  <2>9. SoloFilasDe(r) /\ BorradosQuedan
    BY <1>1, <2>5, <2>6, <2>7 DEF SoloFilasDe, BorradosQuedan
  <2>10. IInvCiclo'
    BY <1>3, <2>1, <2>3, <2>4, <2>9, CicloHilo
  <2> QED BY <2>8, <2>10 DEF Ciclo!Next
<1> QED BY <1>2, <1>4, <1>5 DEF AceptarPedidoCrear

\* A stage is written over the one before it.
LEMMA CicloMarca ==
  ASSUME IInvEntregas, IInvCiclo, NEW k \in HilosR, NEW e \in Etapas \ {ASIGNADO}, NEW f \in {"avisar", "cerrar"},
         hiloR[k].fase \in {"llegar", "salir", "finalizar"},
         e = LLEGO_RECOGIDA => Previa(hiloR[k]) = ASIGNADO,
         e = EN_CAMINO_ENTREGA => Previa(hiloR[k]) = LLEGO_RECOGIDA,
         e = LLEGO_ENTREGA => Previa(hiloR[k]) = EN_CAMINO_ENTREGA,
         e = FINALIZADO => Previa(hiloR[k]) = LLEGO_ENTREGA,
         f = "cerrar" => hiloR[k].fase = "finalizar",
         Marca(k, e, f), UNCHANGED vars
  PROVE  IInvCiclo' /\ [Ciclo!Next]_<<etapaDe, quienDe>>
<1>1. /\ hiloR[k] \in PeticionR /\ hiloR[k] # Libre /\ pedido' = pedido
      /\ Cabe(hiloR[k]) /\ asignacion \in [PedidoIds -> Asignacion]
  BY TiposDePeticion DEF IInvEntregas, IInvR, TiposR, vars, IInvCiclo
<1>2. PICK r \in Repartidores, o \in PedidoIds : r = hiloR[k].repartidor /\ o = hiloR[k].pedido
  BY <1>1, EsR
<1>3. Sola(k, r)
  BY <1>1, <1>2, EsSola
<1>4. CASE ~Asignado(o)
  <2>1. Termina(k) /\ UNCHANGED asignacion
    BY <1>2, <1>4 DEF Marca
  <2>2. IInvCiclo'
    BY <1>1, <1>3, <2>1, CabeLibre, CicloQuieto DEF Termina
  <2>3. UNCHANGED <<etapaDe, quienDe>>
    BY <2>1 DEF etapaDe, quienDe
  <2> QED BY <2>2, <2>3
<1>5. CASE Asignado(o)
  <2>1. asignacion[o].repartidor = r /\ asignacion[o].estado = Previa(hiloR[k])
    <3>1. pedido[o].estado # "BORRADO"
      BY <1>5, BorradoSinAsignacion DEF IInvEntregas
    <3> QED BY <1>1, <1>2, <3>1 DEF Cabe
  <2>2. asignacion' = [asignacion EXCEPT ![o].estado = e, ![o].hitos = @ \cup {e}]
    BY <1>2, <1>5 DEF Marca
  <2>3. PICK fila : /\ fila.repartidor = r /\ fila.estado = e
                    /\ asignacion'[o] = fila /\ \A q \in PedidoIds : q # o => asignacion'[q] = asignacion[q]
    <3>1. asignacion[o] \in Asignacion
      BY <1>1
    <3> DEFINE fila == [asignacion[o] EXCEPT !.estado = e, !.hitos = @ \cup {e}]
    <3>2. fila.repartidor = r /\ fila.estado = e
      BY <2>1, <3>1, ConEtapa
    <3>3. asignacion'[o] = fila /\ \A q \in PedidoIds : q # o => asignacion'[q] = asignacion[q]
      BY <1>1, <2>2
    <3> HIDE DEF fila
    <3> QED BY <3>2, <3>3
  <2>4. PICK t \in PeticionR : hiloR' = [hiloR EXCEPT ![k] = t] /\ t.fase = f /\ t.repartidor = r
    <3>1. CASE f = "avisar"
      <4> DEFINE t == [fase |-> "avisar", repartidor |-> r, para |-> pedido[o].comprador,
                       aviso |-> [hito |-> e, pedido |-> o]]
      <4>1. hiloR' = [hiloR EXCEPT ![k] = t]
        BY <1>2, <1>5, <3>1 DEF Marca, PasaAAvisar
      <4>2. t \in PeticionR
        BY <1>5, AsignadoExiste, TiposDePeticion
      <4> QED BY <3>1, <4>1, <4>2
    <3>2. CASE f = "cerrar"
      <4> DEFINE t == [fase |-> "cerrar", repartidor |-> r, pedido |-> o]
      <4>1. hiloR[k].fase = "finalizar"
        BY <3>2
      <4>2. [hiloR[k] EXCEPT !.fase = "cerrar"] = t
        BY <1>1, <1>2, <4>1, PasaTipo
      <4>3. hiloR' = [hiloR EXCEPT ![k] = t]
        BY <1>2, <1>5, <3>2, <4>2 DEF Marca, Pasa
      <4>4. t \in PeticionR
        BY TiposDePeticion
      <4> QED BY <3>2, <4>3, <4>4
    <3> QED BY <3>1, <3>2
  <2>5. Cabe(t)'
    BY <2>4 DEF Cabe
  <2>6. IInvCiclo'
    <3>1. SoloFilasDe(r) /\ BorradosQuedan
      BY <1>1, <2>1, <2>3 DEF SoloFilasDe, BorradosQuedan
    <3> QED BY <1>3, <2>4, <2>5, <3>1, CicloHilo
  <2>7. Ciclo!Seguir(o)
    <3>1. etapaDe' = [etapaDe EXCEPT ![o] = e]
      BY <2>3 DEF etapaDe
    <3>2. UNCHANGED quienDe
      BY <2>1, <2>3 DEF quienDe
    <3>3. etapaDe[o] = Previa(hiloR[k])
      BY <2>1 DEF etapaDe
    <3>4. \/ etapaDe[o] = "ASIGNADO" /\ e = "LLEGO_RECOGIDA"
          \/ etapaDe[o] = "LLEGO_RECOGIDA" /\ e = "EN_CAMINO_ENTREGA"
          \/ etapaDe[o] = "EN_CAMINO_ENTREGA" /\ e = "LLEGO_ENTREGA"
          \/ etapaDe[o] = "LLEGO_ENTREGA" /\ e = "FINALIZADO"
      BY <3>3 DEF Etapas, ASIGNADO, LLEGO_RECOGIDA, EN_CAMINO_ENTREGA, LLEGO_ENTREGA, FINALIZADO
    <3>5. \E i \in 1..(Len(Ciclo!Camino) - 1) : etapaDe[o] = Ciclo!Camino[i] /\ e = Ciclo!Camino[i + 1]
      <4>1. /\ Len(Ciclo!Camino) = 5 /\ Ciclo!Camino[1] = "ASIGNADO" /\ Ciclo!Camino[2] = "LLEGO_RECOGIDA"
            /\ Ciclo!Camino[3] = "EN_CAMINO_ENTREGA" /\ Ciclo!Camino[4] = "LLEGO_ENTREGA"
            /\ Ciclo!Camino[5] = "FINALIZADO"
        BY DEF Ciclo!Camino
      <4>2. /\ 1 \in 1..(Len(Ciclo!Camino) - 1) /\ 2 \in 1..(Len(Ciclo!Camino) - 1)
            /\ 3 \in 1..(Len(Ciclo!Camino) - 1) /\ 4 \in 1..(Len(Ciclo!Camino) - 1)
            /\ 1 + 1 = 2 /\ 2 + 1 = 3 /\ 3 + 1 = 4 /\ 4 + 1 = 5
        BY <4>1
      <4> QED BY <3>4, <4>1, <4>2, ZenonT(40)
    <3> QED BY <3>1, <3>2, <3>5 DEF Ciclo!Seguir, etapaDe, quienDe
  <2> QED BY <2>6, <2>7 DEF Ciclo!Next
<1> QED BY <1>4, <1>5

LEMMA CicloEtapas ==
  ASSUME IInvEntregas, IInvCiclo, NEW k \in HilosR, MarkLlego(k) \/ MarkSalio(k) \/ MarkFinalizado(k)
  PROVE  IInvCiclo' /\ [Ciclo!Next]_<<etapaDe, quienDe>>
<1> USE DEF Etapas, ASIGNADO, LLEGO_RECOGIDA, EN_CAMINO_ENTREGA, LLEGO_ENTREGA, FINALIZADO
<1>1. hiloR[k] \in PeticionR
  BY DEF IInvEntregas, IInvR, TiposR
<1>2. CASE MarkLlego(k)
  <2>1. hiloR[k].fase = "llegar" /\ Marca(k, hiloR[k].etapa, "avisar") /\ UNCHANGED vars
    BY <1>2 DEF MarkLlego
  <2>2. PICK e \in {LLEGO_RECOGIDA, LLEGO_ENTREGA} : e = hiloR[k].etapa
    BY <1>1, <2>1, EsR
  <2>3. /\ e = LLEGO_RECOGIDA => Previa(hiloR[k]) = ASIGNADO
        /\ e = LLEGO_ENTREGA => Previa(hiloR[k]) = EN_CAMINO_ENTREGA
    BY <2>1, <2>2 DEF Previa
  <2> QED BY <2>1, <2>2, <2>3, CicloMarca
<1>3. CASE MarkSalio(k)
  <2>1. hiloR[k].fase = "salir" /\ Marca(k, EN_CAMINO_ENTREGA, "avisar") /\ UNCHANGED vars
    BY <1>3 DEF MarkSalio
  <2>2. Previa(hiloR[k]) = LLEGO_RECOGIDA
    BY <2>1 DEF Previa
  <2> QED BY <2>1, <2>2, CicloMarca
<1>4. CASE MarkFinalizado(k)
  <2>1. hiloR[k].fase = "finalizar" /\ Marca(k, FINALIZADO, "cerrar") /\ UNCHANGED vars
    BY <1>4 DEF MarkFinalizado
  <2>2. Previa(hiloR[k]) = LLEGO_ENTREGA
    BY <2>1 DEF Previa
  <2> QED BY <2>1, <2>2, CicloMarca
<1> QED BY <1>2, <1>3, <1>4

\* Closing the order leaves the delivery alone.
LEMMA CicloCerrar ==
  ASSUME IInvEntregas, IInvCiclo, NEW k \in HilosR, CerrarPedido(k)
  PROVE  IInvCiclo'
<1>1. /\ hiloR[k] \in PeticionR /\ hiloR[k].fase = "cerrar" /\ hiloR[k] # Libre
      /\ asignacion' = asignacion /\ TypeOK
  BY TiposDePeticion DEF CerrarPedido, IInvEntregas, IInvR, TiposR, IInv
<1>2. PICK r \in Repartidores, o \in PedidoIds : r = hiloR[k].repartidor /\ o = hiloR[k].pedido
  BY <1>1, EsR
<1>3. Sola(k, r)
  BY <1>1, <1>2, EsSola
<1>4. BorradosQuedan
  <2>1. [Next]_vars
    BY CerrarEsReparto DEF Next
  <2> QED BY <1>1, <2>1, BorradoPaso DEF BorradosQuedan
<1>5. PICK t \in PeticionR : /\ hiloR' = [hiloR EXCEPT ![k] = t] /\ (t = Libre \/ t.repartidor = r)
                             /\ t.fase \in {"libre", "avisar"}
  <2>1. CASE Existe(o)
    <3> DEFINE t == [fase |-> "avisar", repartidor |-> r, para |-> pedido[o].comprador,
                     aviso |-> [hito |-> FINALIZADO, pedido |-> o]]
    <3>1. hiloR' = [hiloR EXCEPT ![k] = t]
      BY <1>2, <2>1 DEF CerrarPedido, PasaAAvisar
    <3>2. pedido[o].comprador \in Usuarios
      BY <2>1 DEF IInvEntregas, IInv, IntegridadReferencial
    <3>3. t \in PeticionR
      BY <3>2, TiposDePeticion DEF Etapas
    <3> QED BY <3>1, <3>3
  <2>2. CASE ~Existe(o)
    BY <1>2, <2>2, TiposDePeticion DEF CerrarPedido, Termina
  <2> QED BY <2>1, <2>2
<1>6. Cabe(t)'
  BY <1>5 DEF Cabe
<1>7. SoloFilasDe(r)
  BY <1>1 DEF SoloFilasDe
<1> QED BY <1>3, <1>4, <1>5, <1>6, <1>7, CicloHilo

\* What the market deletes is lost to the cycle.
LEMMA CicloPerdido ==
  ASSUME Mercado
  PROVE  [Ciclo!Next]_<<etapaDe, quienDe>>
<1>1. PICK S : S = {o \in PedidoIds : pedido'[o].estado \notin EstadosPedido}
  OBVIOUS
<1>2. \A o \in PedidoIds : asignacion'[o] = IF o \in S THEN SinAsignacion ELSE asignacion[o]
  BY <1>1, MercadoDentro DEF ConCascada, Cascada
<1>3. S \in SUBSET PedidoIds
  BY <1>1
<1>4. etapaDe' = [o \in PedidoIds |-> IF o \in S THEN "NINGUNA" ELSE etapaDe[o]]
  BY <1>2 DEF etapaDe, SinAsignacion
<1>5. quienDe' = [o \in PedidoIds |-> IF o \in S THEN Nadie ELSE quienDe[o]]
  BY <1>2 DEF quienDe, SinAsignacion
<1>6. Ciclo!Perder(S)
  BY <1>4, <1>5, Zenon DEF Ciclo!Perder, etapaDe, quienDe
<1> QED BY <1>3, <1>6 DEF Ciclo!Next

LEMMA CicloInicio == InitEntregas => IInvCiclo /\ Ciclo!Init
<1> SUFFICES ASSUME InitEntregas PROVE IInvCiclo /\ Ciclo!Init
  OBVIOUS
<1>1. \A k \in HilosR : hiloR[k] = Libre
  BY DEF InitEntregas
<1>2. IInvCiclo
  BY <1>1, CabeLibre DEF IInvCiclo, SerieR, Cabe
<1>3. Ciclo!Init
  BY DEF InitEntregas, Ciclo!Init, SinAsignacion
<1> QED BY <1>2, <1>3

LEMMA CicloPaso ==
  ASSUME ClienteSerie, IInvEntregas, IInvCiclo, [NextEntregas]_varsTodo
  PROVE  IInvCiclo' /\ [Ciclo!Next]_<<etapaDe, quienDe>>
<1>1. asignacion' = asignacion => UNCHANGED <<etapaDe, quienDe>>
  BY DEF etapaDe, quienDe
<1>2. CASE Mercado
  BY <1>2, CicloMercado, CicloPerdido
<1>3. ASSUME NEW k \in HilosR, LlegadaR(k) PROVE IInvCiclo' /\ UNCHANGED asignacion
  <2>1. UNCHANGED asignacion
    BY <1>3 DEF LlegadaR, AceptarPedidoActivo, MarcarSalioRead, MarcarFinalizadoRead, LeerPropia,
                ActualizarUbicacion
  <2> QED BY <1>3, <2>1, CicloLlegada
<1>4. ASSUME NEW k \in HilosR, AceptarPedidoLeer(k) \/ EnviarR(k) \/ CaerR(k) PROVE IInvCiclo' /\ UNCHANGED asignacion
  <2>1. UNCHANGED asignacion
    BY <1>4 DEF AceptarPedidoLeer, EnviarR, CaerR
  <2> QED BY <1>4, <2>1, CicloSigue
<1>5. ASSUME NEW k \in HilosR, CerrarPedido(k) PROVE IInvCiclo' /\ UNCHANGED asignacion
  <2>1. UNCHANGED asignacion
    BY <1>5 DEF CerrarPedido
  <2> QED BY <1>5, <2>1, CicloCerrar
<1>6. ASSUME NEW k \in HilosR, AceptarPedidoCrear(k) PROVE IInvCiclo' /\ [Ciclo!Next]_<<etapaDe, quienDe>>
  BY <1>6, CicloCrear
<1>7. ASSUME NEW k \in HilosR, MarkLlego(k) \/ MarkSalio(k) \/ MarkFinalizado(k)
      PROVE  IInvCiclo' /\ [Ciclo!Next]_<<etapaDe, quienDe>>
  BY <1>7, CicloEtapas
<1>8. CASE UNCHANGED varsTodo
  <2>1. UNCHANGED <<pedido, asignacion, hiloR>>
    BY <1>8 DEF varsTodo, varsEntregas, vars
  <2>2. IInvCiclo'
    BY <2>1 DEF IInvCiclo, SerieR, Cabe, EntregaActiva, Asignado
  <2> QED BY <1>1, <2>1, <2>2
<1> QED BY <1>1, <1>2, <1>3, <1>4, <1>5, <1>6, <1>7, <1>8 DEF NextEntregas, AvanceR

\* With couriers whose app sends one request at a time, delivery implements
\* CicloEntrega: it stays with one courier, who carries one order at a time, and
\* goes through its stages one by one, never back.
THEOREM CumpleCiclo == ASSUME ClienteSerie PROVE SpecEntregas => ImplementaCiclo
<1>1. SpecEntregas => []IInvCiclo
  BY CicloInicio, CicloPaso, InvarianteEntregas, PTL DEF SpecEntregas
<1>2. IInvEntregas /\ IInvCiclo /\ [NextEntregas]_varsTodo => [Ciclo!Next]_<<etapaDe, quienDe>>
  BY CicloPaso
<1> QED BY <1>1, <1>2, CicloInicio, InvarianteEntregas, PTL
        DEF SpecEntregas, ImplementaCiclo, Ciclo!Spec, etapaDe, quienDe
==============================================================================
