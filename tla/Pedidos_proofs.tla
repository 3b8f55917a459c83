--------------------------- MODULE Pedidos_proofs ----------------------------
(***************************************************************************)
(* Theorems about module Pedidos, for every value of its constants.        *)
(***************************************************************************)
EXTENDS Pedidos, Conteo

USE ConstantesPedidos

\* max(0, stock - qty) and max(1, maximo), as the code computes them.
LEMMA AlMenosEsMaximo ==
  ASSUME NEW n \in Int, NEW x \in Int
  PROVE  AlMenos(n, x) = IF x >= n THEN x ELSE n
<1> DEFINE S == {n, x}
<1>1. \E m \in S : \A k \in S : m >= k
  <2>1. CASE x >= n
    BY <2>1
  <2>2. CASE ~(x >= n)
    BY <2>2
  <2> QED BY <2>1, <2>2
<1>2. Max(S) \in S /\ \A k \in S : Max(S) >= k
  BY <1>1 DEF Max
<1> QED BY <1>2 DEF AlMenos

------------------------------------------------------------------------------
(* Types *)

\* What a thread holds in each phase.
LEMMA TipoHilo ==
  ASSUME TypeOK, NEW h \in Hilos
  PROVE  /\ hilo[h] = Libre <=> hilo[h].fase = "libre"
         /\ hilo[h] # Libre => hilo[h].usuario \in Usuarios
         /\ hilo[h].fase \in {"crear", "bloqueado"} => hilo[h].cuenta \in Cuentas
         /\ hilo[h].fase = "crear" => hilo[h].filas \subseteq Publicaciones \cup Usuarios
         /\ hilo[h].fase = "bloqueado" => hilo[h].foto \in [Publicaciones -> Publicacion]
         /\ hilo[h].fase \in {"aceptar", "entregar"} => hilo[h].pedido \in PedidoIds
         /\ hilo[h].fase = "avisar" => hilo[h].aviso \in Aviso /\ hilo[h].para \in Usuarios
<1>1. hilo[h] \in Peticion
  BY DEF TypeOK
<1> QED BY <1>1 DEF Peticion, Libre

\* Storing a request in a thread keeps hilo typed; so does freeing the thread.
LEMMA TipoHiloNuevo ==
  ASSUME TypeOK, NEW h \in Hilos, NEW x \in Peticion, hilo' = [hilo EXCEPT ![h] = x]
  PROVE  hilo' \in [Hilos -> Peticion]
BY DEF TypeOK

LEMMA TipoLibre == Libre \in Peticion
BY DEF Libre, Peticion

LEMMA TipoAvisar ==
  ASSUME NEW u \in Usuarios, NEW v \in Usuarios, NEW o \in PedidoIds,
         NEW t \in {"nuevo", "aceptado", "entregado"}
  PROVE  [fase |-> "avisar", usuario |-> u, para |-> v,
          aviso |-> [tipo |-> t, pedido |-> o]] \in Peticion
BY DEF Peticion, Aviso

\* A row as a seller writes it.
LEMMA TipoFila ==
  ASSUME NEW e \in EstadosPublicacion, NEW s \in Nat, NEW m \in Nat, NEW c \in Nat
  PROVE  [estado |-> e, stock |-> s, maximo |-> AlMenos(1, m), precio |-> c] \in Publicacion
<1>1. AlMenos(1, m) \in Nat
  BY AlMenosEsMaximo
<1> QED BY <1>1 DEF Publicacion

\* The two ways the code changes an order that stays.
LEMMA TipoConEstado ==
  ASSUME NEW x \in Pedido, NEW e \in EstadosPedido
  PROVE  [x EXCEPT !.estado = e] \in Pedido
BY DEF Pedido

LEMMA TipoSinItem ==
  ASSUME NEW x \in Pedido, NEW p \in Publicaciones
  PROVE  [x EXCEPT !.cantidad[p] = 0] \in Pedido
<1>1. [x.cantidad EXCEPT ![p] = 0] \in [Publicaciones -> Nat]
  BY DEF Pedido
<1> QED BY <1>1 DEF Pedido

LEMMA InitTypeOK == Init => TypeOK
<1> SUFFICES ASSUME Init PROVE TypeOK
  OBVIOUS
<1>1. SinPublicacion \in Publicacion
  BY DEF SinPublicacion, Publicacion
<1>2. SinPedido \in Pedido
  BY DEF SinPedido, Pedido
<1> QED BY <1>1, <1>2, TipoLibre DEF Init, TypeOK

\* A live row belongs to its buyer, and its main publication to a seller: the
\* type of Pedido allows Nadie in both, and IntegridadReferencial rules it out.
LEMMA TypeOKPaso == TypeOK /\ IntegridadReferencial /\ [Next]_vars => TypeOK'
<1> SUFFICES ASSUME TypeOK, IntegridadReferencial, [Next]_vars PROVE TypeOK'
  OBVIOUS
<1>1. ASSUME NEW p \in Publicaciones, NEW s \in Stocks, NEW m \in Maximos, NEW c \in Precios,
             CreatePublicacion(p, s, m, c)
      PROVE  TypeOK'
  <2>1. [estado |-> "ACTIVA", stock |-> s, maximo |-> AlMenos(1, m), precio |-> c] \in Publicacion
    BY TipoFila DEF EstadosPublicacion
  <2> QED BY <1>1, <2>1 DEF CreatePublicacion, TypeOK
<1>2. ASSUME NEW p \in Editables, NEW e \in EstadosPublicacion,
             NEW s \in Stocks \cup {publicacion[p].stock},
             NEW m \in Maximos \cup {publicacion[p].maximo},
             NEW c \in Precios \cup {publicacion[p].precio},
             UpdatePublicacion(p, e, s, m, c)
      PROVE  TypeOK'
  <2>1. p \in Publicaciones /\ publicacion[p] \in Publicacion
    BY DEF TypeOK
  <2>2. s \in Nat /\ m \in Nat /\ c \in Nat
    BY <2>1 DEF Publicacion
  <2>3. [estado |-> e, stock |-> s, maximo |-> AlMenos(1, m), precio |-> c] \in Publicacion
    BY <2>2, TipoFila
  <2>4. s + vendidas[p] \in Nat
    BY <2>1, <2>2 DEF TypeOK
  <2> QED BY <1>2, <2>1, <2>3, <2>4 DEF UpdatePublicacion, TypeOK
<1>3. ASSUME NEW p \in Editables, DeletePublicacion(p) PROVE TypeOK'
  <2>1. [SinPublicacion EXCEPT !.estado = "BORRADA"] \in Publicacion
    BY DEF SinPublicacion, Publicacion
  <2>2. ASSUME NEW o \in PedidoIds PROVE SinLaPublicacion(o, p) \in Pedido
    <3>1. [SinPedido EXCEPT !.estado = "BORRADO"] \in Pedido
      BY DEF SinPedido, Pedido
    <3>2. [pedido[o] EXCEPT !.cantidad[p] = 0] \in Pedido
      <4>1. pedido[o] \in Pedido /\ p \in Publicaciones
        BY DEF TypeOK
      <4> QED BY <4>1, TipoSinItem, Zenon
    <3> QED BY <3>1, <3>2 DEF SinLaPublicacion
  <2> QED BY <1>3, <2>1, <2>2 DEF DeletePublicacion, TypeOK
<1>4. ASSUME NEW h \in Hilos, NEW u \in Usuarios, NEW cuenta \in Cuentas,
             CreateOrderCheck(h, u, cuenta)
      PROVE  TypeOK'
  <2>1. [fase |-> "crear", usuario |-> u, cuenta |-> cuenta, filas |-> {}] \in Peticion
    BY DEF Peticion
  <2>2. hilo' \in [Hilos -> Peticion]
    BY <1>4, <2>1, TipoHiloNuevo DEF CreateOrderCheck
  <2> QED BY <1>4, <2>2 DEF CreateOrderCheck, TypeOK, historia
<1>5. ASSUME NEW h \in Hilos, NEW x \in Publicaciones \cup Usuarios, CreateOrderLock(h, x)
      PROVE  TypeOK'
  <2> DEFINE foto  == [p \in Publicaciones |->
                         IF hilo[h].cuenta[p] > 0 THEN publicacion[p] ELSE SinPublicacion]
             filas == hilo[h].filas \cup {x}
  <2>1. foto \in [Publicaciones -> Publicacion]
    BY DEF SinPublicacion, Publicacion, TypeOK
  <2>2. /\ hilo[h].usuario \in Usuarios
        /\ hilo[h].cuenta \in Cuentas
        /\ filas \in SUBSET (Publicaciones \cup Usuarios)
    BY <1>5, TipoHilo DEF CreateOrderLock, Libre
  <2>3. [fase |-> "bloqueado", usuario |-> hilo[h].usuario, cuenta |-> hilo[h].cuenta,
         foto |-> foto] \in Peticion
    BY <2>1, <2>2 DEF Peticion
  <2>4. [fase |-> "crear", usuario |-> hilo[h].usuario, cuenta |-> hilo[h].cuenta,
         filas |-> filas] \in Peticion
    BY <2>2 DEF Peticion
  <2>5. hilo' \in [Hilos -> Peticion]
    BY <1>5, <2>3, <2>4, TipoHiloNuevo, TipoLibre DEF CreateOrderLock
  <2> QED BY <1>5, <2>5 DEF CreateOrderLock, TypeOK, historia
<1>6. ASSUME NEW h \in Hilos, NEW o \in PedidoIds, NEW q \in Publicaciones,
             CreateOrderCommit(h, o, q)
      PROVE  TypeOK'
  <2> DEFINE cuenta == hilo[h].cuenta
             foto   == hilo[h].foto
             u      == hilo[h].usuario
  <2>1. /\ u \in Usuarios
        /\ cuenta \in [Publicaciones -> Nat]
        /\ foto \in [Publicaciones -> Publicacion]
    BY <1>6, TipoHilo DEF CreateOrderCommit, Libre, Cuentas
  <2>2. [estado |-> "PENDIENTE", comprador |-> u, principal |-> q, cantidad |-> cuenta,
         precioUnitario |-> PreciosDe(foto), total |-> TotalPedido(cuenta, foto)] \in Pedido
    <3>1. PreciosDe(foto) \in [Publicaciones -> Nat]
      BY <2>1 DEF PreciosDe, Publicacion
    <3>2. TotalPedido(cuenta, foto) \in Nat
      BY <1>6 DEF CreateOrderCommit, TotalPositivo
    <3> QED BY <2>1, <3>1, <3>2 DEF Pedido, EstadosPedido
  <2>3. Descontado(cuenta, foto) \in [Publicaciones -> Publicacion]
    <3> SUFFICES ASSUME NEW p \in Publicaciones
                 PROVE  [publicacion[p] EXCEPT !.stock = AlMenos(0, foto[p].stock - cuenta[p])]
                          \in Publicacion
      BY DEF Descontado, TypeOK
    <3>1. foto[p].stock - cuenta[p] \in Int
      BY <2>1 DEF Publicacion
    <3>2. AlMenos(0, foto[p].stock - cuenta[p]) \in Nat
      BY <3>1, AlMenosEsMaximo
    <3> QED BY <3>2 DEF TypeOK, Publicacion
  <2>4. hilo' \in [Hilos -> Peticion]
    BY <1>6, <2>1, TipoAvisar, TipoHiloNuevo DEF CreateOrderCommit
  <2>5. [p \in Publicaciones |-> vendidas[p] + cuenta[p]] \in [Publicaciones -> Nat]
    BY <2>1 DEF TypeOK
  <2> QED BY <1>6, <2>2, <2>3, <2>4, <2>5 DEF CreateOrderCommit, TypeOK
<1>7. ASSUME NEW h \in Hilos, CreateOrderRollback(h) \/ CreateOrderDeadlock(h) PROVE TypeOK'
  <2>1. hilo' \in [Hilos -> Peticion]
    BY <1>7, TipoHiloNuevo, TipoLibre DEF CreateOrderRollback, CreateOrderDeadlock
  <2> QED BY <1>7, <2>1 DEF CreateOrderRollback, CreateOrderDeadlock, TypeOK, historia
<1>8. ASSUME NEW h \in Hilos, NEW o \in PedidoIds,
             AcceptOrderRead(h, o) \/ MarkOrderDeliveredRead(h, o)
      PROVE  TypeOK'
  <2>1. pedido[o].comprador \in Usuarios /\ Vendedor[pedido[o].principal] \in Usuarios
    BY <1>8 DEF AcceptOrderRead, MarkOrderDeliveredRead, IntegridadReferencial
  <2>2. \A u \in Usuarios, f \in {"aceptar", "entregar"} :
          [fase |-> f, usuario |-> u, pedido |-> o] \in Peticion
    BY DEF Peticion
  <2>3. hilo' \in [Hilos -> Peticion]
    BY <1>8, <2>1, <2>2, TipoHiloNuevo DEF AcceptOrderRead, MarkOrderDeliveredRead
  <2> QED BY <1>8, <2>3 DEF AcceptOrderRead, MarkOrderDeliveredRead, TypeOK, historia
<1>9. ASSUME NEW h \in Hilos, AcceptOrderSave(h) \/ MarkOrderDeliveredSave(h) PROVE TypeOK'
  <2> DEFINE o == hilo[h].pedido
  <2>1. o \in PedidoIds /\ hilo[h].usuario \in Usuarios
    BY <1>9, TipoHilo DEF AcceptOrderSave, MarkOrderDeliveredSave, Libre
  <2>2. ASSUME NEW e \in EstadosPedido, NEW t \in {"aceptado", "entregado"}, NEW v,
               Existe(o) => v \in Usuarios, GuardaEstado(h, o, e, t, v)
        PROVE  pedido' \in [PedidoIds -> Pedido] /\ hilo' \in [Hilos -> Peticion]
    <3>1. CASE Existe(o)
      <4>1. [pedido[o] EXCEPT !.estado = e] \in Pedido
        <5>1. pedido[o] \in Pedido
          BY <2>1 DEF TypeOK
        <5> QED BY <5>1, <2>2, TipoConEstado, Zenon
      <4>2. hilo' \in [Hilos -> Peticion]
        BY <2>1, <2>2, <3>1, TipoAvisar, TipoHiloNuevo DEF GuardaEstado
      <4> QED BY <2>1, <2>2, <3>1, <4>1, <4>2 DEF GuardaEstado, TypeOK
    <3>2. CASE ~Existe(o)
      BY <2>2, <3>2, TipoHiloNuevo, TipoLibre DEF GuardaEstado, TypeOK
    <3> QED BY <3>1, <3>2
  <2>3. Existe(o) => pedido[o].comprador \in Usuarios /\ Vendedor[pedido[o].principal] \in Usuarios
    BY <2>1 DEF IntegridadReferencial
  <2>4. pedido' \in [PedidoIds -> Pedido] /\ hilo' \in [Hilos -> Peticion]
    BY <1>9, <2>2, <2>3 DEF AcceptOrderSave, MarkOrderDeliveredSave, EstadosPedido
  <2>5. entregados' \subseteq PedidoIds
    BY <1>9, <2>1 DEF AcceptOrderSave, MarkOrderDeliveredSave, Entregado, TypeOK, historia
  <2> QED BY <1>9, <2>4, <2>5 DEF AcceptOrderSave, MarkOrderDeliveredSave, TypeOK, historia
<1>10. ASSUME NEW o \in PedidoIds, MarkEntregado(o) PROVE TypeOK'
  <2>1. [pedido[o] EXCEPT !.estado = "ENTREGADO"] \in Pedido
    <3>1. pedido[o] \in Pedido /\ "ENTREGADO" \in EstadosPedido
      BY DEF TypeOK, EstadosPedido
    <3> QED BY <3>1, TipoConEstado, Zenon
  <2> QED BY <1>10, <2>1 DEF MarkEntregado, TypeOK
<1>11. ASSUME NEW h \in Hilos, Enviar(h) \/ Caer(h) PROVE TypeOK'
  <2>1. hilo' \in [Hilos -> Peticion]
    BY <1>11, TipoHiloNuevo, TipoLibre DEF Enviar, Caer
  <2>2. hilo[h].fase = "avisar" => hilo[h].aviso \in Aviso
    BY TipoHilo
  <2> QED BY <1>11, <2>1, <2>2 DEF Enviar, Caer, TypeOK
<1>12. CASE UNCHANGED vars
  BY <1>12 DEF vars, historia, TypeOK
<1> QED BY <1>1, <1>2, <1>3, <1>4, <1>5, <1>6, <1>7, <1>8, <1>9, <1>10, <1>11, <1>12
        DEF Next, Catalogo, Llegada, Avance, Reparto

------------------------------------------------------------------------------
(* Locks and stock *)

\* The publications a thread holds are live, and once it holds them all they are
\* what it read.
Candados ==
  \A h \in Hilos, p \in Publicaciones : Tiene(h, p) =>
    /\ ExistePublicacion(p)
    /\ hilo[h].fase = "bloqueado" => hilo[h].foto[p] = publicacion[p]

\* No two threads hold the same row.
Exclusion ==
  \A g, h \in Hilos, x \in Publicaciones \cup Usuarios : Tiene(g, x) /\ Tiene(h, x) => g = h

\* An id that no publication has taken has sold nothing.
SinVentas ==
  \A p \in Publicaciones : publicacion[p].estado = "NINGUNA" => vendidas[p] = 0

\* The strengthening: ConservacionStock and IntegridadReferencial are kept by
\* the commit of an order only because its rows are locked and unchanged.
IInv ==
  /\ TypeOK
  /\ IntegridadReferencial
  /\ Candados
  /\ Exclusion
  /\ SinVentas
  /\ ConservacionStock

\* A thread obtains row x only by a CreateOrderLock step of its own that takes x.
LEMMA TieneCompleto ==
  ASSUME NEW h \in Hilos, NEW x \in Publicaciones \cup Usuarios, CreateOrderLock(h, x),
         hilo \in [Hilos -> Peticion], NEW y, Tiene(h, y)'
  PROVE  y = x \/ Tiene(h, y)
BY DEF CreateOrderLock, Tiene, Libre

LEMMA SoloLockToma ==
  ASSUME TypeOK, [Next]_vars, NEW h \in Hilos, NEW y \in Publicaciones \cup Usuarios, Tiene(h, y)'
  PROVE  \/ hilo'[h] = hilo[h]
         \/ /\ \E x \in Publicaciones \cup Usuarios : CreateOrderLock(h, x)
            /\ \A g \in Hilos \ {h} : hilo'[g] = hilo[g]
<1>1. hilo \in [Hilos -> Peticion] /\ hilo'[h].fase \in {"crear", "bloqueado"}
  BY DEF TypeOK, Tiene
<1>2. CASE Catalogo \/ UNCHANGED vars \/ Reparto
  BY <1>2 DEF Catalogo, CreatePublicacion, UpdatePublicacion, DeletePublicacion,
              Reparto, MarkEntregado, vars
<1>3. ASSUME NEW g \in Hilos, NEW x \in Publicaciones \cup Usuarios, CreateOrderLock(g, x)
      PROVE  \/ hilo'[h] = hilo[h]
             \/ g = h /\ \A k \in Hilos \ {h} : hilo'[k] = hilo[k]
  <2>1. \E z : hilo' = [hilo EXCEPT ![g] = z]
    BY <1>3 DEF CreateOrderLock
  <2> QED BY <1>1, <2>1
<1>4. ASSUME NEW g \in Hilos, NEW u \in Usuarios, NEW cuenta \in Cuentas,
             CreateOrderCheck(g, u, cuenta)
      PROVE  hilo'[h] = hilo[h]
  <2>1. g = h => ~Tiene(h, y)'
    BY <1>1, <1>4 DEF CreateOrderCheck, Tiene
  <2> QED BY <1>1, <1>4, <2>1 DEF CreateOrderCheck
<1>5. ASSUME NEW g \in Hilos,
             \/ \E o \in PedidoIds : AcceptOrderRead(g, o) \/ MarkOrderDeliveredRead(g, o)
             \/ \E o \in PedidoIds, p \in Publicaciones : CreateOrderCommit(g, o, p)
             \/ CreateOrderRollback(g)
             \/ CreateOrderDeadlock(g)
             \/ AcceptOrderSave(g)
             \/ MarkOrderDeliveredSave(g)
             \/ Enviar(g)
             \/ Caer(g)
      PROVE  hilo'[h] = hilo[h]
  <2>1. \E x : hilo' = [hilo EXCEPT ![g] = x] /\ x.fase \notin {"crear", "bloqueado"}
    BY <1>5 DEF AcceptOrderRead, MarkOrderDeliveredRead,
                CreateOrderCommit, CreateOrderRollback, CreateOrderDeadlock,
                AcceptOrderSave, MarkOrderDeliveredSave, GuardaEstado, Enviar, Caer, Libre
  <2> QED BY <1>1, <2>1
<1> QED BY <1>2, <1>3, <1>4, <1>5 DEF Next, Llegada, Avance

\* A row changes when it is new, when nobody holds it, or by its holder's commit.
LEMMA FilaCambiada ==
  ASSUME TypeOK, [Next]_vars, NEW p \in Publicaciones, publicacion'[p] # publicacion[p]
  PROVE  \/ publicacion[p].estado = "NINGUNA"
         \/ PublicacionLibre(p)
         \/ \E h \in Hilos, o \in PedidoIds, q \in Publicaciones :
              CreateOrderCommit(h, o, q) /\ Tiene(h, p)
<1>1. publicacion \in [Publicaciones -> Publicacion]
  BY DEF TypeOK
<1>2. CASE Catalogo
  BY <1>1, <1>2 DEF Catalogo, CreatePublicacion, UpdatePublicacion, DeletePublicacion
<1>3. ASSUME NEW h \in Hilos, NEW o \in PedidoIds, NEW q \in Publicaciones,
             CreateOrderCommit(h, o, q)
      PROVE  Tiene(h, p)
  BY <1>1, <1>3 DEF CreateOrderCommit, Descontado, Tiene, Filas, Pedidas
<1>4. ~\E o \in PedidoIds : MarkEntregado(o)
  BY DEF MarkEntregado
<1>5. ~\E h \in Hilos : Llegada(h) \/ Caer(h)
  BY DEF Llegada, CreateOrderCheck, AcceptOrderRead, MarkOrderDeliveredRead, Caer
<1>6. ~\E h \in Hilos : \/ \E x \in Publicaciones \cup Usuarios : CreateOrderLock(h, x)
                        \/ CreateOrderRollback(h) \/ CreateOrderDeadlock(h)
                        \/ AcceptOrderSave(h) \/ MarkOrderDeliveredSave(h) \/ Enviar(h)
  BY DEF CreateOrderLock, CreateOrderRollback, CreateOrderDeadlock, AcceptOrderSave,
         MarkOrderDeliveredSave, Enviar
<1>7. ~UNCHANGED vars
  BY DEF vars
<1> QED BY <1>2, <1>3, <1>4, <1>5, <1>6, <1>7 DEF Next, Avance, Reparto

LEMMA CandadosPaso == IInv /\ [Next]_vars => Candados'
<1> SUFFICES ASSUME IInv, [Next]_vars, NEW h \in Hilos, NEW p \in Publicaciones, Tiene(h, p)'
             PROVE  /\ ExistePublicacion(p)'
                    /\ hilo'[h].fase = "bloqueado" => hilo'[h].foto[p] = publicacion'[p]
  BY DEF Candados
<1>1. CASE hilo'[h] = hilo[h]
  <2>1. /\ Tiene(h, p)
        /\ ExistePublicacion(p)
        /\ hilo[h].fase = "bloqueado" => hilo[h].foto[p] = publicacion[p]
    BY <1>1 DEF IInv, Candados, Tiene
  <2>2. publicacion'[p] = publicacion[p]
    <3> SUFFICES ASSUME publicacion'[p] # publicacion[p] PROVE FALSE
      OBVIOUS
    <3>1. publicacion[p].estado # "NINGUNA" /\ ~PublicacionLibre(p)
      BY <2>1 DEF ExistePublicacion, EstadosPublicacion, PublicacionLibre
    <3>2. PICK g \in Hilos, o \in PedidoIds, q \in Publicaciones :
            CreateOrderCommit(g, o, q) /\ Tiene(g, p)
      BY <3>1, FilaCambiada DEF IInv
    <3>3. g = h
      BY <2>1, <3>2 DEF IInv, Exclusion
    <3>4. hilo'[h].fase = "avisar"
      BY <3>2, <3>3 DEF CreateOrderCommit, IInv, TypeOK
    <3> QED BY <3>4 DEF Tiene
  <2> QED BY <1>1, <2>1, <2>2 DEF ExistePublicacion
<1>2. ASSUME NEW x \in Publicaciones \cup Usuarios, CreateOrderLock(h, x)
      PROVE  /\ ExistePublicacion(p)'
             /\ hilo'[h].fase = "bloqueado" => hilo'[h].foto[p] = publicacion'[p]
  <2>1. publicacion' = publicacion /\ hilo \in [Hilos -> Peticion]
    BY <1>2 DEF CreateOrderLock, IInv, TypeOK
  <2>2. p = x \/ Tiene(h, p)
    BY <1>2, <2>1, TieneCompleto
  <2>3. ExistePublicacion(p)
    <3>1. p = x => ExistePublicacion(p)
      BY <1>2, <2>1 DEF CreateOrderLock, Tiene, Libre
    <3> QED BY <2>2, <3>1 DEF IInv, Candados
  <2>4. hilo'[h].fase = "bloqueado" =>
          /\ hilo'[h].cuenta = hilo[h].cuenta
          /\ hilo'[h].foto = [q \in Publicaciones |->
                                IF hilo[h].cuenta[q] > 0 THEN publicacion[q] ELSE SinPublicacion]
    BY <1>2, <2>1 DEF CreateOrderLock, Libre
  <2>5. hilo'[h].fase = "bloqueado" => hilo[h].cuenta[p] > 0
    <3>1. VendedoresDe(hilo'[h].cuenta) \subseteq Usuarios
      BY DEF VendedoresDe, Pedidas
    <3>2. p \notin Usuarios
      OBVIOUS
    <3> QED BY <2>4, <3>1, <3>2 DEF Tiene, Filas, Pedidas
  <2> QED BY <2>1, <2>3, <2>4, <2>5 DEF ExistePublicacion
<1> QED BY <1>1, <1>2, SoloLockToma DEF IInv

LEMMA ExclusionPaso == IInv /\ [Next]_vars => Exclusion'
<1> SUFFICES ASSUME IInv, [Next]_vars, NEW g \in Hilos, NEW h \in Hilos,
                    NEW y \in Publicaciones \cup Usuarios, Tiene(g, y)', Tiene(h, y)', g # h
             PROVE  FALSE
  BY DEF Exclusion
<1>1. CASE hilo'[g] = hilo[g] /\ hilo'[h] = hilo[h]
  BY <1>1 DEF IInv, Exclusion, Tiene
<1>2. ASSUME NEW a \in Hilos, NEW b \in Hilos, a # b, hilo'[b] = hilo[b],
             NEW x \in Publicaciones \cup Usuarios, CreateOrderLock(a, x),
             Tiene(a, y)', Tiene(b, y)'
      PROVE  FALSE
  <2>1. Tiene(b, y)
    BY <1>2 DEF Tiene
  <2>2. y = x \/ Tiene(a, y)
    BY <1>2, TieneCompleto DEF IInv, TypeOK
  <2>3. ~Tiene(b, x)
    BY <1>2 DEF CreateOrderLock, FilaLibre
  <2> QED BY <1>2, <2>1, <2>2, <2>3 DEF IInv, Exclusion
<1>3. /\ \/ hilo'[g] = hilo[g]
         \/ hilo'[h] = hilo[h] /\ \E x \in Publicaciones \cup Usuarios : CreateOrderLock(g, x)
      /\ \/ hilo'[h] = hilo[h]
         \/ hilo'[g] = hilo[g] /\ \E x \in Publicaciones \cup Usuarios : CreateOrderLock(h, x)
  BY SoloLockToma DEF IInv
<1> QED BY <1>1, <1>2, <1>3

LEMMA ConservacionPaso == IInv /\ [Next]_vars => ConservacionStock' /\ SinVentas'
<1> DEFINE Cuadra(p) == /\ publicacion[p].stock + vendidas[p] = repuesto[p]
                        /\ publicacion[p].estado = "NINGUNA" => vendidas[p] = 0
<1> SUFFICES ASSUME IInv, [Next]_vars, NEW p \in Publicaciones PROVE Cuadra(p)'
  BY DEF ConservacionStock, SinVentas
<1>1. /\ publicacion \in [Publicaciones -> Publicacion]
      /\ repuesto \in [Publicaciones -> Nat]
      /\ vendidas \in [Publicaciones -> Nat]
      /\ publicacion[p].stock \in Nat
      /\ Cuadra(p)
  BY DEF IInv, TypeOK, Publicacion, ConservacionStock, SinVentas
<1>2. CASE UNCHANGED <<publicacion, vendidas, repuesto>>
  BY <1>1, <1>2
<1>3. CASE Catalogo
  <2>1. ASSUME NEW q \in Publicaciones, NEW s \in Stocks, NEW m \in Maximos, NEW c \in Precios,
               CreatePublicacion(q, s, m, c)
        PROVE  Cuadra(p)'
    <3>1. CASE q = p
      BY <1>1, <2>1, <3>1 DEF CreatePublicacion
    <3>2. CASE q # p
      BY <1>1, <2>1, <3>2 DEF CreatePublicacion
    <3> QED BY <3>1, <3>2
  <2>2. ASSUME NEW q \in Editables, NEW e \in EstadosPublicacion,
               NEW s \in Stocks \cup {publicacion[q].stock},
               NEW m \in Maximos \cup {publicacion[q].maximo},
               NEW c \in Precios \cup {publicacion[q].precio},
               UpdatePublicacion(q, e, s, m, c)
        PROVE  Cuadra(p)'
    <3>1. CASE q = p
      BY <1>1, <2>2, <3>1 DEF UpdatePublicacion, EstadosPublicacion
    <3>2. CASE q # p
      BY <1>1, <2>2, <3>2 DEF UpdatePublicacion
    <3> QED BY <3>1, <3>2
  <2>3. ASSUME NEW q \in Editables, DeletePublicacion(q) PROVE Cuadra(p)'
    <3>1. CASE q = p
      BY <1>1, <2>3, <3>1 DEF DeletePublicacion, SinPublicacion
    <3>2. CASE q # p
      BY <1>1, <2>3, <3>2 DEF DeletePublicacion
    <3> QED BY <3>1, <3>2
  <2> QED BY <1>3, <2>1, <2>2, <2>3 DEF Catalogo
<1>4. ASSUME NEW h \in Hilos, NEW o \in PedidoIds, NEW q \in Publicaciones,
             CreateOrderCommit(h, o, q)
      PROVE  Cuadra(p)'
  <2> DEFINE n == hilo[h].cuenta[p]
             f == hilo[h].foto[p]
  <2>1. n \in Nat /\ f \in Publicacion
    <3>1. hilo[h].cuenta \in Cuentas /\ hilo[h].foto \in [Publicaciones -> Publicacion]
      BY <1>4, TipoHilo DEF CreateOrderCommit, IInv
    <3> QED BY <3>1 DEF Cuentas
  <2>2. vendidas'[p] = vendidas[p] + n /\ repuesto'[p] = repuesto[p]
    BY <1>4 DEF CreateOrderCommit
  <2>3. CASE n > 0
    <3>1. /\ f = publicacion[p] /\ f.stock >= n
          /\ publicacion[p].estado = "ACTIVA"
      BY <1>4, <2>3 DEF CreateOrderCommit, Valido, Pedidas, IInv, Candados, Tiene, Filas
    <3>2. f.stock \in Nat /\ f.stock - n \in Int /\ f.stock - n >= 0
      BY <2>1, <3>1 DEF Publicacion
    <3>3. AlMenos(0, f.stock - n) = f.stock - n
      BY <3>2, AlMenosEsMaximo
    <3>4. publicacion'[p] = [publicacion[p] EXCEPT !.stock = AlMenos(0, f.stock - n)]
      BY <1>4, <2>3 DEF CreateOrderCommit, Descontado
    <3>5. publicacion'[p].stock = f.stock - n /\ publicacion'[p].estado = "ACTIVA"
      BY <1>1, <3>1, <3>3, <3>4 DEF Publicacion
    <3> QED BY <1>1, <2>1, <2>2, <3>1, <3>2, <3>5
  <2>4. CASE n = 0
    <3>1. publicacion'[p] = publicacion[p]
      BY <1>4, <2>4 DEF CreateOrderCommit, Descontado
    <3> QED BY <1>1, <2>2, <2>4, <3>1
  <2> QED BY <2>1, <2>3, <2>4
<1>5. CASE UNCHANGED vars
  BY <1>2, <1>5 DEF vars, historia
<1>6. ASSUME \/ \E o \in PedidoIds : MarkEntregado(o)
             \/ \E h \in Hilos : Llegada(h) \/ Caer(h)
      PROVE  UNCHANGED <<publicacion, vendidas, repuesto>>
  BY <1>6 DEF MarkEntregado, Llegada, CreateOrderCheck, AcceptOrderRead,
              MarkOrderDeliveredRead, Caer, historia
<1>7. ASSUME NEW h \in Hilos,
             \/ \E x \in Publicaciones \cup Usuarios : CreateOrderLock(h, x)
             \/ CreateOrderRollback(h) \/ CreateOrderDeadlock(h)
             \/ AcceptOrderSave(h) \/ MarkOrderDeliveredSave(h) \/ Enviar(h)
      PROVE  UNCHANGED <<publicacion, vendidas, repuesto>>
  BY <1>7 DEF CreateOrderLock, CreateOrderRollback, CreateOrderDeadlock, AcceptOrderSave,
              MarkOrderDeliveredSave, Enviar, historia
<1> QED BY <1>2, <1>3, <1>4, <1>5, <1>6, <1>7 DEF Next, Avance, Reparto

------------------------------------------------------------------------------
(* Orders and the rows they point to *)

LEMMA IntegridadPaso == IInv /\ [Next]_vars => IntegridadReferencial'
<1> DEFINE Integro(o) ==
      Existe(o) =>
        /\ pedido[o].principal \in Publicaciones
        /\ pedido[o].comprador \in Usuarios
        /\ pedido[o].cantidad[pedido[o].principal] > 0
        /\ \A p \in Publicaciones : pedido[o].cantidad[p] > 0 => ExistePublicacion(p)
<1> SUFFICES ASSUME IInv, [Next]_vars, NEW o \in PedidoIds PROVE Integro(o)'
  BY DEF IntegridadReferencial
<1>1. /\ Integro(o)
      /\ publicacion \in [Publicaciones -> Publicacion]
      /\ pedido \in [PedidoIds -> Pedido]
  BY DEF IInv, IntegridadReferencial, TypeOK
<1>2. ASSUME \A p \in Publicaciones : ExistePublicacion(p) => ExistePublicacion(p)',
             pedido'[o] = pedido[o] \/ (Existe(o) /\ \E e : pedido'[o] = [pedido[o] EXCEPT !.estado = e])
      PROVE  Integro(o)'
  <2>1. pedido[o] \in Pedido
    BY <1>1
  <2>2. /\ pedido'[o].principal = pedido[o].principal
        /\ pedido'[o].comprador = pedido[o].comprador
        /\ pedido'[o].cantidad = pedido[o].cantidad
        /\ Existe(o)' => Existe(o)
    BY <1>2, <2>1 DEF Pedido, Existe
  <2>3. Existe(o)' => /\ pedido'[o].principal \in Publicaciones
                      /\ pedido'[o].comprador \in Usuarios
                      /\ pedido'[o].cantidad[pedido'[o].principal] > 0
    BY <1>1, <2>2
  <2>4. Existe(o)' => \A p \in Publicaciones : pedido'[o].cantidad[p] > 0 => ExistePublicacion(p)'
    BY <1>1, <1>2, <2>2
  <2> QED BY <2>3, <2>4
<1>3. ASSUME NEW p \in Editables, DeletePublicacion(p) PROVE Integro(o)'
  <2>1. pedido'[o] = SinLaPublicacion(o, p) /\ p \in Publicaciones
    BY <1>3 DEF DeletePublicacion
  <2>2. CASE Existe(o) /\ pedido[o].principal = p
    BY <2>1, <2>2 DEF SinLaPublicacion, SinPedido, Existe, EstadosPedido
  <2>3. CASE ~(Existe(o) /\ pedido[o].principal = p)
    <3>1. pedido[o] \in Pedido
      BY <1>1
    <3>2. /\ pedido'[o].estado = pedido[o].estado
          /\ pedido'[o].principal = pedido[o].principal
          /\ pedido'[o].comprador = pedido[o].comprador
          /\ pedido'[o].cantidad = [pedido[o].cantidad EXCEPT ![p] = 0]
      BY <2>1, <2>3, <3>1 DEF SinLaPublicacion, Pedido
    <3>3. pedido[o].cantidad \in [Publicaciones -> Nat]
      BY <3>1 DEF Pedido
    <3>4. \A q \in Publicaciones \ {p} : ExistePublicacion(q) => ExistePublicacion(q)'
      BY <1>1, <1>3, <2>1 DEF DeletePublicacion, ExistePublicacion
    <3>5. ASSUME Existe(o)'
          PROVE  /\ pedido'[o].principal \in Publicaciones
                 /\ pedido'[o].comprador \in Usuarios
                 /\ pedido'[o].cantidad[pedido'[o].principal] > 0
                 /\ \A q \in Publicaciones : pedido'[o].cantidad[q] > 0 => q # p /\ pedido[o].cantidad[q] > 0
                 /\ Existe(o)
      BY <1>1, <2>3, <3>2, <3>3, <3>5 DEF Existe
    <3> QED BY <1>1, <3>4, <3>5
  <2> QED BY <2>2, <2>3
<1>4. ASSUME NEW h \in Hilos, NEW n \in PedidoIds, NEW q \in Publicaciones,
             CreateOrderCommit(h, n, q)
      PROVE  Integro(o)'
  <2>1. \A p \in Publicaciones : publicacion'[p].estado = publicacion[p].estado
    BY <1>1, <1>4 DEF CreateOrderCommit, Descontado, Publicacion
  <2>2. CASE n = o
    <3>1. /\ hilo[h].usuario \in Usuarios
          /\ hilo[h].cuenta \in [Publicaciones -> Nat]
      BY <1>4, TipoHilo DEF CreateOrderCommit, IInv, Libre, Cuentas
    <3>2. /\ pedido'[o].principal = q
          /\ pedido'[o].comprador = hilo[h].usuario
          /\ pedido'[o].cantidad = hilo[h].cuenta
      BY <1>1, <1>4, <2>2 DEF CreateOrderCommit
    <3>3. hilo[h].cuenta[q] > 0
      BY <1>4 DEF CreateOrderCommit, Pedidas
    <3>4. \A p \in Publicaciones : hilo[h].cuenta[p] > 0 => ExistePublicacion(p)
      BY <1>4 DEF CreateOrderCommit, IInv, Candados, Tiene, Filas, Pedidas
    <3> QED BY <2>1, <3>1, <3>2, <3>3, <3>4 DEF ExistePublicacion
  <2>3. CASE n # o
    BY <1>1, <1>2, <1>4, <2>1, <2>3 DEF CreateOrderCommit, ExistePublicacion
  <2> QED BY <2>2, <2>3
<1>5. ASSUME NEW h \in Hilos, AcceptOrderSave(h) \/ MarkOrderDeliveredSave(h) PROVE Integro(o)'
  <2>1. pedido'[o] = pedido[o] \/ (Existe(o) /\ \E e : pedido'[o] = [pedido[o] EXCEPT !.estado = e])
    <3> DEFINE n == hilo[h].pedido
    <3>1. ASSUME Existe(n), NEW e, pedido' = [pedido EXCEPT ![n].estado = e]
          PROVE  pedido'[o] = pedido[o] \/ (Existe(o) /\ pedido'[o] = [pedido[o] EXCEPT !.estado = e])
      BY <1>1, <3>1
    <3>2. pedido' = pedido \/ (Existe(n) /\ \E e : pedido' = [pedido EXCEPT ![n].estado = e])
      BY <1>5 DEF AcceptOrderSave, MarkOrderDeliveredSave, GuardaEstado
    <3> QED BY <3>1, <3>2
  <2>2. publicacion' = publicacion
    BY <1>5 DEF AcceptOrderSave, MarkOrderDeliveredSave
  <2> QED BY <1>2, <2>1, <2>2 DEF ExistePublicacion
<1>6. ASSUME NEW n \in PedidoIds, MarkEntregado(n) PROVE Integro(o)'
  <2>1. pedido'[o] = pedido[o] \/ (Existe(o) /\ \E e : pedido'[o] = [pedido[o] EXCEPT !.estado = e])
    BY <1>1, <1>6 DEF MarkEntregado, Existe, EstadosPedido
  <2> QED BY <1>2, <1>6, <2>1 DEF MarkEntregado, ExistePublicacion
<1>7. ASSUME NEW p \in Publicaciones, NEW s \in Stocks, NEW m \in Maximos, NEW c \in Precios,
             CreatePublicacion(p, s, m, c)
      PROVE  Integro(o)'
  BY <1>1, <1>2, <1>7 DEF CreatePublicacion, ExistePublicacion, EstadosPublicacion
<1>8. ASSUME NEW p \in Editables, NEW e \in EstadosPublicacion, NEW s, NEW m, NEW c,
             UpdatePublicacion(p, e, s, m, c)
      PROVE  Integro(o)'
  BY <1>1, <1>2, <1>8 DEF UpdatePublicacion, ExistePublicacion
<1>9. CASE UNCHANGED <<publicacion, pedido>>
  BY <1>2, <1>9 DEF ExistePublicacion
<1>10. ASSUME UNCHANGED vars \/ \E h \in Hilos : Llegada(h) \/ Caer(h)
       PROVE  UNCHANGED <<publicacion, pedido>>
  BY <1>10 DEF vars, Llegada, CreateOrderCheck, AcceptOrderRead, MarkOrderDeliveredRead, Caer
<1>11. ASSUME NEW h \in Hilos,
              \/ \E x \in Publicaciones \cup Usuarios : CreateOrderLock(h, x)
             \/ CreateOrderRollback(h) \/ CreateOrderDeadlock(h) \/ Enviar(h)
       PROVE  UNCHANGED <<publicacion, pedido>>
  BY <1>11 DEF CreateOrderLock, CreateOrderRollback, CreateOrderDeadlock, Enviar
<1> QED BY <1>3, <1>4, <1>5, <1>6, <1>7, <1>8, <1>9, <1>10, <1>11 DEF Next, Catalogo, Avance, Reparto

LEMMA InitIInv == Init => IInv
<1> SUFFICES ASSUME Init PROVE IInv
  OBVIOUS
<1>1. TypeOK
  BY InitTypeOK
<1>2. IntegridadReferencial
  BY DEF Init, IntegridadReferencial, Existe, SinPedido, EstadosPedido
<1>3. Candados /\ Exclusion
  BY DEF Init, Candados, Exclusion, Tiene, Libre
<1>4. SinVentas /\ ConservacionStock
  BY DEF Init, SinVentas, ConservacionStock, SinPublicacion
<1> QED BY <1>1, <1>2, <1>3, <1>4 DEF IInv

LEMMA IInvPaso == IInv /\ [Next]_vars => IInv'
BY TypeOKPaso, IntegridadPaso, CandadosPaso, ExclusionPaso, ConservacionPaso DEF IInv

\* Requests leave the market's tables as create_order found them: typed, with
\* whole foreign keys, no unit lost, and each row lock held by one order at most.
THEOREM Invariante == Spec => []IInv
BY InitIInv, IInvPaso, PTL DEF Spec

\* Every variable keeps its type: in particular no stock goes below zero and
\* every live order has a buyer, a main publication and a total of its own.
THEOREM Tipos == Spec => []TypeOK
<1>1. IInv => TypeOK
  BY DEF IInv
<1> QED BY <1>1, Invariante, PTL

\* For any number of buyers, sellers and threads, what a seller supplied is what
\* is left plus what was sold.
THEOREM Conservacion == Spec => []ConservacionStock
<1>1. IInv => ConservacionStock
  BY DEF IInv
<1> QED BY <1>1, Invariante, PTL

\* Deletions of publications leave no order and no item that points to them.
THEOREM Integridad == Spec => []IntegridadReferencial
<1>1. IInv => IntegridadReferencial
  BY DEF IInv
<1> QED BY <1>1, Invariante, PTL

------------------------------------------------------------------------------
(* Deleted orders *)

\* No step writes the row of an order that a cascade has deleted.
LEMMA BorradoPaso ==
  ASSUME TypeOK, [Next]_vars, NEW o \in PedidoIds, pedido[o].estado = "BORRADO"
  PROVE  pedido'[o].estado = "BORRADO"
<1>1. pedido \in [PedidoIds -> Pedido] /\ pedido[o] \in Pedido /\ ~Existe(o)
  BY DEF TypeOK, Existe, EstadosPedido
<1>2. CASE UNCHANGED pedido
  BY <1>2
<1>3. ASSUME NEW p \in Editables, DeletePublicacion(p) PROVE pedido'[o].estado = "BORRADO"
  <2>1. pedido'[o] = [pedido[o] EXCEPT !.cantidad[p] = 0]
    BY <1>1, <1>3 DEF DeletePublicacion, SinLaPublicacion
  <2> QED BY <1>1, <2>1 DEF Pedido
<1>4. ASSUME NEW h \in Hilos, NEW n \in PedidoIds, NEW q \in Publicaciones,
             CreateOrderCommit(h, n, q)
      PROVE  pedido'[o].estado = "BORRADO"
  BY <1>1, <1>4 DEF CreateOrderCommit
<1>5. ASSUME NEW h \in Hilos, AcceptOrderSave(h) \/ MarkOrderDeliveredSave(h)
      PROVE  pedido'[o].estado = "BORRADO"
  BY <1>1, <1>5 DEF AcceptOrderSave, MarkOrderDeliveredSave, GuardaEstado
<1>6. ASSUME NEW n \in PedidoIds, MarkEntregado(n) PROVE pedido'[o].estado = "BORRADO"
  BY <1>1, <1>6 DEF MarkEntregado
<1>7. ASSUME \/ UNCHANGED vars
             \/ \E h \in Hilos : Llegada(h) \/ Caer(h)
             \/ \E p \in Publicaciones, s \in Stocks, m \in Maximos, c \in Precios :
                  CreatePublicacion(p, s, m, c)
             \/ \E p, e, s, m, c : UpdatePublicacion(p, e, s, m, c)
      PROVE  UNCHANGED pedido
  BY <1>7 DEF vars, Llegada, CreateOrderCheck, AcceptOrderRead, MarkOrderDeliveredRead,
              Caer, CreatePublicacion, UpdatePublicacion
<1>8. ASSUME NEW h \in Hilos,
             \/ \E x \in Publicaciones \cup Usuarios : CreateOrderLock(h, x)
             \/ CreateOrderRollback(h) \/ CreateOrderDeadlock(h) \/ Enviar(h)
      PROVE  UNCHANGED pedido
  BY <1>8 DEF CreateOrderLock, CreateOrderRollback, CreateOrderDeadlock, Enviar
<1> QED BY <1>2, <1>3, <1>4, <1>5, <1>6, <1>7, <1>8 DEF Next, Catalogo, Avance, Reparto

\* A handler that read an order before its deletion cannot bring it back.
THEOREM Borrado == Spec => BorradoEsFinal
<1>1. TypeOK /\ [Next]_vars =>
        [\A o \in PedidoIds : pedido[o].estado = "BORRADO" => pedido'[o].estado = "BORRADO"]_pedido
  BY BorradoPaso
<1> QED BY <1>1, Tipos, PTL DEF Spec, BorradoEsFinal

------------------------------------------------------------------------------
(* The total of an order *)

\* The sum of the lines of an order, as a sum of the values of a function.
LEMMA SubtotalEsSuma ==
  ASSUME NEW n \in [Publicaciones -> Nat], NEW r \in [Publicaciones -> Nat]
  PROVE  LET linea == [p \in Publicaciones |-> n[p] * r[p]]
         IN  /\ linea \in [Publicaciones -> Int]
             /\ Subtotal(n, r) = MapThenSumSet(LAMBDA p : linea[p], Publicaciones)
<1> DEFINE linea == [p \in Publicaciones |-> n[p] * r[p]]
           E(s) == CHOOSE x \in s : TRUE
           Una(it) == [s \in SUBSET Publicaciones |-> IF s = {} THEN 0 ELSE n[E(s)] * r[E(s)] + it[s \ {E(s)}]]
           Otra(it) == [s \in SUBSET Publicaciones |-> IF s = {} THEN 0 ELSE linea[E(s)] + it[s \ {E(s)}]]
<1>1. \A s \in SUBSET Publicaciones : s # {} => E(s) \in Publicaciones
  OBVIOUS
<1>2. linea \in [Publicaciones -> Int] /\ \A p \in Publicaciones : linea[p] = n[p] * r[p]
  OBVIOUS
<1>3. Subtotal(n, r) = (CHOOSE it : it = Una(it))[Publicaciones]
  BY DEF Subtotal, MapThenSumSet, MapThenFoldSet
<1>4. MapThenSumSet(LAMBDA p : linea[p], Publicaciones) = (CHOOSE it : it = Otra(it))[Publicaciones]
  BY DEF MapThenSumSet, MapThenFoldSet
<1> HIDE DEF linea, E
<1>5. ASSUME NEW it PROVE Una(it) = Otra(it)
  <2>1. \A s \in SUBSET Publicaciones : s # {} => linea[E(s)] = n[E(s)] * r[E(s)]
    BY <1>1, <1>2
  <2> QED BY <2>1
<1> HIDE DEF Una, Otra
<1>6. (CHOOSE it : it = Una(it)) = (CHOOSE it : it = Otra(it))
  <2>1. \A it : it = Una(it) <=> it = Otra(it)
    BY <1>5
  <2> QED BY <2>1
<1>7. Subtotal(n, r) = MapThenSumSet(LAMBDA p : linea[p], Publicaciones)
  BY <1>3, <1>4, <1>6
<1> USE DEF linea
<1> QED BY <1>2, <1>7

\* An order without some of its units costs no more.
LEMMA SubtotalMonotono ==
  ASSUME NEW n \in [Publicaciones -> Nat], NEW m \in [Publicaciones -> Nat], NEW r \in [Publicaciones -> Nat],
         \A p \in Publicaciones : n[p] <= m[p]
  PROVE  Subtotal(n, r) \in Int /\ Subtotal(m, r) \in Int /\ Subtotal(n, r) <= Subtotal(m, r)
<1> DEFINE f == [p \in Publicaciones |-> n[p] * r[p]]
           g == [p \in Publicaciones |-> m[p] * r[p]]
<1>1. /\ f \in [Publicaciones -> Int] /\ Subtotal(n, r) = MapThenSumSet(LAMBDA p : f[p], Publicaciones)
      /\ g \in [Publicaciones -> Int] /\ Subtotal(m, r) = MapThenSumSet(LAMBDA p : g[p], Publicaciones)
  BY SubtotalEsSuma
<1>2. ASSUME NEW p \in Publicaciones PROVE f[p] <= g[p]
  <2>1. \A x, y, z \in Nat : x <= y => x * z <= y * z
    OBVIOUS
  <2> QED BY <2>1
<1> HIDE DEF f, g
<1>3. /\ MapThenSumSet(LAMBDA p : f[p], Publicaciones) \in Int
      /\ MapThenSumSet(LAMBDA p : g[p], Publicaciones) \in Int
      /\ MapThenSumSet(LAMBDA p : f[p], Publicaciones) <= MapThenSumSet(LAMBDA p : g[p], Publicaciones)
  BY <1>1, <1>2, SumaMonotona, ZenonT(40)
<1> QED BY <1>1, <1>3

\* The account of one order: its lines at the prices of the sale make its total,
\* or a publication is gone.
Cubierto(o) ==
  LET items == Subtotal(pedido[o].cantidad, pedido[o].precioUnitario) + TarifaEntrega
  IN /\ pedido[o].total >= items
     /\ pedido[o].total > items => \E p \in Publicaciones : publicacion[p].estado = "BORRADA"

\* What has been deleted stays deleted.
LEMMA SigueBorrada ==
  ASSUME TypeOK, [Next]_vars, NEW p \in Publicaciones, publicacion[p].estado = "BORRADA"
  PROVE  publicacion'[p].estado = "BORRADA"
<1>1. publicacion \in [Publicaciones -> Publicacion]
  BY DEF TypeOK
<1>2. CASE UNCHANGED publicacion
  BY <1>2
<1>3. ASSUME NEW q \in Publicaciones, NEW s \in Stocks, NEW m \in Maximos, NEW c \in Precios,
             CreatePublicacion(q, s, m, c)
      PROVE  publicacion'[p].estado = "BORRADA"
  BY <1>1, <1>3 DEF CreatePublicacion
<1>4. ASSUME NEW q \in Editables, NEW e \in EstadosPublicacion, NEW s, NEW m, NEW c,
             UpdatePublicacion(q, e, s, m, c)
      PROVE  publicacion'[p].estado = "BORRADA"
  BY <1>1, <1>4 DEF UpdatePublicacion, ExistePublicacion, EstadosPublicacion
<1>5. ASSUME NEW q \in Editables, DeletePublicacion(q) PROVE publicacion'[p].estado = "BORRADA"
  BY <1>1, <1>5 DEF DeletePublicacion, SinPublicacion
<1>6. ASSUME NEW h \in Hilos, NEW o \in PedidoIds, NEW q \in Publicaciones, CreateOrderCommit(h, o, q)
      PROVE  publicacion'[p].estado = "BORRADA"
  BY <1>1, <1>6 DEF CreateOrderCommit, Descontado, Publicacion
<1>7. ASSUME UNCHANGED vars \/ (\E o \in PedidoIds : MarkEntregado(o))
             \/ \E h \in Hilos : Llegada(h) \/ Caer(h)
      PROVE  UNCHANGED publicacion
  BY <1>7 DEF vars, MarkEntregado, Llegada, CreateOrderCheck, AcceptOrderRead, MarkOrderDeliveredRead, Caer
<1>8. ASSUME NEW h \in Hilos,
             \/ \E x \in Publicaciones \cup Usuarios : CreateOrderLock(h, x)
             \/ CreateOrderRollback(h) \/ CreateOrderDeadlock(h)
             \/ AcceptOrderSave(h) \/ MarkOrderDeliveredSave(h) \/ Enviar(h)
      PROVE  UNCHANGED publicacion
  BY <1>8 DEF CreateOrderLock, CreateOrderRollback, CreateOrderDeadlock, AcceptOrderSave,
              MarkOrderDeliveredSave, Enviar
<1> QED BY <1>2, <1>3, <1>4, <1>5, <1>6, <1>7, <1>8 DEF Next, Catalogo, Avance, Reparto

\* An order that only changes state keeps its account.
LEMMA MismaCuenta ==
  ASSUME TypeOK, [Next]_vars, NEW o \in PedidoIds, Existe(o) => Cubierto(o),
         Existe(o)' => /\ Existe(o) /\ pedido'[o].cantidad = pedido[o].cantidad
                       /\ pedido'[o].precioUnitario = pedido[o].precioUnitario
                       /\ pedido'[o].total = pedido[o].total
  PROVE  Existe(o)' => Cubierto(o)'
<1> SUFFICES ASSUME Existe(o)' PROVE Cubierto(o)'
  OBVIOUS
<1>1. (\E p \in Publicaciones : publicacion[p].estado = "BORRADA")
      => \E p \in Publicaciones : publicacion'[p].estado = "BORRADA"
  BY SigueBorrada
<1> HIDE DEF Existe
<1>2. /\ Subtotal(pedido[o].cantidad, pedido[o].precioUnitario)
           = Subtotal(pedido'[o].cantidad, pedido'[o].precioUnitario)
      /\ pedido'[o].total = pedido[o].total /\ Cubierto(o)
  OBVIOUS
<1> QED BY <1>1, <1>2 DEF Cubierto

LEMMA TotalPaso ==
  ASSUME IInv, TotalCubreItems, [Next]_vars
  PROVE  TotalCubreItems'
<1> SUFFICES ASSUME NEW o \in PedidoIds PROVE Existe(o)' => Cubierto(o)'
  BY DEF TotalCubreItems, Cubierto
<1>1. /\ TypeOK /\ pedido \in [PedidoIds -> Pedido] /\ pedido[o] \in Pedido
      /\ publicacion \in [Publicaciones -> Publicacion]
      /\ Existe(o) => Cubierto(o)
  BY DEF IInv, TypeOK, TotalCubreItems, Cubierto
<1>2. ASSUME pedido'[o] = pedido[o] \/ (Existe(o) /\ \E e : pedido'[o] = [pedido[o] EXCEPT !.estado = e])
      PROVE  Existe(o)' => Cubierto(o)'
  <2>1. Existe(o)' => /\ Existe(o) /\ pedido'[o].cantidad = pedido[o].cantidad
                      /\ pedido'[o].precioUnitario = pedido[o].precioUnitario
                      /\ pedido'[o].total = pedido[o].total
    BY <1>1, <1>2 DEF Pedido, Existe
  <2> QED BY <1>1, <2>1, MismaCuenta
<1>3. ASSUME NEW p \in Editables, DeletePublicacion(p) PROVE Existe(o)' => Cubierto(o)'
  <2> DEFINE n == pedido[o].cantidad
             m == [n EXCEPT ![p] = 0]
             r == pedido[o].precioUnitario
  <2>1. p \in Publicaciones /\ pedido'[o] = SinLaPublicacion(o, p)
        /\ publicacion'[p].estado = "BORRADA"
    BY <1>1, <1>3 DEF DeletePublicacion, SinPublicacion
  <2>2. ASSUME Existe(o)' PROVE Existe(o) /\ pedido'[o] = [pedido[o] EXCEPT !.cantidad = m]
    BY <1>1, <2>1, <2>2 DEF SinLaPublicacion, Existe, SinPedido, EstadosPedido, Pedido
  <2>3. n \in [Publicaciones -> Nat] /\ r \in [Publicaciones -> Nat] /\ pedido[o].total \in Nat
    BY <1>1 DEF Pedido
  <2>4. m \in [Publicaciones -> Nat] /\ \A q \in Publicaciones : m[q] <= n[q]
    BY <2>3
  <2>5. ASSUME Existe(o)'
        PROVE  pedido'[o].cantidad = m /\ pedido'[o].precioUnitario = r /\ pedido'[o].total = pedido[o].total
    BY <1>1, <2>2, <2>5 DEF Pedido
  <2> HIDE DEF n, m, r
  <2>6. Subtotal(m, r) \in Int /\ Subtotal(n, r) \in Int /\ Subtotal(m, r) <= Subtotal(n, r)
    BY <2>3, <2>4, SubtotalMonotono
  <2>7. ASSUME Existe(o)' PROVE pedido[o].total >= Subtotal(n, r) + TarifaEntrega
    BY <1>1, <2>2, <2>7 DEF Cubierto, n, r
  <2>8. ASSUME Existe(o)' PROVE pedido[o].total >= Subtotal(m, r) + TarifaEntrega
    BY <2>3, <2>6, <2>7, <2>8
  <2> QED BY <2>1, <2>5, <2>8 DEF Cubierto
<1>4. ASSUME NEW h \in Hilos, NEW n \in PedidoIds, NEW q \in Publicaciones, CreateOrderCommit(h, n, q)
      PROVE  Existe(o)' => Cubierto(o)'
  <2>1. CASE n = o
    <3>1. /\ pedido'[o].cantidad = hilo[h].cuenta
          /\ pedido'[o].precioUnitario = PreciosDe(hilo[h].foto)
          /\ pedido'[o].total = Subtotal(hilo[h].cuenta, PreciosDe(hilo[h].foto)) + TarifaEntrega
          /\ TotalPedido(hilo[h].cuenta, hilo[h].foto) \in Nat
      BY <1>1, <1>4, <2>1 DEF CreateOrderCommit, TotalPedido, TotalPositivo
    <3>2. Subtotal(hilo[h].cuenta, PreciosDe(hilo[h].foto)) + TarifaEntrega \in Nat
      BY <3>1 DEF TotalPedido
    <3> QED BY <3>1, <3>2 DEF Cubierto
  <2>2. CASE n # o
    BY <1>1, <1>2, <1>4, <2>2 DEF CreateOrderCommit
  <2> QED BY <2>1, <2>2
<1>5. ASSUME NEW h \in Hilos, AcceptOrderSave(h) \/ MarkOrderDeliveredSave(h) PROVE Existe(o)' => Cubierto(o)'
  <2> DEFINE n == hilo[h].pedido
  <2>1. ASSUME Existe(n), NEW e, pedido' = [pedido EXCEPT ![n].estado = e]
        PROVE  pedido'[o] = pedido[o] \/ (Existe(o) /\ pedido'[o] = [pedido[o] EXCEPT !.estado = e])
    BY <1>1, <2>1
  <2>2. pedido' = pedido \/ (Existe(n) /\ \E e : pedido' = [pedido EXCEPT ![n].estado = e])
    BY <1>5 DEF AcceptOrderSave, MarkOrderDeliveredSave, GuardaEstado
  <2> QED BY <1>2, <2>1, <2>2
<1>6. ASSUME NEW n \in PedidoIds, MarkEntregado(n) PROVE Existe(o)' => Cubierto(o)'
  BY <1>1, <1>2, <1>6 DEF MarkEntregado, Existe, EstadosPedido
<1>7. CASE UNCHANGED pedido
  BY <1>2, <1>7
<1>8. ASSUME \/ \E p \in Publicaciones, s \in Stocks, m \in Maximos, c \in Precios : CreatePublicacion(p, s, m, c)
             \/ \E p \in Editables : \E e, s, m, c : UpdatePublicacion(p, e, s, m, c)
             \/ UNCHANGED vars
             \/ \E h \in Hilos : Llegada(h) \/ Caer(h)
      PROVE  UNCHANGED pedido
  BY <1>8 DEF vars, CreatePublicacion, UpdatePublicacion, Llegada, CreateOrderCheck, AcceptOrderRead,
              MarkOrderDeliveredRead, Caer
<1>9. ASSUME NEW h \in Hilos,
             \/ \E x \in Publicaciones \cup Usuarios : CreateOrderLock(h, x)
             \/ CreateOrderRollback(h) \/ CreateOrderDeadlock(h) \/ Enviar(h)
      PROVE  UNCHANGED pedido
  BY <1>9 DEF CreateOrderLock, CreateOrderRollback, CreateOrderDeadlock, Enviar
<1> QED BY <1>3, <1>4, <1>5, <1>6, <1>7, <1>8, <1>9 DEF Next, Catalogo, Avance, Reparto

\* For any carts, prices and deletions: the total of a live order is what its
\* items cost when they were sold plus the fee, and more only when a publication
\* has been deleted.
THEOREM Totales == Spec => []TotalCubreItems
<1>1. Init => TotalCubreItems
  BY DEF Init, TotalCubreItems, Existe, SinPedido, EstadosPedido
<1>2. IInv /\ TotalCubreItems /\ [Next]_vars => TotalCubreItems'
  BY TotalPaso
<1> QED BY <1>1, <1>2, Invariante, PTL DEF Spec

------------------------------------------------------------------------------
(* Clients that send one request at a time *)

\* Two requests in flight are of different accounts.
Serie ==
  \A g, h \in Hilos :
    hilo[g] # Libre /\ hilo[h] # Libre /\ hilo[g].usuario = hilo[h].usuario => g = h

\* While an account's order is being created, whatever else of it is active has
\* been delivered once: the check of create_order still holds.
CreandoSinActivo ==
  \A h \in Hilos, o \in PedidoIds :
    /\ hilo[h].fase \in {"crear", "bloqueado"}
    /\ pedido[o].comprador = hilo[h].usuario
    /\ PedidoActivo(o)
    => o \in entregados

EntregadoConsta ==
  \A o \in PedidoIds : pedido[o].estado = "ENTREGADO" => o \in entregados

InvSerie ==
  /\ Serie
  /\ CreandoSinActivo
  /\ EntregadoConsta
  /\ UnActivoSinResurreccion

\* A thread that is busy after a step serves the account it served before, or
\* it has just let that account's request in.
LEMMA UsuarioPaso ==
  ASSUME TypeOK, [Next]_vars, NEW h \in Hilos, hilo'[h] # Libre
  PROVE  \/ hilo[h] # Libre /\ hilo'[h].usuario = hilo[h].usuario
         \/ Entra(h, hilo'[h].usuario) /\ \A g \in Hilos \ {h} : hilo'[g] = hilo[g]
<1>1. hilo \in [Hilos -> Peticion]
  BY DEF TypeOK
<1>2. CASE UNCHANGED hilo
  BY <1>2
<1>3. CASE \E g \in Hilos : Llegada(g)
  BY <1>1, <1>3 DEF Llegada, CreateOrderCheck, AcceptOrderRead, MarkOrderDeliveredRead
<1>4. ASSUME NEW g \in Hilos, Avance(g) \/ Caer(g)
      PROVE  \E x : /\ hilo' = [hilo EXCEPT ![g] = x]
                    /\ x = Libre \/ (x.usuario = hilo[g].usuario /\ hilo[g] # Libre)
  BY <1>4 DEF Avance, CreateOrderLock, CreateOrderCommit, CreateOrderRollback,
              CreateOrderDeadlock, AcceptOrderSave, MarkOrderDeliveredSave, GuardaEstado,
              Enviar, Caer, Libre
<1>5. CASE \E g \in Hilos : Avance(g) \/ Caer(g)
  BY <1>1, <1>4, <1>5
<1>6. ASSUME UNCHANGED vars \/ Catalogo \/ Reparto
      PROVE  UNCHANGED hilo
  BY <1>6 DEF vars, Catalogo, CreatePublicacion, UpdatePublicacion, DeletePublicacion,
              Reparto, MarkEntregado
<1> QED BY <1>2, <1>3, <1>5, <1>6 DEF Next, Reparto

LEMMA SeriePaso ==
  ASSUME ClienteSerie, TypeOK, Serie, [Next]_vars
  PROVE  Serie'
<1> SUFFICES ASSUME NEW g \in Hilos, NEW h \in Hilos, hilo'[g] # Libre, hilo'[h] # Libre,
                    hilo'[g].usuario = hilo'[h].usuario, g # h
             PROVE  FALSE
  BY DEF Serie, Libre
<1>1. /\ hilo[g] # Libre /\ hilo'[g].usuario = hilo[g].usuario
      /\ hilo[h] # Libre /\ hilo'[h].usuario = hilo[h].usuario
      => FALSE
  BY DEF Serie
<1>2. ASSUME NEW a \in Hilos, NEW b \in Hilos, a # b, hilo'[a].usuario = hilo'[b].usuario,
             hilo'[b] # Libre,
             Entra(a, hilo'[a].usuario), \A k \in Hilos \ {a} : hilo'[k] = hilo[k]
      PROVE  FALSE
  BY <1>2 DEF Entra
<1> QED BY <1>1, <1>2, UsuarioPaso

\* What a step does to one order, and to the set of those once delivered.
LEMMA PedidoPaso ==
  ASSUME TypeOK, EntregadoConsta, [Next]_vars, NEW o \in PedidoIds
  PROVE  /\ entregados \subseteq entregados'
         /\ pedido'[o].estado = "ENTREGADO" => o \in entregados'
         /\ PedidoActivo(o)' /\ o \notin entregados' =>
              \/ PedidoActivo(o) /\ pedido'[o].comprador = pedido[o].comprador
              \/ \E h \in Hilos, q \in Publicaciones : CreateOrderCommit(h, o, q)
<1> DEFINE Concl ==
      /\ entregados \subseteq entregados'
      /\ pedido'[o].estado = "ENTREGADO" => o \in entregados'
      /\ PedidoActivo(o)' /\ o \notin entregados' =>
           \/ PedidoActivo(o) /\ pedido'[o].comprador = pedido[o].comprador
           \/ \E h \in Hilos, q \in Publicaciones : CreateOrderCommit(h, o, q)
<1>1. /\ pedido \in [PedidoIds -> Pedido]
      /\ pedido[o] \in Pedido
      /\ pedido[o].estado = "ENTREGADO" => o \in entregados
  BY DEF TypeOK, EntregadoConsta
<1>2. CASE entregados' = entregados /\ pedido'[o] = pedido[o]
  BY <1>1, <1>2 DEF PedidoActivo, Existe
<1>3. ASSUME NEW p \in Editables, DeletePublicacion(p) PROVE Concl
  <2>1. entregados' = entregados /\ pedido'[o] = SinLaPublicacion(o, p)
    BY <1>3 DEF DeletePublicacion
  <2>2. CASE Existe(o) /\ pedido[o].principal = p
    BY <2>1, <2>2 DEF SinLaPublicacion, SinPedido, PedidoActivo, Existe, EstadosPedido
  <2>3. CASE ~(Existe(o) /\ pedido[o].principal = p)
    <3>1. pedido'[o].estado = pedido[o].estado /\ pedido'[o].comprador = pedido[o].comprador
      BY <1>1, <2>1, <2>3 DEF SinLaPublicacion, Pedido
    <3> QED BY <1>1, <2>1, <3>1 DEF PedidoActivo, Existe
  <2> QED BY <2>2, <2>3
<1>4. ASSUME NEW h \in Hilos, NEW n \in PedidoIds, NEW q \in Publicaciones,
             CreateOrderCommit(h, n, q)
      PROVE  Concl
  <2>1. entregados' = entregados
    BY <1>4 DEF CreateOrderCommit
  <2>2. CASE n = o
    BY <1>1, <1>4, <2>1, <2>2 DEF CreateOrderCommit
  <2>3. CASE n # o
    BY <1>1, <1>2, <1>4, <2>1, <2>3 DEF CreateOrderCommit
  <2> QED BY <2>2, <2>3
<1>5. ASSUME NEW h \in Hilos, AcceptOrderSave(h) PROVE Concl
  <2> DEFINE n == hilo[h].pedido
  <2>1. entregados' = entregados
    BY <1>5 DEF AcceptOrderSave, historia
  <2>2. CASE Existe(n) /\ n = o
    <3>1. pedido'[o] = [pedido[o] EXCEPT !.estado = "ACEPTADO"]
      BY <1>1, <1>5, <2>2 DEF AcceptOrderSave, GuardaEstado
    <3>2. pedido'[o].estado = "ACEPTADO" /\ pedido'[o].comprador = pedido[o].comprador
      BY <1>1, <3>1 DEF Pedido
    <3>3. PedidoActivo(o) \/ o \in entregados
      BY <1>1, <2>2 DEF PedidoActivo, Existe, EstadosPedido, EstadosTerminales
    <3> QED BY <2>1, <3>2, <3>3
  <2>3. CASE ~(Existe(n) /\ n = o)
    <3>1. pedido'[o] = pedido[o]
      BY <1>1, <1>5, <2>3 DEF AcceptOrderSave, GuardaEstado
    <3> QED BY <1>2, <2>1, <3>1
  <2> QED BY <2>2, <2>3
<1>6. ASSUME NEW n \in PedidoIds, entregados' = entregados \cup {n},
             pedido' = [pedido EXCEPT ![n].estado = "ENTREGADO"]
      PROVE  Concl
  <2>1. CASE n = o
    BY <1>6, <2>1
  <2>2. CASE n # o
    <3>1. pedido'[o] = pedido[o]
      BY <1>6, <2>2
    <3> QED BY <1>1, <1>6, <2>2, <3>1 DEF PedidoActivo, Existe
  <2> QED BY <2>1, <2>2
<1>7. ASSUME NEW h \in Hilos, MarkOrderDeliveredSave(h) PROVE Concl
  <2>1. hilo[h].pedido \in PedidoIds
    BY <1>7, TipoHilo DEF MarkOrderDeliveredSave
  <2> QED BY <1>2, <1>6, <1>7, <2>1 DEF MarkOrderDeliveredSave, GuardaEstado, Entregado
<1>8. ASSUME NEW n \in PedidoIds, MarkEntregado(n) PROVE Concl
  BY <1>6, <1>8 DEF MarkEntregado
<1>9. ASSUME \/ UNCHANGED vars
             \/ \E h \in Hilos : Llegada(h) \/ Caer(h)
             \/ \E p \in Publicaciones, s \in Stocks, m \in Maximos, c \in Precios :
                  CreatePublicacion(p, s, m, c)
             \/ \E p, e, s, m, c : UpdatePublicacion(p, e, s, m, c)
      PROVE  UNCHANGED <<pedido, entregados>>
  BY <1>9 DEF vars, historia, Llegada, CreateOrderCheck, AcceptOrderRead,
              MarkOrderDeliveredRead, Caer, CreatePublicacion, UpdatePublicacion
<1>10. ASSUME NEW h \in Hilos,
              \/ \E x \in Publicaciones \cup Usuarios : CreateOrderLock(h, x)
             \/ CreateOrderRollback(h) \/ CreateOrderDeadlock(h) \/ Enviar(h)
       PROVE  UNCHANGED <<pedido, entregados>>
  BY <1>10 DEF CreateOrderLock, CreateOrderRollback, CreateOrderDeadlock, Enviar, historia
<1>11. CASE UNCHANGED <<pedido, entregados>>
  BY <1>2, <1>11
<1>12. ASSUME NEW h \in Hilos, Avance(h) PROVE Concl
  BY <1>4, <1>5, <1>7, <1>10, <1>11, <1>12 DEF Avance
<1>13. ASSUME Catalogo PROVE Concl
  BY <1>3, <1>9, <1>11, <1>13 DEF Catalogo
<1>14. Concl
  BY <1>8, <1>9, <1>11, <1>12, <1>13 DEF Next, Reparto
<1> QED BY <1>14

\* A thread creates an order after a step if it did before or has just checked.
LEMMA CreandoPaso ==
  ASSUME TypeOK, [Next]_vars, NEW h \in Hilos, hilo'[h].fase \in {"crear", "bloqueado"}
  PROVE  \/ hilo[h].fase \in {"crear", "bloqueado"} /\ hilo'[h].usuario = hilo[h].usuario
         \/ \E cuenta \in Cuentas : CreateOrderCheck(h, hilo'[h].usuario, cuenta)
<1>1. hilo \in [Hilos -> Peticion]
  BY DEF TypeOK
<1>2. CASE UNCHANGED hilo
  BY <1>2
<1>3. ASSUME NEW g \in Hilos, NEW u \in Usuarios, NEW cuenta \in Cuentas,
             CreateOrderCheck(g, u, cuenta)
      PROVE  hilo'[h] = hilo[h] \/ (g = h /\ hilo'[h].usuario = u)
  BY <1>1, <1>3 DEF CreateOrderCheck
<1>4. CASE \E g \in Hilos, u \in Usuarios, cuenta \in Cuentas : CreateOrderCheck(g, u, cuenta)
  BY <1>3, <1>4
<1>5. CASE \E g \in Hilos, x \in Publicaciones \cup Usuarios : CreateOrderLock(g, x)
  BY <1>1, <1>5 DEF CreateOrderLock, Libre
<1>6. ASSUME NEW g \in Hilos,
             \/ \E o \in PedidoIds : AcceptOrderRead(g, o) \/ MarkOrderDeliveredRead(g, o)
             \/ \E o \in PedidoIds, p \in Publicaciones : CreateOrderCommit(g, o, p)
             \/ CreateOrderRollback(g)
             \/ CreateOrderDeadlock(g)
             \/ AcceptOrderSave(g)
             \/ MarkOrderDeliveredSave(g)
             \/ Enviar(g)
             \/ Caer(g)
      PROVE  hilo'[h] = hilo[h]
  <2>1. \E x : hilo' = [hilo EXCEPT ![g] = x] /\ x.fase \notin {"crear", "bloqueado"}
    BY <1>6 DEF AcceptOrderRead, MarkOrderDeliveredRead,
                CreateOrderCommit, CreateOrderRollback, CreateOrderDeadlock,
                AcceptOrderSave, MarkOrderDeliveredSave, GuardaEstado, Enviar, Caer, Libre
  <2> QED BY <1>1, <2>1
<1>7. ASSUME UNCHANGED vars \/ Catalogo \/ Reparto
      PROVE  UNCHANGED hilo
  BY <1>7 DEF vars, Catalogo, CreatePublicacion, UpdatePublicacion, DeletePublicacion,
              Reparto, MarkEntregado
<1> QED BY <1>2, <1>4, <1>5, <1>6, <1>7 DEF Next, Llegada, Avance, Reparto

LEMMA InvSeriePaso ==
  ASSUME ClienteSerie, TypeOK, InvSerie, [Next]_vars
  PROVE  InvSerie'
<1>1. Serie'
  BY SeriePaso DEF InvSerie
<1>2. EntregadoConsta'
  BY PedidoPaso DEF InvSerie, EntregadoConsta
<1>3. CreandoSinActivo'
  <2> SUFFICES ASSUME NEW h \in Hilos, NEW o \in PedidoIds,
                      hilo'[h].fase \in {"crear", "bloqueado"},
                      pedido'[o].comprador = hilo'[h].usuario,
                      PedidoActivo(o)', o \notin entregados'
               PROVE  FALSE
    BY DEF CreandoSinActivo
  <2>1. ASSUME NEW cuenta \in Cuentas, CreateOrderCheck(h, hilo'[h].usuario, cuenta)
        PROVE  FALSE
    BY <2>1 DEF CreateOrderCheck, TieneActivo, PedidoActivo, Existe
  <2>2. hilo[h].fase \in {"crear", "bloqueado"} /\ hilo'[h].usuario = hilo[h].usuario
    BY <2>1, CreandoPaso
  <2>3. CASE PedidoActivo(o) /\ pedido'[o].comprador = pedido[o].comprador
    <3>1. o \in entregados
      BY <2>2, <2>3 DEF InvSerie, CreandoSinActivo
    <3> QED BY <3>1, PedidoPaso DEF InvSerie
  <2>4. ASSUME NEW g \in Hilos, NEW q \in Publicaciones, CreateOrderCommit(g, o, q)
        PROVE  FALSE
    <3>1. pedido'[o].comprador = hilo[g].usuario
      BY <2>4 DEF CreateOrderCommit, TypeOK
    <3>2. g = h
      BY <2>2, <2>4, <3>1 DEF CreateOrderCommit, InvSerie, Serie, Libre
    <3>3. hilo'[h].fase = "avisar"
      BY <2>4, <3>2 DEF CreateOrderCommit, TypeOK
    <3> QED BY <3>3
  <2> QED BY <2>3, <2>4, PedidoPaso DEF InvSerie
<1>4. UnActivoSinResurreccion'
  <2> SUFFICES ASSUME NEW o1 \in PedidoIds, NEW o2 \in PedidoIds,
                      PedidoActivo(o1)', PedidoActivo(o2)',
                      pedido'[o1].comprador = pedido'[o2].comprador,
                      o1 \notin entregados', o2 \notin entregados', o1 # o2
               PROVE  FALSE
    BY DEF UnActivoSinResurreccion
  <2>1. ASSUME NEW a \in PedidoIds, NEW b \in PedidoIds, a # b, PedidoActivo(b)',
               pedido'[a].comprador = pedido'[b].comprador, b \notin entregados',
               NEW h \in Hilos, NEW q \in Publicaciones, CreateOrderCommit(h, a, q)
        PROVE  FALSE
    <3>1. /\ pedido'[b] = pedido[b]
          /\ pedido'[a].comprador = hilo[h].usuario
          /\ entregados' = entregados
      BY <2>1 DEF CreateOrderCommit, TypeOK
    <3>2. PedidoActivo(b)
      BY <2>1, <3>1 DEF PedidoActivo, Existe
    <3>3. hilo[h].fase = "bloqueado"
      BY <2>1 DEF CreateOrderCommit
    <3> QED BY <2>1, <3>1, <3>2, <3>3 DEF InvSerie, CreandoSinActivo
  <2>2. /\ PedidoActivo(o1) /\ pedido'[o1].comprador = pedido[o1].comprador
        /\ PedidoActivo(o2) /\ pedido'[o2].comprador = pedido[o2].comprador
    BY <2>1, PedidoPaso DEF InvSerie
  <2>3. o1 \notin entregados /\ o2 \notin entregados
    BY PedidoPaso DEF InvSerie
  <2> QED BY <2>2, <2>3 DEF InvSerie, UnActivoSinResurreccion
<1> QED BY <1>1, <1>2, <1>3, <1>4 DEF InvSerie

LEMMA InitInvSerie == Init => InvSerie
BY DEF Init, InvSerie, Serie, CreandoSinActivo, EntregadoConsta, UnActivoSinResurreccion,
       PedidoActivo, Existe, EstadosPedido, SinPedido, Libre

\* However many threads serve it, a client that waits for each answer never gets
\* two active orders, unless a late acceptance revives a delivered one.
THEOREM UnActivo == ASSUME ClienteSerie PROVE Spec => []UnActivoSinResurreccion
<1>1. TypeOK /\ InvSerie /\ [Next]_vars => InvSerie'
  BY InvSeriePaso
<1>2. InvSerie => UnActivoSinResurreccion
  BY DEF InvSerie
<1> QED BY <1>1, <1>2, InitInvSerie, Tipos, PTL DEF Spec

------------------------------------------------------------------------------
(* Notices *)

\* Thread h is about to send notice t of order o.
Avisara(h, t, o) == hilo[h].fase = "avisar" /\ hilo[h].aviso = [tipo |-> t, pedido |-> o]

\* What a step may do to the state of an order, and who then tells of it.
CambiaEstado(o) ==
  \/ pedido'[o].estado = pedido[o].estado
  \/ Existe(o) /\ pedido'[o].estado \in {"BORRADO", "ENTREGADO"}
  \/ Existe(o) /\ pedido'[o].estado = "ACEPTADO" /\ \E h \in Hilos : Avisara(h, "aceptado", o)'
  \/ /\ pedido[o].estado = "NINGUNO" /\ pedido'[o].estado = "PENDIENTE"
     /\ \E h \in Hilos : Avisara(h, "nuevo", o)'

LEMMA EstadoPaso ==
  ASSUME TypeOK, [Next]_vars, NEW o \in PedidoIds
  PROVE  CambiaEstado(o)
<1>1. pedido \in [PedidoIds -> Pedido] /\ pedido[o] \in Pedido /\ hilo \in [Hilos -> Peticion]
  BY DEF TypeOK
<1>2. CASE UNCHANGED pedido
  BY <1>2 DEF CambiaEstado
<1>3. ASSUME NEW p \in Editables, DeletePublicacion(p) PROVE CambiaEstado(o)
  <2>1. CASE Existe(o) /\ pedido[o].principal = p
    <3>1. pedido'[o].estado = "BORRADO"
      BY <1>3, <2>1 DEF DeletePublicacion, SinLaPublicacion, SinPedido
    <3> QED BY <2>1, <3>1 DEF CambiaEstado
  <2>2. CASE ~(Existe(o) /\ pedido[o].principal = p)
    <3>1. pedido'[o] = [pedido[o] EXCEPT !.cantidad[p] = 0]
      BY <1>3, <2>2 DEF DeletePublicacion, SinLaPublicacion
    <3> QED BY <1>1, <3>1 DEF Pedido, CambiaEstado
  <2> QED BY <2>1, <2>2
<1>4. ASSUME NEW h \in Hilos, NEW n \in PedidoIds, NEW q \in Publicaciones,
             CreateOrderCommit(h, n, q)
      PROVE  CambiaEstado(o)
  <2>1. CASE n = o
    <3>1. pedido[o].estado = "NINGUNO" /\ pedido'[o].estado = "PENDIENTE"
      BY <1>1, <1>4, <2>1 DEF CreateOrderCommit
    <3>2. Avisara(h, "nuevo", o)'
      BY <1>1, <1>4, <2>1 DEF CreateOrderCommit, Avisara
    <3> QED BY <3>1, <3>2 DEF CambiaEstado
  <2>2. CASE n # o
    BY <1>1, <1>4, <2>2 DEF CreateOrderCommit, CambiaEstado
  <2> QED BY <2>1, <2>2
<1>5. ASSUME NEW h \in Hilos, NEW n \in PedidoIds, NEW e \in {"ACEPTADO", "ENTREGADO"}, NEW t, NEW v,
             GuardaEstado(h, n, e, t, v), e = "ACEPTADO" => t = "aceptado"
      PROVE  CambiaEstado(o)
  <2>1. CASE n = o /\ Existe(o)
    <3>1. pedido' = [pedido EXCEPT ![o].estado = e]
      BY <1>5, <2>1 DEF GuardaEstado
    <3>2. pedido'[o].estado = e
      BY <1>1, <3>1 DEF Pedido
    <3>3. Avisara(h, t, o)'
      BY <1>1, <1>5, <2>1 DEF GuardaEstado, Avisara
    <3> QED BY <1>5, <2>1, <3>2, <3>3 DEF CambiaEstado
  <2>2. CASE ~(n = o /\ Existe(o))
    <3>1. pedido'[o] = pedido[o]
      BY <1>1, <1>5, <2>2 DEF GuardaEstado
    <3> QED BY <3>1 DEF CambiaEstado
  <2> QED BY <2>1, <2>2
<1>6. ASSUME NEW h \in Hilos, AcceptOrderSave(h) \/ MarkOrderDeliveredSave(h) PROVE CambiaEstado(o)
  <2>1. hilo[h].pedido \in PedidoIds
    BY <1>6, TipoHilo DEF AcceptOrderSave, MarkOrderDeliveredSave
  <2> QED BY <1>5, <1>6, <2>1 DEF AcceptOrderSave, MarkOrderDeliveredSave
<1>7. ASSUME NEW n \in PedidoIds, MarkEntregado(n) PROVE CambiaEstado(o)
  <2>1. CASE n = o
    BY <1>1, <1>7, <2>1 DEF MarkEntregado, Pedido, CambiaEstado
  <2>2. CASE n # o
    BY <1>1, <1>7, <2>2 DEF MarkEntregado, CambiaEstado
  <2> QED BY <2>1, <2>2
<1>8. ASSUME \/ UNCHANGED vars
             \/ \E h \in Hilos : Llegada(h) \/ Caer(h)
             \/ \E p \in Publicaciones, s \in Stocks, m \in Maximos, c \in Precios :
                  CreatePublicacion(p, s, m, c)
             \/ \E p, e, s, m, c : UpdatePublicacion(p, e, s, m, c)
      PROVE  UNCHANGED pedido
  BY <1>8 DEF vars, Llegada, CreateOrderCheck, AcceptOrderRead, MarkOrderDeliveredRead,
              Caer, CreatePublicacion, UpdatePublicacion
<1>9. ASSUME NEW h \in Hilos,
             \/ \E x \in Publicaciones \cup Usuarios : CreateOrderLock(h, x)
             \/ CreateOrderRollback(h) \/ CreateOrderDeadlock(h) \/ Enviar(h)
      PROVE  UNCHANGED pedido
  BY <1>9 DEF CreateOrderLock, CreateOrderRollback, CreateOrderDeadlock, Enviar
<1>10. CASE UNCHANGED vars \/ Catalogo
  BY <1>2, <1>3, <1>8, <1>10 DEF Catalogo
<1>11. CASE Reparto
  BY <1>7, <1>11 DEF Reparto
<1>12. ASSUME NEW h \in Hilos, Avance(h) PROVE CambiaEstado(o)
  BY <1>2, <1>4, <1>6, <1>9, <1>12 DEF Avance
<1>13. CASE \E h \in Hilos : Llegada(h) \/ Caer(h)
  BY <1>2, <1>8, <1>13
<1> QED BY <1>10, <1>11, <1>12, <1>13 DEF Next

\* The steps of a thread that is not to send a notice: it goes on with x, which
\* may be a notice of an order that exists from now on.
Prosigue(h, x) ==
  /\ hilo' = [hilo EXCEPT ![h] = x]
  /\ hilo[h].fase # "avisar"
  /\ x.fase = "avisar" => x.aviso.pedido \in PedidoIds /\ Existe(x.aviso.pedido)'
  /\ UNCHANGED <<avisos, perdidos>>
  /\ caidas' \in {caidas, caidas + 1}

\* The step that ends one which is: it sends its notice, fails to, or dies.
Concluye(h) ==
  /\ hilo' = [hilo EXCEPT ![h] = Libre]
  /\ hilo[h].fase = "avisar"
  /\ UNCHANGED pedido
  /\ \/ avisos' = avisos \cup {hilo[h].aviso} /\ UNCHANGED <<perdidos, caidas>>
     \/ /\ perdidos' = perdidos \cup {hilo[h].aviso}
        /\ UNCHANGED avisos
        /\ \/ caidas' = caidas /\ ~Existe(hilo[h].aviso.pedido)
           \/ caidas' = caidas + 1

LEMMA HiloPaso ==
  ASSUME TypeOK, [Next]_vars
  PROVE  \/ UNCHANGED <<hilo, avisos, perdidos, caidas>>
         \/ \E h \in Hilos : \E x : Prosigue(h, x)
         \/ \E h \in Hilos : Concluye(h)
<1>1. CASE UNCHANGED vars \/ Catalogo \/ Reparto
  BY <1>1 DEF vars, historia, Catalogo, CreatePublicacion, UpdatePublicacion, DeletePublicacion,
              Reparto, MarkEntregado
<1>2. \A h \in Hilos : hilo[h] = Libre => hilo[h].fase # "avisar"
  BY DEF Libre
<1>3. ASSUME NEW h \in Hilos, Llegada(h) PROVE \E x : Prosigue(h, x)
  <2>1. ASSUME NEW u \in Usuarios, NEW c \in Cuentas, CreateOrderCheck(h, u, c) PROVE \E x : Prosigue(h, x)
    BY <1>2, <2>1 DEF CreateOrderCheck, Entra, Prosigue, historia
  <2>2. ASSUME NEW o \in PedidoIds, AcceptOrderRead(h, o) \/ MarkOrderDeliveredRead(h, o)
        PROVE  \E x : Prosigue(h, x)
    BY <1>2, <2>2 DEF AcceptOrderRead, MarkOrderDeliveredRead, Entra, Prosigue, historia
  <2> QED BY <1>3, <2>1, <2>2 DEF Llegada
<1>4. ASSUME NEW h \in Hilos, NEW r \in Publicaciones \cup Usuarios, CreateOrderLock(h, r)
      PROVE  \E x : Prosigue(h, x)
  BY <1>4 DEF CreateOrderLock, Prosigue, historia, Libre
<1>5. ASSUME NEW h \in Hilos, NEW o \in PedidoIds, NEW q \in Publicaciones, CreateOrderCommit(h, o, q)
      PROVE  \E x : Prosigue(h, x)
  <2>1. Existe(o)'
    BY <1>5 DEF CreateOrderCommit, Existe, EstadosPedido, TypeOK
  <2> QED BY <1>5, <2>1 DEF CreateOrderCommit, Prosigue
<1>6. ASSUME NEW h \in Hilos, CreateOrderRollback(h) \/ CreateOrderDeadlock(h)
      PROVE  \E x : Prosigue(h, x)
  <2>1. hilo[h].fase # "avisar"
    BY <1>6 DEF CreateOrderRollback, CreateOrderDeadlock, EnCiclo, Espera
  <2> QED BY <1>6, <2>1 DEF CreateOrderRollback, CreateOrderDeadlock, Prosigue, historia, Libre
<1>7. ASSUME NEW h \in Hilos, NEW o \in PedidoIds, NEW e \in {"ACEPTADO", "ENTREGADO"}, NEW t, NEW v,
             hilo[h].fase # "avisar", GuardaEstado(h, o, e, t, v), UNCHANGED <<avisos, perdidos, caidas>>
      PROVE  \E x : Prosigue(h, x)
  <2>1. CASE ~Existe(o)
    BY <1>7, <2>1 DEF GuardaEstado, Prosigue, Libre
  <2>2. CASE Existe(o)
    <3> DEFINE x == [fase |-> "avisar", usuario |-> hilo[h].usuario, para |-> v,
                     aviso |-> [tipo |-> t, pedido |-> o]]
    <3>1. hilo' = [hilo EXCEPT ![h] = x] /\ pedido' = [pedido EXCEPT ![o].estado = e]
      BY <1>7, <2>2 DEF GuardaEstado
    <3>2. Existe(o)'
      BY <3>1 DEF TypeOK, Pedido, Existe, EstadosPedido
    <3> QED BY <1>7, <3>1, <3>2 DEF Prosigue
  <2> QED BY <2>1, <2>2
<1>8. ASSUME NEW h \in Hilos, AcceptOrderSave(h) \/ MarkOrderDeliveredSave(h) PROVE \E x : Prosigue(h, x)
  <2>1. hilo[h].pedido \in PedidoIds /\ hilo[h].fase # "avisar" /\ UNCHANGED <<avisos, perdidos, caidas>>
    BY <1>8, TipoHilo DEF AcceptOrderSave, MarkOrderDeliveredSave, historia
  <2> QED BY <1>7, <1>8, <2>1 DEF AcceptOrderSave, MarkOrderDeliveredSave
<1>9. ASSUME NEW h \in Hilos, Enviar(h) PROVE Concluye(h)
  BY <1>9 DEF Enviar, Enviable, Concluye
<1>10. ASSUME NEW h \in Hilos, Caer(h) PROVE Concluye(h) \/ \E x : Prosigue(h, x)
  BY <1>10 DEF Caer, Concluye, Prosigue, Libre
<1> QED BY <1>1, <1>3, <1>4, <1>5, <1>6, <1>8, <1>9, <1>10 DEF Next, Avance

\* A notice that was sent, is about to be, or died with its request stays so.
LEMMA InformadoSigue ==
  ASSUME TypeOK, [Next]_vars, NEW t, NEW o, Informado(t, o)
  PROVE  Informado(t, o)'
<1>1. CASE UNCHANGED <<hilo, avisos, perdidos, caidas>>
  BY <1>1 DEF Informado
<1>2. ASSUME NEW h \in Hilos, NEW x, Prosigue(h, x) PROVE Informado(t, o)'
  <2>1. \A g \in Hilos : g # h => hilo'[g] = hilo[g]
    BY <1>2 DEF Prosigue, TypeOK
  <2> QED BY <1>2, <2>1 DEF Prosigue, Informado
<1>3. ASSUME NEW h \in Hilos, Concluye(h) PROVE Informado(t, o)'
  <2>1. \A g \in Hilos : g # h => hilo'[g] = hilo[g]
    BY <1>3 DEF Concluye, TypeOK
  <2> QED BY <1>3, <2>1 DEF Concluye, Informado
<1> QED BY <1>1, <1>2, <1>3, HiloPaso

\* The lost notices of orders that still exist.
Vivos == {a \in perdidos : Existe(a.pedido)}

Usado(o) == pedido[o].estado # "NINGUNO"

\* AvisosCompletos made inductive: a notice is only ever of an order whose id
\* was taken, and an order that was deleted does not come back, so a lost notice
\* of an order that exists was lost to a request that died.
IInvAvisos ==
  /\ \A o \in PedidoIds :
       /\ Existe(o) => Informado("nuevo", o)
       /\ Existe(o) /\ pedido[o].estado = "ACEPTADO" => Informado("aceptado", o)
  /\ \A h \in Hilos : hilo[h].fase = "avisar" => Usado(hilo[h].aviso.pedido)
  /\ \A a \in perdidos : Usado(a.pedido)
  /\ IsFiniteSet(perdidos)
  /\ Cardinality(Vivos) <= caidas

LEMMA UsadoSigue ==
  ASSUME TypeOK, [Next]_vars, NEW o \in PedidoIds, Usado(o)
  PROVE  Usado(o)' /\ (Existe(o)' => Existe(o))
BY EstadoPaso DEF CambiaEstado, Usado, Existe, EstadosPedido

LEMMA PasoAvisos ==
  ASSUME TypeOK, IInvAvisos, [Next]_vars
  PROVE  IInvAvisos'
<1>1. ASSUME NEW o \in PedidoIds, Existe(o)' PROVE Informado("nuevo", o)'
  <2>1. CASE Existe(o)
    BY <2>1, InformadoSigue DEF IInvAvisos
  <2>2. CASE ~Existe(o)
    <3>1. \E h \in Hilos : Avisara(h, "nuevo", o)'
      BY <1>1, <2>2, EstadoPaso DEF CambiaEstado, Existe, EstadosPedido
    <3> QED BY <3>1 DEF Avisara, Informado
  <2> QED BY <2>1, <2>2
<1>2. ASSUME NEW o \in PedidoIds, pedido'[o].estado = "ACEPTADO" PROVE Informado("aceptado", o)'
  <2>1. CASE pedido[o].estado = "ACEPTADO"
    BY <2>1, InformadoSigue DEF IInvAvisos, Existe, EstadosPedido
  <2>2. CASE pedido[o].estado # "ACEPTADO"
    <3>1. \E h \in Hilos : Avisara(h, "aceptado", o)'
      BY <1>2, <2>2, EstadoPaso DEF CambiaEstado
    <3> QED BY <3>1 DEF Avisara, Informado
  <2> QED BY <2>1, <2>2
<1>3. \A h \in Hilos : hilo[h].fase = "avisar" => hilo[h].aviso.pedido \in PedidoIds
  BY TipoHilo DEF Aviso
<1>4. \A a \in perdidos : a.pedido \in PedidoIds
  BY DEF TypeOK, Aviso
<1>5. ASSUME NEW g \in Hilos, hilo'[g].fase = "avisar" PROVE Usado(hilo[g].aviso.pedido)'
  <2>1. CASE hilo'[g] = hilo[g]
    <3>1. Usado(hilo[g].aviso.pedido) /\ hilo[g].aviso.pedido \in PedidoIds
      BY <1>3, <1>5, <2>1 DEF IInvAvisos
    <3> QED BY <2>1, <3>1, UsadoSigue DEF Usado
  <2>2. CASE hilo'[g] # hilo[g]
    <3>1. ASSUME NEW h \in Hilos, NEW x, Prosigue(h, x) PROVE Usado(hilo[g].aviso.pedido)'
      BY <1>5, <2>2, <3>1 DEF Prosigue, TypeOK, Usado, Existe, EstadosPedido
    <3>2. ASSUME NEW h \in Hilos, Concluye(h) PROVE FALSE
      BY <1>5, <2>2, <3>2 DEF Concluye, TypeOK, Libre
    <3> QED BY <2>2, <3>1, <3>2, HiloPaso
  <2> QED BY <2>1, <2>2
<1>6. caidas \in Nat /\ IsFiniteSet(perdidos) /\ Cardinality(Vivos) <= caidas /\ Vivos \in SUBSET perdidos
  BY DEF IInvAvisos, TypeOK, Vivos
<1>7. IsFiniteSet(Vivos) /\ Cardinality(Vivos) \in Nat
  BY <1>6, FS_Subset, FS_CardinalityType
<1>8. \A a \in perdidos : Usado(a.pedido)' /\ (Existe(a.pedido)' => Existe(a.pedido))
  BY <1>4, UsadoSigue DEF IInvAvisos
<1>9. ASSUME perdidos' = perdidos, caidas' \in {caidas, caidas + 1}
      PROVE  (\A a \in perdidos' : Usado(a.pedido)') /\ IsFiniteSet(perdidos') /\ Cardinality(Vivos') <= caidas'
  <2>1. Vivos' \in SUBSET Vivos
    BY <1>8, <1>9 DEF Vivos
  <2>2. Cardinality(Vivos') <= Cardinality(Vivos) /\ IsFiniteSet(Vivos')
    BY <1>7, <2>1, FS_Subset
  <2>3. Cardinality(Vivos') \in Nat
    BY <2>2, FS_CardinalityType
  <2>4. Cardinality(Vivos') <= caidas'
    BY <1>6, <1>7, <1>9, <2>2, <2>3
  <2> QED BY <1>6, <1>8, <1>9, <2>4
<1>10. ASSUME NEW h \in Hilos, hilo[h].fase = "avisar", perdidos' = perdidos \cup {hilo[h].aviso},
              UNCHANGED pedido,
              \/ caidas' = caidas /\ ~Existe(hilo[h].aviso.pedido)
              \/ caidas' = caidas + 1
       PROVE  (\A a \in perdidos' : Usado(a.pedido)') /\ IsFiniteSet(perdidos') /\ Cardinality(Vivos') <= caidas'
  <2>1. pedido'[hilo[h].aviso.pedido].estado # "NINGUNO"
    BY <1>10 DEF IInvAvisos, Usado
  <2>4. \A a \in perdidos' : Usado(a.pedido)'
    BY <1>8, <1>10, <2>1 DEF Usado
  <2>2. IsFiniteSet(perdidos')
    BY <1>6, <1>10, FS_AddElement
  <2>3. Cardinality(Vivos') <= caidas'
    <3>1. CASE caidas' = caidas /\ ~Existe(hilo[h].aviso.pedido)
      <4>1. Vivos' = Vivos
        BY <1>10, <3>1 DEF Vivos, Existe
      <4> QED BY <1>6, <3>1, <4>1, Zenon
    <3>2. CASE caidas' = caidas + 1
      <4>1. Vivos' \in SUBSET (Vivos \cup {hilo[h].aviso})
        BY <1>8, <1>10 DEF Vivos
      <4>2. /\ IsFiniteSet(Vivos \cup {hilo[h].aviso})
            /\ Cardinality(Vivos \cup {hilo[h].aviso}) =
                 IF hilo[h].aviso \in Vivos THEN Cardinality(Vivos) ELSE Cardinality(Vivos) + 1
        BY <1>7, FS_AddElement
      <4>3. IsFiniteSet(Vivos') /\ Cardinality(Vivos') <= Cardinality(Vivos \cup {hilo[h].aviso})
        BY <4>1, <4>2, FS_Subset
      <4>4. Cardinality(Vivos') \in Nat
        BY <4>3, FS_CardinalityType
      <4> QED BY <1>6, <1>7, <3>2, <4>2, <4>3, <4>4
    <3> QED BY <1>10, <3>1, <3>2
  <2> QED BY <2>2, <2>3, <2>4
<1>11. (\A a \in perdidos' : Usado(a.pedido)') /\ IsFiniteSet(perdidos') /\ Cardinality(Vivos') <= caidas'
  <2>1. ASSUME NEW h \in Hilos, Concluye(h)
        PROVE  \/ perdidos' = perdidos /\ caidas' \in {caidas, caidas + 1}
               \/ /\ hilo[h].fase = "avisar" /\ perdidos' = perdidos \cup {hilo[h].aviso}
                  /\ UNCHANGED pedido
                  /\ \/ caidas' = caidas /\ ~Existe(hilo[h].aviso.pedido)
                     \/ caidas' = caidas + 1
    BY <2>1 DEF Concluye
  <2>2. ASSUME NEW h \in Hilos, NEW x, Prosigue(h, x) PROVE perdidos' = perdidos /\ caidas' \in {caidas, caidas + 1}
    BY <2>2 DEF Prosigue
  <2>3. \/ perdidos' = perdidos /\ caidas' \in {caidas, caidas + 1}
        \/ \E h \in Hilos :
             /\ hilo[h].fase = "avisar" /\ perdidos' = perdidos \cup {hilo[h].aviso}
             /\ UNCHANGED pedido
             /\ \/ caidas' = caidas /\ ~Existe(hilo[h].aviso.pedido)
                \/ caidas' = caidas + 1
    BY <2>1, <2>2, HiloPaso
  <2> QED BY <1>9, <1>10, <2>3
<1> QED BY <1>1, <1>2, <1>5, <1>11 DEF IInvAvisos

LEMMA InicioAvisos == Init => IInvAvisos
<1> SUFFICES ASSUME Init PROVE IInvAvisos
  OBVIOUS
<1>1. \A o \in PedidoIds : ~Existe(o)
  BY DEF Init, Existe, EstadosPedido, SinPedido
<1>2. \A h \in Hilos : hilo[h].fase # "avisar"
  BY DEF Init, Libre
<1>3. perdidos = {} /\ Vivos = {} /\ caidas = 0
  BY DEF Init, Vivos
<1> QED BY <1>1, <1>2, <1>3, FS_EmptySet DEF IInvAvisos

\* A buyer or seller who was not told of an order that exists was let down by a
\* request that died after its commit, one for each notice.
THEOREM Completos == Spec => []AvisosCompletos
<1>1. TypeOK /\ IInvAvisos /\ [Next]_vars => IInvAvisos'
  BY PasoAvisos
<1>2. TypeOK /\ IInvAvisos => AvisosCompletos
  <2> SUFFICES ASSUME TypeOK, IInvAvisos PROVE AvisosCompletos
    OBVIOUS
  <2> DEFINE H == {a \in perdidos : ~Existe(a.pedido)}
  <2>1. IsFiniteSet(perdidos) /\ Cardinality(Vivos) <= caidas /\ caidas \in Nat
    BY DEF IInvAvisos, TypeOK
  <2>2. H \in SUBSET perdidos /\ Vivos \in SUBSET perdidos /\ perdidos = H \cup Vivos
    BY DEF Vivos
  <2>3. IsFiniteSet(H) /\ IsFiniteSet(Vivos)
    BY <2>1, <2>2, FS_Subset
  <2>4. Cardinality(H \cup Vivos) = Cardinality(H) + Cardinality(Vivos) - Cardinality(H \cap Vivos)
    BY <2>3, FS_Union
  <2>5. H \cap Vivos = {}
    BY DEF Vivos
  <2>6. Cardinality(H \cap Vivos) = 0 /\ Cardinality(H) \in Nat /\ Cardinality(Vivos) \in Nat
    BY <2>3, <2>5, FS_EmptySet, FS_CardinalityType
  <2>7. Cardinality(perdidos) = Cardinality(H) + Cardinality(Vivos)
    <3>1. Cardinality(perdidos) = Cardinality(H \cup Vivos)
      BY <2>2
    <3> HIDE DEF H
    <3> QED BY <3>1, <2>4, <2>6
  <2>8. Cardinality(perdidos) <= caidas + Cardinality(H)
    <3> HIDE DEF H
    <3> QED BY <2>1, <2>6, <2>7
  <2> QED BY <2>8 DEF IInvAvisos, AvisosCompletos
<1> QED BY <1>1, <1>2, InicioAvisos, Tipos, PTL DEF Spec

------------------------------------------------------------------------------
(* Somebody can always go on *)

\* The orders that are being created, and the ids left for them.
Creando == {h \in Hilos : hilo[h].fase \in {"crear", "bloqueado"}}
SinTomar == {o \in PedidoIds : pedido[o].estado = "NINGUNO"}

\* A thread in its SELECT has rows of its cart left to lock, and no cart is empty.
CarrosAMedias ==
  \A h \in Hilos :
    /\ hilo[h].fase = "crear" =>
         hilo[h].filas \subseteq Filas(hilo[h].cuenta) /\ hilo[h].filas # Filas(hilo[h].cuenta)
    /\ hilo[h].fase \in {"crear", "bloqueado"} => Pedidas(hilo[h].cuenta) # {}

CabenCreaciones == Cardinality(Creando) <= Cardinality(SinTomar)

\* The row locked next is one of the cart's, and there is one until all are locked.
LEMMA SiguienteDelCarro ==
  ASSUME TypeOK, CarrosAMedias, NEW h \in Hilos, hilo[h].fase = "crear"
  PROVE  Siguientes(h) # {} /\ Siguientes(h) \subseteq Filas(hilo[h].cuenta)
<1> DEFINE filas == hilo[h].filas
           carro == Pedidas(hilo[h].cuenta)
<1>1. /\ filas \subseteq carro \cup VendedoresDe(hilo[h].cuenta)
      /\ filas # carro \cup VendedoresDe(hilo[h].cuenta)
  BY DEF CarrosAMedias, Filas
<1>2. carro \subseteq Publicaciones /\ VendedoresDe(hilo[h].cuenta) = {Vendedor[p] : p \in carro}
      /\ \A p \in carro : Vendedor[p] \in Usuarios
  BY DEF Pedidas, VendedoresDe
<1>3. filas \cap Publicaciones \subseteq carro
  BY <1>1, <1>2
<1>4. Siguientes(h) =
        IF {Vendedor[p] : p \in filas \cap Publicaciones} \ filas # {}
          THEN {Vendedor[p] : p \in filas \cap Publicaciones} \ filas
          ELSE carro \ filas
  BY DEF Siguientes
<1> HIDE DEF filas, carro
<1>5. Siguientes(h) \subseteq carro \cup VendedoresDe(hilo[h].cuenta)
  BY <1>2, <1>3, <1>4
<1>6. Siguientes(h) # {}
  <2> SUFFICES ASSUME Siguientes(h) = {} PROVE FALSE
    OBVIOUS
  <2>1. carro \subseteq filas /\ {Vendedor[p] : p \in filas \cap Publicaciones} \subseteq filas
    BY <1>4
  <2>2. {Vendedor[p] : p \in carro} \subseteq {Vendedor[p] : p \in filas \cap Publicaciones}
    BY <1>2, <2>1
  <2> QED BY <1>1, <1>2, <2>1, <2>2
<1> QED BY <1>5, <1>6 DEF Filas, carro

\* A thread that creates an order after a step did so before it, or has just
\* begun; it has the cart it had.
LEMMA CreandoAntes ==
  ASSUME TypeOK, [Next]_vars, NEW h \in Hilos, hilo'[h].fase \in {"crear", "bloqueado"}
  PROVE  \/ hilo'[h] = hilo[h]
         \/ \E x \in Publicaciones \cup Usuarios : CreateOrderLock(h, x)
         \/ \E u \in Usuarios, cuenta \in Cuentas : CreateOrderCheck(h, u, cuenta)
<1>1. hilo \in [Hilos -> Peticion]
  BY DEF TypeOK
<1>2. CASE Catalogo \/ UNCHANGED vars \/ Reparto
  BY <1>2 DEF Catalogo, CreatePublicacion, UpdatePublicacion, DeletePublicacion, Reparto, MarkEntregado, vars
<1>3. ASSUME NEW g \in Hilos, NEW x \in Publicaciones \cup Usuarios, CreateOrderLock(g, x)
      PROVE  hilo'[h] = hilo[h] \/ g = h
  BY <1>1, <1>3 DEF CreateOrderLock
<1>4. ASSUME NEW g \in Hilos, NEW u \in Usuarios, NEW cuenta \in Cuentas, CreateOrderCheck(g, u, cuenta)
      PROVE  hilo'[h] = hilo[h] \/ g = h
  BY <1>1, <1>4 DEF CreateOrderCheck
<1>5. ASSUME NEW g \in Hilos,
             \/ \E o \in PedidoIds : AcceptOrderRead(g, o) \/ MarkOrderDeliveredRead(g, o)
             \/ \E o \in PedidoIds, p \in Publicaciones : CreateOrderCommit(g, o, p)
             \/ CreateOrderRollback(g) \/ CreateOrderDeadlock(g)
             \/ AcceptOrderSave(g) \/ MarkOrderDeliveredSave(g)
             \/ Enviar(g) \/ Caer(g)
      PROVE  hilo'[h] = hilo[h]
  <2>1. \E x : hilo' = [hilo EXCEPT ![g] = x] /\ x.fase \notin {"crear", "bloqueado"}
    BY <1>5 DEF AcceptOrderRead, MarkOrderDeliveredRead,
                CreateOrderCommit, CreateOrderRollback, CreateOrderDeadlock,
                AcceptOrderSave, MarkOrderDeliveredSave, GuardaEstado, Enviar, Caer, Libre
  <2> QED BY <1>1, <2>1
<1> QED BY <1>2, <1>3, <1>4, <1>5 DEF Next, Llegada, Avance

LEMMA CarrosPaso ==
  ASSUME TypeOK, CarrosAMedias, [Next]_vars
  PROVE  CarrosAMedias'
<1> DEFINE AMedias(t) ==
      /\ t.fase = "crear" => t.filas \subseteq Filas(t.cuenta) /\ t.filas # Filas(t.cuenta)
      /\ t.fase \in {"crear", "bloqueado"} => Pedidas(t.cuenta) # {}
<1> SUFFICES ASSUME NEW h \in Hilos, hilo'[h].fase \in {"crear", "bloqueado"} PROVE AMedias(hilo'[h])
  BY DEF CarrosAMedias, Filas, Pedidas, VendedoresDe
<1>1. hilo \in [Hilos -> Peticion] /\ AMedias(hilo[h])
  BY DEF TypeOK, CarrosAMedias
<1>2. CASE hilo'[h] = hilo[h]
  BY <1>1, <1>2
<1>3. ASSUME NEW x \in Publicaciones \cup Usuarios, CreateOrderLock(h, x)
      PROVE  AMedias(hilo'[h])
  <2>1. /\ hilo[h].fase = "crear" /\ x \in Siguientes(h)
        /\ hilo'[h].cuenta = hilo[h].cuenta
        /\ hilo'[h].fase = "crear" => /\ hilo'[h].filas = hilo[h].filas \cup {x}
                                     /\ hilo[h].filas \cup {x} # Filas(hilo[h].cuenta)
    BY <1>1, <1>3 DEF CreateOrderLock, Libre
  <2>2. x \in Filas(hilo[h].cuenta)
    BY <2>1, SiguienteDelCarro
  <2>3. /\ hilo[h].filas \subseteq Filas(hilo[h].cuenta)
        /\ Pedidas(hilo[h].cuenta) # {}
    BY <1>1, <2>1
  <2> QED BY <2>1, <2>2, <2>3
<1>4. ASSUME NEW u \in Usuarios, NEW cuenta \in Cuentas, CreateOrderCheck(h, u, cuenta)
      PROVE  AMedias(hilo'[h])
  <2>1. hilo'[h].filas = {} /\ hilo'[h].cuenta = cuenta /\ Pedidas(cuenta) # {}
    BY <1>1, <1>4 DEF CreateOrderCheck
  <2> QED BY <2>1 DEF Filas
<1> HIDE DEF AMedias
<1> QED BY <1>2, <1>3, <1>4, CreandoAntes

\* An id is taken only by the commit of an order.
LEMMA SinTomarPaso ==
  ASSUME TypeOK, [Next]_vars, NEW o \in PedidoIds, pedido[o].estado = "NINGUNO"
  PROVE  \/ pedido'[o].estado = "NINGUNO"
         \/ \E h \in Hilos, n \in PedidoIds, q \in Publicaciones : CreateOrderCommit(h, n, q)
<1>1. pedido \in [PedidoIds -> Pedido] /\ pedido[o] \in Pedido /\ ~Existe(o)
  BY DEF TypeOK, Existe, EstadosPedido
<1>2. CASE UNCHANGED pedido
  BY <1>2
<1>3. ASSUME NEW p \in Editables, DeletePublicacion(p) PROVE pedido'[o].estado = "NINGUNO"
  <2>1. pedido'[o] = [pedido[o] EXCEPT !.cantidad[p] = 0]
    BY <1>1, <1>3 DEF DeletePublicacion, SinLaPublicacion
  <2> QED BY <1>1, <2>1 DEF Pedido
<1>4. ASSUME NEW h \in Hilos, AcceptOrderSave(h) \/ MarkOrderDeliveredSave(h)
      PROVE  pedido'[o].estado = "NINGUNO"
  BY <1>1, <1>4 DEF AcceptOrderSave, MarkOrderDeliveredSave, GuardaEstado
<1>5. ASSUME NEW n \in PedidoIds, MarkEntregado(n) PROVE pedido'[o].estado = "NINGUNO"
  BY <1>1, <1>5 DEF MarkEntregado
<1>6. ASSUME \/ UNCHANGED vars
             \/ \E h \in Hilos : Llegada(h) \/ Caer(h)
             \/ \E p \in Publicaciones, s \in Stocks, m \in Maximos, c \in Precios :
                  CreatePublicacion(p, s, m, c)
             \/ \E p, e, s, m, c : UpdatePublicacion(p, e, s, m, c)
      PROVE  UNCHANGED pedido
  BY <1>6 DEF vars, Llegada, CreateOrderCheck, AcceptOrderRead, MarkOrderDeliveredRead,
              Caer, CreatePublicacion, UpdatePublicacion
<1>7. ASSUME NEW h \in Hilos,
             \/ \E x \in Publicaciones \cup Usuarios : CreateOrderLock(h, x)
             \/ CreateOrderRollback(h) \/ CreateOrderDeadlock(h) \/ Enviar(h)
      PROVE  UNCHANGED pedido
  BY <1>7 DEF CreateOrderLock, CreateOrderRollback, CreateOrderDeadlock, Enviar
<1> QED BY <1>2, <1>3, <1>4, <1>5, <1>6, <1>7 DEF Next, Catalogo, Avance, Reparto

\* An id is left for every order that is being created.
LEMMA CabenPaso ==
  ASSUME IsFiniteSet(Hilos), IsFiniteSet(PedidoIds), TypeOK, CabenCreaciones, [Next]_vars
  PROVE  CabenCreaciones'
<1>1. /\ hilo \in [Hilos -> Peticion] /\ pedido \in [PedidoIds -> Pedido]
      /\ IsFiniteSet(Creando) /\ Cardinality(Creando) \in Nat
      /\ IsFiniteSet(SinTomar) /\ Cardinality(SinTomar) \in Nat
      /\ IsFiniteSet(SinTomar') /\ Cardinality(SinTomar') \in Nat
  <2>1. Creando \in SUBSET Hilos /\ SinTomar \in SUBSET PedidoIds /\ SinTomar' \in SUBSET PedidoIds
    BY DEF Creando, SinTomar
  <2> QED BY <2>1, Parte DEF TypeOK
<1>2. ASSUME NEW h \in Hilos, NEW u \in Usuarios, NEW cuenta \in Cuentas, CreateOrderCheck(h, u, cuenta)
      PROVE  CabenCreaciones'
  <2>1. Creando' \in SUBSET (Creando \cup {h}) /\ SinTomar' = SinTomar
    BY <1>1, <1>2 DEF CreateOrderCheck, Creando, SinTomar
  <2>2. Cardinality(Creando') \in Nat /\ Cardinality(Creando') <= Cardinality(Creando) + 1
    BY <1>1, <2>1, ConUnaMas
  <2>3. Cardinality(Creando) < Cardinality(SinTomar)
    BY <1>2 DEF CreateOrderCheck, HayId, Creando, SinTomar
  <2> QED BY <1>1, <2>1, <2>2, <2>3 DEF CabenCreaciones
<1>3. ASSUME NEW h \in Hilos, NEW o \in PedidoIds, NEW q \in Publicaciones, CreateOrderCommit(h, o, q)
      PROVE  CabenCreaciones'
  <2>1. h \in Creando /\ o \in SinTomar
    BY <1>3 DEF CreateOrderCommit, Creando, SinTomar
  <2>2. Creando' \in SUBSET (Creando \ {h})
    BY <1>1, <1>3 DEF CreateOrderCommit, Creando
  <2>3. SinTomar \ {o} \in SUBSET SinTomar'
    BY <1>1, <1>3 DEF CreateOrderCommit, SinTomar
  <2>4. /\ IsFiniteSet(Creando \ {h}) /\ Cardinality(Creando \ {h}) = Cardinality(Creando) - 1
        /\ Cardinality(SinTomar \ {o}) = Cardinality(SinTomar) - 1
    BY <1>1, <2>1, SinUno
  <2>5. /\ Cardinality(Creando') \in Nat /\ Cardinality(Creando') <= Cardinality(Creando \ {h})
        /\ Cardinality(SinTomar \ {o}) <= Cardinality(SinTomar')
    BY <1>1, <2>2, <2>3, <2>4, Parte
  <2> QED BY <1>1, <2>4, <2>5 DEF CabenCreaciones
<1>4. ASSUME ~\E h \in Hilos, u \in Usuarios, cuenta \in Cuentas : CreateOrderCheck(h, u, cuenta),
             ~\E h \in Hilos, o \in PedidoIds, q \in Publicaciones : CreateOrderCommit(h, o, q)
      PROVE  CabenCreaciones'
  <2>1. Creando' \in SUBSET Creando
    BY <1>4, CreandoAntes DEF Creando, CreateOrderLock
  <2>2. SinTomar \in SUBSET SinTomar'
    BY <1>4, SinTomarPaso DEF SinTomar
  <2>3. /\ Cardinality(Creando') \in Nat /\ Cardinality(Creando') <= Cardinality(Creando)
        /\ Cardinality(SinTomar) <= Cardinality(SinTomar')
    BY <1>1, <2>1, <2>2, Parte
  <2> QED BY <1>1, <2>3 DEF CabenCreaciones
<1> QED BY <1>2, <1>3, <1>4

\* Where each of finitely many waits for another of them, some wait in a cycle.
LEMMA EsperasEnCiclo ==
  ASSUME IsFiniteSet(Hilos), NEW C \in SUBSET Hilos, C # {},
         \A g \in C : \E k \in C : Espera(g, k)
  PROVE  \E h \in Hilos : EnCiclo(h)
<1> DEFINE f == [g \in Hilos |-> IF g \in C THEN CHOOSE k \in C : Espera(g, k) ELSE g]
           T == {S \in SUBSET C : S # {} /\ \A g \in S : f[g] \in S}
<1>1. f \in [Hilos -> Hilos] /\ \A g \in C : f[g] \in C /\ Espera(g, f[g])
  OBVIOUS
<1> HIDE DEF f
<1>2. C \in T /\ \A S \in T : IsFiniteSet(S)
  <2>1. IsFiniteSet(C)
    BY Parte
  <2> QED BY <1>1, <2>1, Parte
<1>3. PICK S \in T : \A t \in T : Cardinality(S) <= Cardinality(t)
  BY <1>2, MenorConjunto
<1> DEFINE I == {f[g] : g \in S}
<1>4. I \in T /\ I \in SUBSET S
  OBVIOUS
<1>5. \A g \in S : \E k \in S : f[k] = g
  <2> SUFFICES ASSUME NEW g \in S, g \notin I PROVE FALSE
    OBVIOUS
  <2>1. I \in SUBSET (S \ {g})
    BY <1>4
  <2>2. /\ IsFiniteSet(S \ {g}) /\ Cardinality(S \ {g}) \in Nat /\ Cardinality(S) \in Nat
        /\ Cardinality(S \ {g}) < Cardinality(S)
    BY <1>2, SinUno
  <2>3. Cardinality(I) \in Nat /\ Cardinality(I) <= Cardinality(S \ {g})
    BY <2>1, <2>2, Parte
  <2>4. Cardinality(S) <= Cardinality(I)
    BY <1>3, <1>4
  <2> QED BY <2>2, <2>3, <2>4
<1>6. S \in SUBSET Hilos /\ S # {} /\ \A g \in S : f[g] \in S /\ Espera(g, f[g])
  BY <1>1
<1>7. PICK h \in S : TRUE
  BY <1>6
<1> QED BY <1>1, <1>5, <1>6, <1>7 DEF EnCiclo

LEMMA NadieSeAtasca ==
  ASSUME IsFiniteSet(Hilos), IsFiniteSet(PedidoIds), TypeOK, CarrosAMedias, CabenCreaciones
  PROVE  SinAtasco
<1> SUFFICES ASSUME NEW h \in Hilos, hilo[h] # Libre, \A g \in Hilos : ~PuedeSeguir(g)
             PROVE  \E g \in Hilos : EnCiclo(g)
  BY DEF SinAtasco
<1>1. \A x : \A g \in Hilos : Tiene(g, x) => g \in Creando
  BY DEF Tiene, Creando
<1>2. Creando # {}
  <2>1. hilo[h].fase \in {"crear", "bloqueado", "avisar"}
    BY TipoHilo DEF PuedeSeguir, TypeOK, Peticion
  <2>2. hilo[h].fase = "avisar" => \E g \in Hilos : Tiene(g, hilo[h].para)
    BY DEF PuedeSeguir, FilaLibre
  <2> QED BY <1>1, <2>1, <2>2 DEF Creando
<1>3. \E o \in PedidoIds : pedido[o].estado = "NINGUNO"
  <2>1. Creando \in SUBSET Hilos /\ SinTomar \in SUBSET PedidoIds
    BY DEF Creando, SinTomar
  <2>2. IsFiniteSet(Creando) /\ Cardinality(Creando) \in Nat /\ Cardinality(Creando) # 0
    BY <1>2, <2>1, Parte, FS_EmptySet
  <2>3. Cardinality(SinTomar) # 0
    BY <2>2 DEF CabenCreaciones
  <2>4. SinTomar # {}
    <3>1. Cardinality({}) = 0
      BY FS_EmptySet
    <3> QED BY <2>3, <3>1, Zenon
  <2> QED BY <2>4 DEF SinTomar
<1>4. ASSUME NEW g \in Creando PROVE \E k \in Creando : Espera(g, k)
  <2>1. CASE hilo[g].fase = "crear"
    <3>1. PICK x \in Siguientes(g) : TRUE
      BY <2>1, SiguienteDelCarro DEF Creando
    <3>2. PICK k \in Hilos \ {g} : Tiene(k, x)
      BY <2>1 DEF PuedeSeguir, FilaLibre, Creando
    <3> QED BY <1>1, <2>1, <3>1, <3>2 DEF Espera
  <2>2. CASE hilo[g].fase = "bloqueado"
    <3>1. PICK k \in Hilos \ {g} : Tiene(k, hilo[g].usuario)
      BY <1>3, <2>2 DEF CarrosAMedias, PuedeSeguir, FilaLibre, Creando
    <3> QED BY <1>1, <2>2, <3>1 DEF Espera
  <2> QED BY <2>1, <2>2 DEF Creando
<1>5. Creando \in SUBSET Hilos
  BY DEF Creando
<1> HIDE DEF Creando
<1> QED BY <1>2, <1>4, <1>5, EsperasEnCiclo

\* For any number of threads, carts and accounts: while requests are served, one
\* can go on, or waits in a cycle of row locks that the database breaks.
THEOREM SigueAlguien ==
  ASSUME IsFiniteSet(Hilos), IsFiniteSet(PedidoIds)
  PROVE  Spec => []SinAtasco
<1>1. Init => CarrosAMedias /\ CabenCreaciones
  <2> SUFFICES ASSUME Init PROVE CarrosAMedias /\ CabenCreaciones
    OBVIOUS
  <2>1. CarrosAMedias /\ Creando = {}
    BY DEF Init, Libre, CarrosAMedias, Creando
  <2>2. SinTomar \in SUBSET PedidoIds
    BY DEF SinTomar
  <2>3. Cardinality(SinTomar) \in Nat /\ Cardinality(Creando) = 0
    BY <2>1, <2>2, Parte, FS_EmptySet
  <2> QED BY <2>1, <2>3 DEF CabenCreaciones
<1>2. TypeOK /\ CarrosAMedias /\ CabenCreaciones /\ [Next]_vars => CarrosAMedias' /\ CabenCreaciones'
  BY CarrosPaso, CabenPaso
<1>3. TypeOK /\ CarrosAMedias /\ CabenCreaciones => SinAtasco
  BY NadieSeAtasca
<1> QED BY <1>1, <1>2, <1>3, Tipos, PTL DEF Spec

------------------------------------------------------------------------------
(* Each order is sold at one instant *)

\* The second max(1, ...), when an order is validated, never acts.
Ofrecidas == \A p \in Publicaciones : ExistePublicacion(p) => publicacion[p].maximo > 0

\* A snapshot is of the publications in the cart.
FotosDelCarro ==
  \A h \in Hilos : hilo[h].fase = "bloqueado" =>
    \A p \in Publicaciones : hilo[h].cuenta[p] = 0 => hilo[h].foto[p].precio = 0

\* What the buyer is charged is what the locked rows ask for at the commit.
LEMMA ImporteDeLaFoto ==
  ASSUME NEW n \in [Publicaciones -> Nat], NEW foto \in [Publicaciones -> Publicacion],
         publicacion \in [Publicaciones -> Publicacion],
         \A p \in Publicaciones : n[p] > 0 => foto[p] = publicacion[p]
  PROVE  LaTienda!Importe(n) = Subtotal(n, PreciosDe(foto))
<1> DEFINE r == PreciosDe(foto)
           f == [p \in Publicaciones |-> n[p] * r[p]]
           g == [p \in Publicaciones |-> n[p] * publicacion[p].precio]
<1>1. r \in [Publicaciones -> Nat]
  BY DEF PreciosDe, Publicacion
<1>2. ASSUME NEW p \in Publicaciones PROVE n[p] * r[p] = n[p] * publicacion[p].precio
  <2>1. /\ n[p] \in Nat /\ foto[p].precio \in Nat /\ publicacion[p].precio \in Nat
        /\ r[p] = foto[p].precio
    BY DEF PreciosDe, Publicacion
  <2>2. CASE n[p] > 0
    BY <2>1, <2>2
  <2>3. CASE n[p] = 0
    BY <2>1, <2>3
  <2> QED BY <2>1, <2>2, <2>3
<1>3. f = g
  BY <1>2
<1>4. Subtotal(n, r) = MapThenSumSet(LAMBDA p : f[p], Publicaciones)
  BY <1>1, SubtotalEsSuma
<1>5. LaTienda!Importe(n) = MapThenSumSet(LAMBDA p : g[p], Publicaciones)
  BY DEF LaTienda!Importe, LaTienda!MapThenSumSet, LaTienda!MapThenFoldSet, MapThenSumSet, MapThenFoldSet
<1> HIDE DEF f, g, r
<1>6. Subtotal(n, r) = LaTienda!Importe(n)
  BY <1>3, <1>4, <1>5
<1> QED BY <1>6 DEF r

\* The commit of an order is a sale: its rows are locked, so what it checks and
\* deducts from is what the publications offer now.
LEMMA CommitVende ==
  ASSUME IInv, Ofrecidas, FotosDelCarro, NEW h \in Hilos, NEW o \in PedidoIds, NEW q \in Publicaciones,
         CreateOrderCommit(h, o, q)
  PROVE  LaTienda!Vender(o, hilo[h].usuario, hilo[h].cuenta, q)
<1> DEFINE n == hilo[h].cuenta
           foto == hilo[h].foto
<1>1. /\ publicacion \in [Publicaciones -> Publicacion]
      /\ n \in [Publicaciones -> Nat]
      /\ foto \in [Publicaciones -> Publicacion]
  BY TipoHilo DEF CreateOrderCommit, IInv, TypeOK, Cuentas
<1>2. ASSUME NEW p \in Publicaciones, n[p] > 0
      PROVE  foto[p] = publicacion[p] /\ LaTienda!SeVende(p, n[p])
  <2>1. Tiene(h, p)
    BY <1>2 DEF CreateOrderCommit, Tiene, Filas, Pedidas
  <2>2. foto[p] = publicacion[p] /\ ExistePublicacion(p)
    BY <2>1 DEF CreateOrderCommit, IInv, Candados
  <2>3. /\ foto[p].estado = "ACTIVA" /\ foto[p].stock >= n[p]
        /\ n[p] <= AlMenos(1, foto[p].maximo)
    BY <1>2 DEF CreateOrderCommit, Valido, Pedidas
  <2>4. publicacion[p].maximo \in Nat /\ publicacion[p].maximo > 0
    BY <1>1, <2>2 DEF Ofrecidas, Publicacion
  <2>5. AlMenos(1, publicacion[p].maximo) = publicacion[p].maximo
    BY <2>4, AlMenosEsMaximo
  <2>6. publicacion[p].stock \in Nat /\ n[p] \in Nat
    BY <1>1 DEF Publicacion
  <2> QED BY <2>2, <2>3, <2>5, <2>6 DEF LaTienda!SeVende
<1>3. publicacion' = [p \in Publicaciones |->
        IF n[p] > 0 THEN [publicacion[p] EXCEPT !.stock = publicacion[p].stock - n[p]]
                    ELSE publicacion[p]]
  <2>1. ASSUME NEW p \in Publicaciones, n[p] > 0
        PROVE  AlMenos(0, foto[p].stock - n[p]) = publicacion[p].stock - n[p]
    <3>1. publicacion[p].stock \in Nat /\ n[p] \in Nat /\ n[p] <= publicacion[p].stock
      BY <1>1, <1>2, <2>1 DEF Publicacion, LaTienda!SeVende
    <3>2. foto[p].stock - n[p] = publicacion[p].stock - n[p] /\ publicacion[p].stock - n[p] \in Int
          /\ publicacion[p].stock - n[p] >= 0
      BY <1>2, <2>1, <3>1
    <3> QED BY <3>2, AlMenosEsMaximo
  <2>2. publicacion' = Descontado(n, foto)
    BY DEF CreateOrderCommit
  <2> QED BY <2>1, <2>2 DEF Descontado
<1>4. PreciosDe(foto) = [p \in Publicaciones |-> IF n[p] > 0 THEN publicacion[p].precio ELSE 0]
  <2> SUFFICES ASSUME NEW p \in Publicaciones
               PROVE  foto[p].precio = IF n[p] > 0 THEN publicacion[p].precio ELSE 0
    BY DEF PreciosDe
  <2>1. n[p] \in Nat
    BY <1>1
  <2>2. n[p] = 0 => foto[p].precio = 0
    BY DEF CreateOrderCommit, FotosDelCarro
  <2> QED BY <1>2, <2>1, <2>2
<1>5. TotalPedido(n, foto) = LaTienda!Importe(n) + TarifaEntrega
  BY <1>1, <1>2, ImporteDeLaFoto DEF TotalPedido
<1>6. /\ pedido[o].estado = "NINGUNO" /\ n[q] > 0
      /\ pedido' = [pedido EXCEPT ![o] =
           [estado |-> "PENDIENTE", comprador |-> hilo[h].usuario, principal |-> q,
            cantidad |-> n, precioUnitario |-> PreciosDe(foto), total |-> TotalPedido(n, foto)]]
  BY DEF CreateOrderCommit, Pedidas
<1> QED BY <1>2, <1>3, <1>4, <1>5, <1>6 DEF LaTienda!Vender

LEMMA FotosPaso == IInv /\ FotosDelCarro /\ [Next]_vars => FotosDelCarro'
<1> SUFFICES ASSUME IInv, FotosDelCarro, [Next]_vars, NEW h \in Hilos, hilo'[h].fase = "bloqueado",
                    NEW p \in Publicaciones, hilo'[h].cuenta[p] = 0
             PROVE  hilo'[h].foto[p].precio = 0
  BY DEF FotosDelCarro
<1>1. CASE hilo'[h] = hilo[h]
  BY <1>1 DEF FotosDelCarro
<1>2. ASSUME NEW x \in Publicaciones \cup Usuarios, CreateOrderLock(h, x)
      PROVE  hilo'[h].foto[p].precio = 0
  <2>1. /\ hilo'[h].cuenta = hilo[h].cuenta
        /\ hilo'[h].foto = [q \in Publicaciones |->
                              IF hilo[h].cuenta[q] > 0 THEN publicacion[q] ELSE SinPublicacion]
    BY <1>2 DEF CreateOrderLock, Libre, IInv, TypeOK
  <2> QED BY <2>1 DEF SinPublicacion
<1> QED BY <1>1, <1>2, CreandoAntes DEF CreateOrderCheck, IInv, TypeOK

\* Every step of the market is a step of the shop, or does not show in it.
LEMMA PasoTienda ==
  ASSUME IInv, Ofrecidas, FotosDelCarro, [Next]_vars
  PROVE  [LaTienda!Next]_<<publicacion, pedido>>
<1>1. /\ publicacion \in [Publicaciones -> Publicacion]
      /\ pedido \in [PedidoIds -> Pedido]
  BY DEF IInv, TypeOK
<1>2. ASSUME NEW p \in Publicaciones, NEW e \in EstadosPublicacion, NEW s \in Nat, NEW m \in Nat, NEW c \in Nat,
             publicacion[p].estado # "BORRADA", UNCHANGED pedido,
             publicacion' = [publicacion EXCEPT ![p] =
               [estado |-> e, stock |-> s, maximo |-> AlMenos(1, m), precio |-> c]]
      PROVE  LaTienda!Next
  <2> DEFINE f == [estado |-> e, stock |-> s, maximo |-> AlMenos(1, m), precio |-> c]
  <2>1. AlMenos(1, m) \in Nat \ {0}
    BY AlMenosEsMaximo
  <2>2. f \in LaTienda!Oferta
    BY <2>1 DEF LaTienda!Oferta, EstadosPublicacion
  <2>3. publicacion'[p] = f
    BY <1>1, <1>2
  <2> HIDE DEF f
  <2>4. publicacion' = [publicacion EXCEPT ![p] = publicacion'[p]]
    BY <1>2, <2>3 DEF f
  <2>5. LaTienda!Anunciar(p)
    BY <1>2, <2>2, <2>3, <2>4 DEF LaTienda!Anunciar
  <2> QED BY <2>5 DEF LaTienda!Next
<1>3. ASSUME NEW p \in Publicaciones, NEW s \in Stocks, NEW m \in Maximos, NEW c \in Precios,
             CreatePublicacion(p, s, m, c)
      PROVE  LaTienda!Next
  <2>1. s \in Nat /\ m \in Nat /\ c \in Nat /\ "ACTIVA" \in EstadosPublicacion
    BY DEF EstadosPublicacion
  <2> QED BY <1>2, <1>3, <2>1 DEF CreatePublicacion
<1>4. ASSUME NEW p \in Editables, NEW e \in EstadosPublicacion,
             NEW s \in Stocks \cup {publicacion[p].stock},
             NEW m \in Maximos \cup {publicacion[p].maximo},
             NEW c \in Precios \cup {publicacion[p].precio},
             UpdatePublicacion(p, e, s, m, c)
      PROVE  LaTienda!Next
  <2>1. p \in Publicaciones /\ publicacion[p] \in Publicacion
    BY <1>1
  <2>2. s \in Nat /\ m \in Nat /\ c \in Nat
    BY <2>1 DEF Publicacion
  <2>3. publicacion[p].estado # "BORRADA"
    BY <1>4 DEF UpdatePublicacion, ExistePublicacion, EstadosPublicacion
  <2> QED BY <1>2, <1>4, <2>1, <2>2, <2>3 DEF UpdatePublicacion
<1>5. ASSUME NEW p \in Editables, DeletePublicacion(p) PROVE LaTienda!Next
  <2>1. p \in Publicaciones
    OBVIOUS
  <2>2. LaTienda!Anunciada(p)
    BY <1>5 DEF DeletePublicacion, ExistePublicacion, EstadosPublicacion, LaTienda!Anunciada
  <2>3. publicacion' = [publicacion EXCEPT ![p] = [LaTienda!SinOferta EXCEPT !.estado = "BORRADA"]]
    BY <1>5 DEF DeletePublicacion, SinPublicacion, LaTienda!SinOferta
  <2>4. pedido' = [o \in PedidoIds |->
          IF LaTienda!Vendido(o) /\ pedido[o].principal = p
            THEN [LaTienda!SinVender EXCEPT !.estado = "BORRADO"]
            ELSE [pedido[o] EXCEPT !.cantidad[p] = 0]]
    BY <1>5 DEF DeletePublicacion, SinLaPublicacion, Existe, EstadosPedido, SinPedido,
                LaTienda!Vendido, LaTienda!SinVender
  <2>5. LaTienda!Retirar(p)
    BY <2>2, <2>3, <2>4 DEF LaTienda!Retirar
  <2> QED BY <2>1, <2>5 DEF LaTienda!Next
<1>6. ASSUME NEW h \in Hilos, NEW o \in PedidoIds, NEW q \in Publicaciones,
             CreateOrderCommit(h, o, q)
      PROVE  LaTienda!Next
  <2>1. LaTienda!Vender(o, hilo[h].usuario, hilo[h].cuenta, q)
    BY <1>6, CommitVende
  <2>2. hilo[h].usuario \in Usuarios /\ hilo[h].cuenta \in [Publicaciones -> 0..MaxUnidades]
    BY <1>6, TipoHilo DEF CreateOrderCommit, IInv, Libre, Cuentas
  <2> QED BY <2>1, <2>2 DEF LaTienda!Next
<1>7. ASSUME NEW o \in PedidoIds, NEW e \in {"ACEPTADO", "ENTREGADO"}, Existe(o),
             pedido' = [pedido EXCEPT ![o].estado = e], UNCHANGED publicacion
      PROVE  LaTienda!Next
  <2>1. LaTienda!Atender(o)
    BY <1>7 DEF LaTienda!Atender, LaTienda!Vendido, Existe, EstadosPedido
  <2> QED BY <2>1 DEF LaTienda!Next
<1>8. ASSUME NEW h \in Hilos, AcceptOrderSave(h) \/ MarkOrderDeliveredSave(h)
      PROVE  LaTienda!Next \/ UNCHANGED <<publicacion, pedido>>
  <2> DEFINE o == hilo[h].pedido
  <2>1. o \in PedidoIds /\ UNCHANGED publicacion
    BY <1>8, TipoHilo DEF AcceptOrderSave, MarkOrderDeliveredSave, IInv
  <2>2. \/ UNCHANGED pedido
        \/ Existe(o) /\ \E e \in {"ACEPTADO", "ENTREGADO"} : pedido' = [pedido EXCEPT ![o].estado = e]
    BY <1>8 DEF AcceptOrderSave, MarkOrderDeliveredSave, GuardaEstado
  <2> HIDE DEF o
  <2> QED BY <1>7, <2>1, <2>2
<1>9. ASSUME NEW o \in PedidoIds, MarkEntregado(o) PROVE LaTienda!Next
  BY <1>7, <1>9 DEF MarkEntregado
<1>10. ASSUME UNCHANGED vars \/ \E h \in Hilos : Llegada(h) \/ Caer(h)
       PROVE  UNCHANGED <<publicacion, pedido>>
  BY <1>10 DEF vars, Llegada, CreateOrderCheck, AcceptOrderRead, MarkOrderDeliveredRead, Caer
<1>11. ASSUME NEW h \in Hilos,
              \/ \E x \in Publicaciones \cup Usuarios : CreateOrderLock(h, x)
              \/ CreateOrderRollback(h) \/ CreateOrderDeadlock(h) \/ Enviar(h)
       PROVE  UNCHANGED <<publicacion, pedido>>
  BY <1>11 DEF CreateOrderLock, CreateOrderRollback, CreateOrderDeadlock, Enviar
<1> QED BY <1>3, <1>4, <1>5, <1>6, <1>8, <1>9, <1>10, <1>11 DEF Next, Catalogo, Avance, Reparto

\* Whoever writes an offer lets at least one unit of it be bought.
LEMMA OfrecidasPaso ==
  ASSUME publicacion \in [Publicaciones -> Publicacion], Ofrecidas,
         [LaTienda!Next]_<<publicacion, pedido>>
  PROVE  Ofrecidas'
<1> SUFFICES ASSUME NEW p \in Publicaciones, ExistePublicacion(p)' PROVE publicacion'[p].maximo > 0
  BY DEF Ofrecidas
<1>1. CASE publicacion'[p] = publicacion[p]
  BY <1>1 DEF Ofrecidas, ExistePublicacion
<1>2. ASSUME NEW q \in Publicaciones, LaTienda!Anunciar(q) PROVE publicacion'[p].maximo > 0
  <2>1. CASE q = p
    BY <1>2, <2>1 DEF LaTienda!Anunciar, LaTienda!Oferta
  <2>2. CASE q # p
    BY <1>1, <1>2, <2>2 DEF LaTienda!Anunciar
  <2> QED BY <2>1, <2>2
<1>3. ASSUME NEW q \in Publicaciones, LaTienda!Retirar(q) PROVE publicacion'[p].maximo > 0
  <2>1. CASE q = p
    BY <1>3, <2>1 DEF LaTienda!Retirar, LaTienda!SinOferta, ExistePublicacion, EstadosPublicacion
  <2>2. CASE q # p
    BY <1>1, <1>3, <2>2 DEF LaTienda!Retirar
  <2> QED BY <2>1, <2>2
<1>4. ASSUME NEW o, NEW u, NEW n, NEW q, LaTienda!Vender(o, u, n, q) PROVE publicacion'[p].maximo > 0
  <2>1. publicacion'[p].estado = publicacion[p].estado /\ publicacion'[p].maximo = publicacion[p].maximo
    BY <1>4 DEF LaTienda!Vender, Publicacion
  <2> QED BY <2>1 DEF Ofrecidas, ExistePublicacion
<1>5. ASSUME NEW o, LaTienda!Atender(o) PROVE publicacion'[p] = publicacion[p]
  BY <1>5 DEF LaTienda!Atender
<1> QED BY <1>1, <1>2, <1>3, <1>4, <1>5 DEF LaTienda!Next

\* For any number of buyers, threads and publications: however the requests
\* interleave, the orders are those of a shop that sells one at a time, out of
\* what its publications offer at that instant.
THEOREM VendeDeUnaVez == Spec => ImplementaTienda
<1>1. Init => LaTienda!Init
  BY DEF Init, SinPublicacion, SinPedido, LaTienda!Init, LaTienda!SinOferta, LaTienda!SinVender
<1>2. Init => Ofrecidas /\ FotosDelCarro
  BY DEF Init, Ofrecidas, FotosDelCarro, ExistePublicacion, EstadosPublicacion, SinPublicacion, Libre
<1>3. IInv /\ Ofrecidas /\ FotosDelCarro /\ [Next]_vars => [LaTienda!Next]_<<publicacion, pedido>>
  BY PasoTienda
<1>4. IInv /\ Ofrecidas /\ FotosDelCarro /\ [Next]_vars => Ofrecidas' /\ FotosDelCarro'
  <2>1. IInv => publicacion \in [Publicaciones -> Publicacion]
    BY DEF IInv, TypeOK
  <2> QED BY <1>3, <2>1, OfrecidasPaso, FotosPaso
<1> QED BY <1>1, <1>2, <1>3, <1>4, Invariante, PTL DEF Spec, ImplementaTienda, LaTienda!Spec
=============================================================================
