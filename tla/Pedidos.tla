------------------------------- MODULE Pedidos -------------------------------
(***************************************************************************)
(* The market's orders: stock, order creation, acceptance by the seller,   *)
(* delivery as the buyer reports it, and the catalogue rows they work on.  *)
(*                                                                         *)
(* Requests run in gunicorn threads and, ATOMIC_REQUESTS being off, every  *)
(* ORM statement commits on its own.  A thread that has read a row and has *)
(* not written it yet is kept in hilo, so that the other threads' steps    *)
(* fall between the read and the write.  Only create_order opens a         *)
(* transaction: it holds row locks from its SELECT ... FOR UPDATE to its   *)
(* COMMIT.  A request that its first check refuses changes nothing and is  *)
(* no step of the model.                                                   *)
(***************************************************************************)
EXTENDS Integers, FiniteSets, FiniteSetsExt

CONSTANTS
  Usuarios,       \* accounts that buy and sell
  Publicaciones,  \* ids that catalogue rows may take
  Vendedor,       \* Publicacion.usuario, the owner of each id
  PedidoIds,      \* ids that orders may take: the bound on orders ever created
  Hilos,          \* gunicorn threads: the bound on requests in flight
  ClienteSerie,   \* TRUE: an account has at most one request in flight
  Stocks, Maximos, Precios, \* values a seller may type into the form
  Editables,      \* bound: the publications that are edited or deleted
  MaxUnidades,    \* bound on the units of one publication in one order
  TarifaEntrega,  \* DELIVERY_FEE_COP
  MaxCaidas,      \* bound on requests that die half way
  Nadie           \* the null foreign key of an id no order has taken

ASSUME ConstantesPedidos ==
  /\ IsFiniteSet(Publicaciones)
  /\ Vendedor \in [Publicaciones -> Usuarios]
  /\ ClienteSerie \in BOOLEAN
  /\ Editables \subseteq Publicaciones
  /\ Stocks \subseteq Nat
  /\ Maximos \subseteq Nat
  /\ Precios \subseteq Nat \ {0}
  /\ MaxUnidades \in Nat \ {0}
  /\ TarifaEntrega \in Nat
  /\ MaxCaidas \in Nat
  /\ Nadie \notin Usuarios
  /\ Nadie \notin Publicaciones
  /\ Usuarios \cap Publicaciones = {}

VARIABLES
  publicacion,  \* the rows of market_publicacion
  pedido,       \* the rows of market_pedido with their market_pedidoitem rows
  hilo,         \* what each thread has read and is about to write
  avisos,       \* the notifications created so far
  caidas,       \* requests that died half way
  perdidos,     \* history: notifications whose request died before sending
  entregados,   \* history: orders that have been ENTREGADO at some time
  repuesto,     \* history: per publication, the stock its seller supplied
  vendidas      \* history: per publication, the units sold

historia == <<perdidos, entregados, repuesto, vendidas>>
vars == <<publicacion, pedido, hilo, avisos, caidas, historia>>

------------------------------------------------------------------------------
(* Rows *)

\* max(n, x)
AlMenos(n, x) == Max({n, x})

EstadosPublicacion == {"ACTIVA", "PAUSADA"}

\* NINGUNA: the id was never used.  BORRADA: its row was deleted.
Publicacion ==
  [estado : EstadosPublicacion \cup {"NINGUNA", "BORRADA"},
   stock : Nat, maximo : Nat, precio : Nat]

SinPublicacion == [estado |-> "NINGUNA", stock |-> 0, maximo |-> 0, precio |-> 0]

EstadosPedido == {"PENDIENTE", "ACEPTADO", "ENTREGADO"}

\* TERMINAL_ORDER_STATES; no code path writes the last three.
EstadosTerminales == {"ENTREGADO", "FINALIZADO", "COMPLETADO", "CANCELADO"}

\* cantidad[p] = 0 stands for the absence of a PedidoItem for p.
Pedido ==
  [estado : EstadosPedido \cup {"NINGUNO", "BORRADO"},
   comprador : Usuarios \cup {Nadie},
   principal : Publicaciones \cup {Nadie},
   cantidad : [Publicaciones -> Nat],
   precioUnitario : [Publicaciones -> Nat],
   total : Nat]

SinPedido ==
  [estado |-> "NINGUNO", comprador |-> Nadie, principal |-> Nadie,
   cantidad |-> [p \in Publicaciones |-> 0],
   precioUnitario |-> [p \in Publicaciones |-> 0], total |-> 0]

Aviso == [tipo : {"nuevo", "aceptado", "entregado"}, pedido : PedidoIds]

ExistePublicacion(p) == publicacion[p].estado \in EstadosPublicacion
Existe(o) == pedido[o].estado \in EstadosPedido

Cuentas == [Publicaciones -> 0..MaxUnidades]
Pedidas(cuenta) == {p \in Publicaciones : cuenta[p] > 0}

------------------------------------------------------------------------------
(* Threads *)

Libre == [fase |-> "libre"]

\* The rows that FOR UPDATE with select_related("usuario") locks: the
\* publications in the cart and the accounts of their sellers.
VendedoresDe(cuenta) == {Vendedor[p] : p \in Pedidas(cuenta)}
Filas(cuenta) == Pedidas(cuenta) \cup VendedoresDe(cuenta)

Peticion ==
  [fase : {"libre"}]
  \cup [fase : {"crear"}, usuario : Usuarios, cuenta : Cuentas,
        filas : SUBSET (Publicaciones \cup Usuarios)]
  \cup [fase : {"bloqueado"}, usuario : Usuarios, cuenta : Cuentas,
        foto : [Publicaciones -> Publicacion]]
  \cup [fase : {"aceptar", "entregar"}, usuario : Usuarios, pedido : PedidoIds]
  \cup [fase : {"avisar"}, usuario : Usuarios, para : Usuarios, aviso : Aviso]

\* A thread is free to take a request of u.
Entra(h, u) ==
  /\ hilo[h] = Libre
  /\ ClienteSerie => \A g \in Hilos : hilo[g] # Libre => hilo[g].usuario # u

\* Thread g holds the FOR UPDATE lock on row x, a publication or an account.
Tiene(g, x) ==
  \/ hilo[g].fase = "crear" /\ x \in hilo[g].filas
  \/ hilo[g].fase = "bloqueado" /\ x \in Filas(hilo[g].cuenta)

\* Mutant: rows are read without FOR UPDATE, so that nobody waits for them.
FilaSinCandado(h, x) == TRUE

\* Mutant: a request waits for the locks that it holds itself.
FilaDeNadie(h, x) == \A g \in Hilos : ~Tiene(g, x)

FilaLibre(h, x) == \A g \in Hilos \ {h} : ~Tiene(g, x)

\* Mutant: the row of an order in progress can be edited (no select_for_update).
PublicacionSinCandado(p) == TRUE

PublicacionLibre(p) == \A g \in Hilos : ~Tiene(g, p)

------------------------------------------------------------------------------
(* Catalogue rows.  The read that precedes these writes looks only at the  *)
(* existence and the owner of the row, so each handler takes effect at its *)
(* write.                                                                  *)

CreatePublicacion(p, s, m, c) ==
  /\ publicacion[p].estado = "NINGUNA"
  /\ \A g \in Hilos : ~Tiene(g, Vendedor[p])
  /\ publicacion' = [publicacion EXCEPT ![p] =
       [estado |-> "ACTIVA", stock |-> s, maximo |-> AlMenos(1, m), precio |-> c]]
  /\ repuesto' = [repuesto EXCEPT ![p] = s]
  /\ UNCHANGED <<pedido, hilo, avisos, caidas, perdidos, entregados, vendidas>>

\* PATCH writes absolute values: a stock the seller read before a sale
\* overwrites that sale.  A field that is not sent keeps its value.
UpdatePublicacion(p, e, s, m, c) ==
  /\ ExistePublicacion(p)
  /\ PublicacionLibre(p)
  /\ publicacion' = [publicacion EXCEPT ![p] =
       [estado |-> e, stock |-> s, maximo |-> AlMenos(1, m), precio |-> c]]
  /\ repuesto' = [repuesto EXCEPT ![p] = s + vendidas[p]]
  /\ UNCHANGED <<pedido, hilo, avisos, caidas, perdidos, entregados, vendidas>>

\* Mutant: the order outlives its main publication.
SinSoloElItem(o, p) == [pedido[o] EXCEPT !.cantidad[p] = 0]

\* CASCADE: orders whose main publication is p, items of p elsewhere.  A row
\* that is inserted while delete() collects them makes its commit fail on the
\* foreign key: nothing is deleted, no step is taken.
SinLaPublicacion(o, p) ==
  IF Existe(o) /\ pedido[o].principal = p
    THEN [SinPedido EXCEPT !.estado = "BORRADO"]
    ELSE [pedido[o] EXCEPT !.cantidad[p] = 0]

DeletePublicacion(p) ==
  /\ ExistePublicacion(p)
  /\ PublicacionLibre(p)
  /\ publicacion' = [publicacion EXCEPT ![p] = [SinPublicacion EXCEPT !.estado = "BORRADA"]]
  /\ pedido' = [o \in PedidoIds |-> SinLaPublicacion(o, p)]
  /\ repuesto' = [repuesto EXCEPT ![p] = 0]
  /\ vendidas' = [vendidas EXCEPT ![p] = 0]
  /\ UNCHANGED <<hilo, avisos, caidas, perdidos, entregados>>

------------------------------------------------------------------------------
(* create_order *)

PedidoActivo(o) == Existe(o) /\ pedido[o].estado \notin EstadosTerminales

\* Mutant: only orders the seller has not answered count as active.
TienePendiente(u) ==
  \E o \in PedidoIds : pedido[o].comprador = u /\ pedido[o].estado = "PENDIENTE"

\* get_active_for_user(user) is not None
TieneActivo(u) == \E o \in PedidoIds : pedido[o].comprador = u /\ PedidoActivo(o)

\* Bound: an order id is left for every creation in flight.
HayId ==
  Cardinality({h \in Hilos : hilo[h].fase \in {"crear", "bloqueado"}})
    < Cardinality({o \in PedidoIds : pedido[o].estado = "NINGUNO"})

CreateOrderCheck(h, u, cuenta) ==
  /\ Entra(h, u)
  /\ HayId
  /\ Pedidas(cuenta) # {}
  /\ ~TieneActivo(u)
  /\ hilo' = [hilo EXCEPT ![h] =
       [fase |-> "crear", usuario |-> u, cuenta |-> cuenta, filas |-> {}]]
  /\ UNCHANGED <<publicacion, pedido, avisos, caidas, historia>>

\* PostgreSQL locks row after row, in an order the query leaves open; only the
\* account of a publication's seller follows the publication.
Siguientes(h) ==
  LET vendedores == {Vendedor[p] : p \in hilo[h].filas \cap Publicaciones} \ hilo[h].filas
  IN IF vendedores # {} THEN vendedores ELSE Pedidas(hilo[h].cuenta) \ hilo[h].filas

\* select_for_update: waits for the lock of row x and takes it.  The snapshots
\* are those of the locked rows; a publication that is gone ends the request.
CreateOrderLock(h, x) ==
  LET cuenta == hilo[h].cuenta
      filas  == hilo[h].filas \cup {x}
  IN /\ hilo[h].fase = "crear"
     /\ x \in Siguientes(h)
     /\ FilaLibre(h, x)
     /\ hilo' = [hilo EXCEPT ![h] =
          IF x \in Publicaciones /\ ~ExistePublicacion(x) THEN Libre
          ELSE IF filas # Filas(cuenta)
            THEN [fase |-> "crear", usuario |-> hilo[h].usuario, cuenta |-> cuenta,
                  filas |-> filas]
          ELSE [fase |-> "bloqueado", usuario |-> hilo[h].usuario, cuenta |-> cuenta,
                foto |-> [p \in Publicaciones |->
                  IF cuenta[p] > 0 THEN publicacion[p] ELSE SinPublicacion]]]
     /\ UNCHANGED <<publicacion, pedido, avisos, caidas, historia>>

\* validate_and_price_items
Subtotal(cantidad, precio) ==
  MapThenSumSet(LAMBDA p : cantidad[p] * precio[p], Publicaciones)

PreciosDe(filas) == [p \in Publicaciones |-> filas[p].precio]

Valido(cuenta, foto) ==
  \A p \in Pedidas(cuenta) :
    /\ foto[p].estado = "ACTIVA"
    /\ foto[p].stock >= cuenta[p]
    /\ cuenta[p] <= AlMenos(1, foto[p].maximo)

\* Mutant: each line is priced as one unit.
TotalPorLinea(cuenta, foto) ==
  MapThenSumSet(LAMBDA p : foto[p].precio, Pedidas(cuenta)) + TarifaEntrega

TotalPedido(cuenta, foto) == Subtotal(cuenta, PreciosDe(foto)) + TarifaEntrega

TotalPositivo(cuenta, foto) == TotalPedido(cuenta, foto) \in Nat \ {0}

\* Mutant: the loop runs once per unit and deducts the whole line each time.
DescontadoDeMas(cuenta, foto) ==
  [p \in Publicaciones |->
    IF cuenta[p] > 0
      THEN [publicacion[p] EXCEPT !.stock = foto[p].stock - cuenta[p] * cuenta[p]]
      ELSE publicacion[p]]

\* pub.stock = max(0, stock - qty) on the locked rows; only stock is saved.
Descontado(cuenta, foto) ==
  [p \in Publicaciones |->
    IF cuenta[p] > 0
      THEN [publicacion[p] EXCEPT !.stock = AlMenos(0, foto[p].stock - cuenta[p])]
      ELSE publicacion[p]]

\* The commit checks the deferred foreign key to the buyer's account, which
\* waits for whoever holds that row FOR UPDATE.
CreateOrderCommit(h, o, principal) ==
  LET cuenta == hilo[h].cuenta
      foto   == hilo[h].foto
      u      == hilo[h].usuario
  IN /\ hilo[h].fase = "bloqueado"
     /\ Valido(cuenta, foto)
     /\ TotalPositivo(cuenta, foto)
     /\ FilaLibre(h, u)
     /\ pedido[o].estado = "NINGUNO"
     /\ principal \in Pedidas(cuenta)
     /\ pedido' = [pedido EXCEPT ![o] =
          [estado |-> "PENDIENTE", comprador |-> u, principal |-> principal,
           cantidad |-> cuenta, precioUnitario |-> PreciosDe(foto),
           total |-> TotalPedido(cuenta, foto)]]
     /\ publicacion' = Descontado(cuenta, foto)
     /\ vendidas' = [p \in Publicaciones |-> vendidas[p] + cuenta[p]]
     /\ hilo' = [hilo EXCEPT ![h] =
          [fase |-> "avisar", usuario |-> u, para |-> Vendedor[principal],
           aviso |-> [tipo |-> "nuevo", pedido |-> o]]]
     /\ UNCHANGED <<avisos, caidas, perdidos, entregados, repuesto>>

\* Mutant: the transaction of a refused order stays open.
CreateOrderSinRollback(h) ==
  /\ hilo[h].fase = "bloqueado"
  /\ UNCHANGED vars

\* A ValidationError inside the atomic block rolls it back.
CreateOrderRollback(h) ==
  /\ hilo[h].fase = "bloqueado"
  /\ \/ ~Valido(hilo[h].cuenta, hilo[h].foto)
     \/ ~TotalPositivo(hilo[h].cuenta, hilo[h].foto)
  /\ hilo' = [hilo EXCEPT ![h] = Libre]
  /\ UNCHANGED <<publicacion, pedido, avisos, caidas, historia>>

\* Thread g waits for a row of thread h: in its SELECT, or at its commit for the
\* buyer's account.
Espera(g, h) ==
  /\ g # h
  /\ \/ hilo[g].fase = "crear" /\ \E x \in Siguientes(g) : Tiene(h, x)
     \/ hilo[g].fase = "bloqueado" /\ Tiene(h, hilo[g].usuario)

\* Each thread of S waits for one of S, and is waited for by one of S.
EnCiclo(h) ==
  \E S \in SUBSET Hilos, f \in [Hilos -> Hilos] :
    /\ h \in S
    /\ \A g \in S : f[g] \in S /\ Espera(g, f[g]) /\ \E k \in S : f[k] = g

\* PostgreSQL's deadlock detector aborts one transaction of a cycle.
CreateOrderDeadlock(h) ==
  /\ EnCiclo(h)
  /\ hilo' = [hilo EXCEPT ![h] = Libre]
  /\ UNCHANGED <<publicacion, pedido, avisos, caidas, historia>>

------------------------------------------------------------------------------
(* accept_order and mark_order_delivered: read, then save(update_fields)   *)

\* Mutant: nobody is told.
GuardaSinAviso(h, o, e, aviso, para) ==
  /\ pedido' = IF Existe(o) THEN [pedido EXCEPT ![o].estado = e] ELSE pedido
  /\ hilo' = [hilo EXCEPT ![h] = Libre]

\* save(update_fields=["estado"]) writes the column whatever the row holds by
\* now, and raises DatabaseError when the row is gone.
GuardaEstado(h, o, e, aviso, para) ==
  IF Existe(o)
    THEN /\ pedido' = [pedido EXCEPT ![o].estado = e]
         /\ hilo' = [hilo EXCEPT ![h] =
              [fase |-> "avisar", usuario |-> hilo[h].usuario, para |-> para,
               aviso |-> [tipo |-> aviso, pedido |-> o]]]
    ELSE /\ hilo' = [hilo EXCEPT ![h] = Libre]
         /\ UNCHANGED pedido

AcceptOrderRead(h, o) ==
  /\ Existe(o)
  /\ pedido[o].estado = "PENDIENTE"
  /\ Entra(h, Vendedor[pedido[o].principal])
  /\ hilo' = [hilo EXCEPT ![h] =
       [fase |-> "aceptar", usuario |-> Vendedor[pedido[o].principal], pedido |-> o]]
  /\ UNCHANGED <<publicacion, pedido, avisos, caidas, historia>>

AcceptOrderSave(h) ==
  /\ hilo[h].fase = "aceptar"
  /\ GuardaEstado(h, hilo[h].pedido, "ACEPTADO", "aceptado",
                  pedido[hilo[h].pedido].comprador)
  /\ UNCHANGED <<publicacion, avisos, caidas, historia>>

MarkOrderDeliveredRead(h, o) ==
  /\ Existe(o)
  /\ pedido[o].estado # "ENTREGADO"
  /\ Entra(h, pedido[o].comprador)
  /\ hilo' = [hilo EXCEPT ![h] =
       [fase |-> "entregar", usuario |-> pedido[o].comprador, pedido |-> o]]
  /\ UNCHANGED <<publicacion, pedido, avisos, caidas, historia>>

Entregado(o) == entregados' = IF Existe(o) THEN entregados \cup {o} ELSE entregados

MarkOrderDeliveredSave(h) ==
  /\ hilo[h].fase = "entregar"
  /\ GuardaEstado(h, hilo[h].pedido, "ENTREGADO", "entregado",
                  Vendedor[pedido[hilo[h].pedido].principal])
  /\ Entregado(hilo[h].pedido)
  /\ UNCHANGED <<publicacion, avisos, caidas, perdidos, repuesto, vendidas>>

\* DjangoPedidoDeliveryRepository.mark_entregado: what delivery does to an order.
MarkEntregado(o) ==
  /\ Existe(o)
  /\ pedido' = [pedido EXCEPT ![o].estado = "ENTREGADO"]
  /\ entregados' = entregados \cup {o}
  /\ UNCHANGED <<publicacion, hilo, avisos, caidas, perdidos, repuesto, vendidas>>

------------------------------------------------------------------------------
(* NotificacionService.enviar, the last call of each handler               *)

\* mark_order_delivered loads pedido.publicacion only now: DoesNotExist if its
\* row is gone.  The other handlers hold the rows they address.
Enviable(a) == a.tipo = "entregado" => Existe(a.pedido)

Enviar(h) ==
  /\ hilo[h].fase = "avisar"
  /\ FilaLibre(h, hilo[h].para)
  /\ IF Enviable(hilo[h].aviso)
       THEN /\ avisos' = avisos \cup {hilo[h].aviso}
            /\ UNCHANGED perdidos
       ELSE /\ perdidos' = perdidos \cup {hilo[h].aviso}
            /\ UNCHANGED avisos
  /\ hilo' = [hilo EXCEPT ![h] = Libre]
  /\ UNCHANGED <<publicacion, pedido, caidas, entregados, repuesto, vendidas>>

\* A request dies between two statements: geocoding refuses the address, the
\* worker is killed or times out.  An open transaction is rolled back.
Caer(h) ==
  /\ hilo[h] # Libre
  /\ caidas < MaxCaidas
  /\ caidas' = caidas + 1
  /\ perdidos' = IF hilo[h].fase = "avisar" THEN perdidos \cup {hilo[h].aviso}
                                            ELSE perdidos
  /\ hilo' = [hilo EXCEPT ![h] = Libre]
  /\ UNCHANGED <<publicacion, pedido, avisos, entregados, repuesto, vendidas>>

------------------------------------------------------------------------------

Init ==
  /\ publicacion = [p \in Publicaciones |-> SinPublicacion]
  /\ pedido = [o \in PedidoIds |-> SinPedido]
  /\ hilo = [h \in Hilos |-> Libre]
  /\ avisos = {}
  /\ caidas = 0
  /\ perdidos = {}
  /\ entregados = {}
  /\ repuesto = [p \in Publicaciones |-> 0]
  /\ vendidas = [p \in Publicaciones |-> 0]

Catalogo ==
  \/ \E p \in Publicaciones, s \in Stocks, m \in Maximos, c \in Precios :
       CreatePublicacion(p, s, m, c)
  \/ \E p \in Editables :
       \/ \E e \in EstadosPublicacion,
             s \in Stocks \cup {publicacion[p].stock},
             m \in Maximos \cup {publicacion[p].maximo},
             c \in Precios \cup {publicacion[p].precio} : UpdatePublicacion(p, e, s, m, c)
       \/ DeletePublicacion(p)

\* Requests enter when users send them ...
Llegada(h) ==
  \/ \E u \in Usuarios, cuenta \in Cuentas : CreateOrderCheck(h, u, cuenta)
  \/ \E o \in PedidoIds : AcceptOrderRead(h, o) \/ MarkOrderDeliveredRead(h, o)

\* ... and their threads then run on.
Avance(h) ==
  \/ \E x \in Publicaciones \cup Usuarios : CreateOrderLock(h, x)
  \/ \E o \in PedidoIds, p \in Publicaciones : CreateOrderCommit(h, o, p)
  \/ CreateOrderRollback(h)
  \/ CreateOrderDeadlock(h)
  \/ AcceptOrderSave(h)
  \/ MarkOrderDeliveredSave(h)
  \/ Enviar(h)

\* What the market expects of delivery, and Entregas shows it to keep: couriers
\* finish orders that their seller accepted.
Reparto ==
  \E o \in PedidoIds : pedido[o].estado \in {"ACEPTADO", "ENTREGADO"} /\ MarkEntregado(o)

Next ==
  \/ Catalogo
  \/ Reparto
  \/ \E h \in Hilos : Llegada(h) \/ Avance(h) \/ Caer(h)

Spec == Init /\ [][Next]_vars

\* The operating system keeps running a thread, and PostgreSQL serves a row's
\* waiters in the order they came: one that waits for a lock which is freed
\* again and again obtains it in the end.
SpecJusta == Spec /\ \A h \in Hilos : SF_vars(Avance(h))

------------------------------------------------------------------------------
(* Properties *)

\* Every variable has its type; a deleted or unused row never looks alive.
TypeOK ==
  /\ publicacion \in [Publicaciones -> Publicacion]
  /\ pedido \in [PedidoIds -> Pedido]
  /\ hilo \in [Hilos -> Peticion]
  /\ avisos \subseteq Aviso
  /\ caidas \in Nat
  /\ perdidos \subseteq Aviso
  /\ entregados \subseteq PedidoIds
  /\ repuesto \in [Publicaciones -> Nat]
  /\ vendidas \in [Publicaciones -> Nat]

\* No sale is lost and no unit is sold twice: what a seller supplied is what is
\* left plus what was sold, however orders of several buyers and edits of the
\* seller interleave (create_order under select_for_update).
ConservacionStock ==
  \A p \in Publicaciones : publicacion[p].stock + vendidas[p] = repuesto[p]

\* A live order's main publication is live and among its items, and every item
\* points to a live publication: deletions cascade through both foreign keys
\* even with orders in flight.
IntegridadReferencial ==
  \A o \in PedidoIds : Existe(o) =>
    /\ pedido[o].principal \in Publicaciones
    /\ pedido[o].comprador \in Usuarios
    /\ pedido[o].cantidad[pedido[o].principal] > 0
    /\ \A p \in Publicaciones : pedido[o].cantidad[p] > 0 => ExistePublicacion(p)

\* The total charged is the fee plus the items at the prices they were sold
\* for, whatever the seller does to prices later, while no publication has been
\* deleted; from then on it may only exceed them.
TotalCubreItems ==
  \A o \in PedidoIds : Existe(o) =>
    LET items == Subtotal(pedido[o].cantidad, pedido[o].precioUnitario) + TarifaEntrega
    IN /\ pedido[o].total >= items
       /\ pedido[o].total > items =>
            \E p \in Publicaciones : publicacion[p].estado = "BORRADA"

\* The notice of an event was created, is about to be, or its request died.
Informado(t, o) ==
  LET a == [tipo |-> t, pedido |-> o]
  IN \/ a \in avisos \cup perdidos
     \/ \E h \in Hilos : hilo[h].fase = "avisar" /\ hilo[h].aviso = a

\* No order is created or accepted without its notification, save where the
\* request died between the write and the notice.
AvisosCompletos ==
  \A o \in PedidoIds :
    /\ Existe(o) => Informado("nuevo", o)
    /\ Existe(o) /\ pedido[o].estado = "ACEPTADO" => Informado("aceptado", o)
    /\ Cardinality(perdidos) <= caidas + Cardinality({a \in perdidos : ~Existe(a.pedido)})

\* A deleted order never comes back, although handlers that read it before the
\* deletion still save it afterwards (save(update_fields) never inserts).
BorradoEsFinal ==
  [][\A o \in PedidoIds :
       pedido[o].estado = "BORRADO" => pedido'[o].estado = "BORRADO"]_pedido

\* Threads, snapshots and row locks do not show: the orders that are created
\* could have been sold one at a time, each at one instant, out of the rows as
\* they are at its commit (create_order under select_for_update).
LaTienda == INSTANCE Tienda

ImplementaTienda == LaTienda!Spec

\* The guards of Avance: what thread h waits for, if anything, has arrived.
PuedeSeguir(h) ==
  \/ hilo[h].fase \in {"aceptar", "entregar"}
  \/ hilo[h].fase = "crear" /\ \E x \in Siguientes(h) : FilaLibre(h, x)
  \/ hilo[h].fase = "avisar" /\ FilaLibre(h, hilo[h].para)
  \/ /\ hilo[h].fase = "bloqueado"
     /\ \/ ~Valido(hilo[h].cuenta, hilo[h].foto)
        \/ ~TotalPositivo(hilo[h].cuenta, hilo[h].foto)
        \/ /\ FilaLibre(h, hilo[h].usuario)
           /\ \E o \in PedidoIds : pedido[o].estado = "NINGUNO"
           /\ Pedidas(hilo[h].cuenta) # {}

\* While requests are being served, one of them can go on or is in a cycle that
\* the deadlock detector breaks: threads never wait for something that no thread
\* will give, such as a lock of their own or of a request that has ended.
SinAtasco ==
  (\E h \in Hilos : hilo[h] # Libre) => \E h \in Hilos : PuedeSeguir(h) \/ EnCiclo(h)

\* With clients that send one request at a time, a buyer has two active orders
\* only if one of them had been delivered and a late acceptance revived it.
UnActivoSinResurreccion ==
  \A o1, o2 \in PedidoIds :
    /\ PedidoActivo(o1)
    /\ PedidoActivo(o2)
    /\ pedido[o1].comprador = pedido[o2].comprador
    /\ o1 \notin entregados
    /\ o2 \notin entregados
    => o1 = o2

\* Every request that was let in comes to an end: no thread waits forever for
\* row locks, not even when two carts hold each other's publications or two
\* accounts buy from each other.
PeticionTermina ==
  \A h \in Hilos : hilo[h] # Libre ~> hilo[h] = Libre

\* market/domain/services.py:314, "Ya tienes un pedido activo": a buyer has at
\* most one active order.
UnPedidoActivo ==
  \A o1, o2 \in PedidoIds :
    /\ PedidoActivo(o1)
    /\ PedidoActivo(o2)
    /\ pedido[o1].comprador = pedido[o2].comprador
    => o1 = o2
=============================================================================
