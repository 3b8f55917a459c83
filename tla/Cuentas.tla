------------------------------ MODULE Cuentas -------------------------------
(***************************************************************************)
(* The accounts of the monolith: registration, the link that resets a      *)
(* password, and the deletion of an account, which looks for orders and    *)
(* deliveries still open in three queries and then deletes, with           *)
(* everything that hangs from it, what it looked at a moment ago.          *)
(***************************************************************************)
EXTENDS Integers, FiniteSets

CONSTANTS
  Correos,    \* e-mail addresses, normalised: one account each
  HilosCta,   \* threads
  Compras,    \* orders that may be placed
  Comprador,  \* who places each order
  Vendedor,   \* the seller of its first dish, whose publication is Pedido.publicacion
  Vendedores, \* the sellers of its dishes
  Repartidor, \* who may deliver it
  MaxClave    \* bound on the passwords an account has had

ASSUME ConstantesCuentas ==
  /\ {Comprador, Vendedor, Repartidor} \subseteq [Compras -> Correos]
  /\ Vendedores \in [Compras -> SUBSET Correos]
  /\ \A p \in Compras : Vendedor[p] \in Vendedores[p]
  /\ MaxClave \in Nat
  /\ IsFiniteSet(HilosCta)

VARIABLES
  cuentas,    \* the accounts in the table
  clave,      \* how many passwords the account of each address has had
  compra,     \* state of each order
  platos,     \* the sellers of the dishes (PedidoItem) that it has
  entrega,    \* state of its Asignacion
  operacion,  \* what each thread is doing
  enlaces,    \* links sent: the account and the password they were made with
  usos,       \* passwords changed with a link made with each password
  tarde,      \* <<thread, order>>: opened since the query of that deletion
  tardeEntrega, \* <<thread, order>>: assigned since the query of that deletion
  adelantadas, \* orders that were ENTREGADO while their delivery was under way
  arrastradas \* open orders, their dishes and deliveries deleted with an account

varsCuentas == <<cuentas, clave, compra, platos, entrega, operacion, enlaces, usos, tarde,
                 tardeEntrega, adelantadas, arrastradas>>

------------------------------------------------------------------------------

Desocupado == [fase |-> "desocupado"]
FasesBaja == {"compras", "ventas", "entregas", "borrar"}
Operacion ==
  [fase : {"desocupado"}] \cup [fase : FasesBaja \cup {"registrar"}, correo : Correos]
  \cup [fase : {"cambiar"}, correo : Correos, con : 1 .. MaxClave]

Opera(h, o) == operacion' = [operacion EXCEPT ![h] = o]
EnCuenta(h, u, fases) == operacion[h].fase \in fases /\ operacion[h].correo = u
Filas3 == <<compra, platos, entrega, tarde, tardeEntrega, adelantadas, arrastradas>>
Cuentas3 == <<cuentas, clave, enlaces, usos>>

\* Every query of the deletion that thread h runs for u, from phase f on, is past.
Pasada(h, u, f) ==
  EnCuenta(h, u, CASE f = "compras" -> {"ventas", "entregas", "borrar"}
                   [] f = "ventas" -> {"entregas", "borrar"}
                   [] f = "entregas" -> {"borrar"})

------------------------------------------------------------------------------
(* RegisterUserUseCase *)

\* exists_by_email
Registrar(h, u) ==
  /\ operacion[h] = Desocupado
  /\ u \notin cuentas
  /\ Opera(h, [fase |-> "registrar", correo |-> u])
  /\ UNCHANGED <<Cuentas3, Filas3>>

\* create_user: whoever comes second gets IntegrityError and a conflict.
CrearCuenta(h) ==
  /\ operacion[h].fase = "registrar"
  /\ LET u == operacion[h].correo
     IN IF u \in cuentas THEN UNCHANGED <<cuentas, clave>>
        ELSE /\ clave[u] < MaxClave
             /\ cuentas' = cuentas \cup {u}
             /\ clave' = [clave EXCEPT ![u] = @ + 1]
  /\ Opera(h, Desocupado)
  /\ UNCHANGED <<enlaces, usos, Filas3>>

------------------------------------------------------------------------------
(* RequestPasswordResetUseCase, ResetPasswordUseCase *)

\* The token is a hash of the password that the account has.
PedirEnlace(u) ==
  /\ u \in cuentas
  /\ enlaces' = enlaces \cup {<<u, clave[u]>>}
  /\ UNCHANGED <<cuentas, clave, usos, operacion, Filas3>>

\* Mutant: the token is not checked against the password.
AbrirCualquierEnlace(h, u, v) ==
  /\ operacion[h] = Desocupado
  /\ <<u, v>> \in enlaces
  /\ u \in cuentas
  /\ Opera(h, [fase |-> "cambiar", correo |-> u, con |-> v])
  /\ UNCHANGED <<Cuentas3, Filas3>>

\* resolve_user_from_reset
AbrirEnlace(h, u, v) ==
  /\ operacion[h] = Desocupado
  /\ <<u, v>> \in enlaces
  /\ u \in cuentas
  /\ v = clave[u]
  /\ Opera(h, [fase |-> "cambiar", correo |-> u, con |-> v])
  /\ UNCHANGED <<Cuentas3, Filas3>>

\* update_password, with the row that resolve_user_from_reset read; the account
\* may be gone, and then save(update_fields) raises.
CambiarClave(h) ==
  /\ operacion[h].fase = "cambiar"
  /\ LET o == operacion[h]
     IN IF o.correo \in cuentas
          THEN /\ clave[o.correo] < MaxClave
               /\ clave' = [clave EXCEPT ![o.correo] = @ + 1]
               /\ usos' = [usos EXCEPT ![o.correo][o.con] = @ + 1]
          ELSE UNCHANGED <<clave, usos>>
  /\ Opera(h, Desocupado)
  /\ UNCHANGED <<cuentas, enlaces, Filas3>>

------------------------------------------------------------------------------
(* Orders and deliveries, as far as the deletion looks at them *)

\* The deletions that asked before order p was open, or open again; and before
\* its delivery was.
TardePara(p) ==
  {<<h, p>> : h \in {g \in HilosCta : \/ Pasada(g, Comprador[p], "compras")
                                       \/ \E v \in Vendedores[p] : Pasada(g, v, "ventas")}}
TardeParaEntrega(p) == {<<h, p>> : h \in {g \in HilosCta : Pasada(g, Repartidor[p], "entregas")}}

\* An order that is ENTREGADO before its delivery is FINALIZADO.
SeAdelanta(p) ==
  adelantadas' = IF compra'[p] = "cerrada" /\ entrega'[p] = "abierta"
                   THEN adelantadas \cup {p} ELSE adelantadas

AbrirCompra(p) ==
  /\ compra[p] = "no hay"
  /\ {Comprador[p]} \cup Vendedores[p] \subseteq cuentas
  /\ compra' = [compra EXCEPT ![p] = "abierta"]
  /\ platos' = [platos EXCEPT ![p] = Vendedores[p]]
  /\ tarde' = tarde \cup TardePara(p)
  /\ UNCHANGED <<entrega, tardeEntrega, adelantadas, arrastradas, Cuentas3, operacion>>

\* A late acceptance writes ACEPTADO over ENTREGADO.
ReabrirCompra(p) ==
  /\ compra[p] = "cerrada"
  /\ compra' = [compra EXCEPT ![p] = "abierta"]
  /\ tarde' = tarde \cup TardePara(p)
  /\ UNCHANGED <<platos, entrega, tardeEntrega, adelantadas, arrastradas, Cuentas3, operacion>>

\* The courier read the order as ACEPTADO; it may be ENTREGADO by now.
AsignarCompra(p) ==
  /\ compra[p] \in {"abierta", "cerrada"}
  /\ entrega[p] = "no hay"
  /\ Repartidor[p] \in cuentas
  /\ entrega' = [entrega EXCEPT ![p] = "abierta"]
  /\ tardeEntrega' = tardeEntrega \cup TardeParaEntrega(p)
  /\ UNCHANGED <<platos, compra, tarde, arrastradas, Cuentas3, operacion>>
  /\ SeAdelanta(p)

\* A late location update writes LLEGO_ENTREGA over FINALIZADO.
ReabrirEntrega(p) ==
  /\ entrega[p] = "cerrada"
  /\ entrega' = [entrega EXCEPT ![p] = "abierta"]
  /\ tardeEntrega' = tardeEntrega \cup TardeParaEntrega(p)
  /\ UNCHANGED <<platos, compra, tarde, arrastradas, Cuentas3, operacion>>
  /\ SeAdelanta(p)

\* ENTREGADO: the buyer says so, at any time, or the delivery that is FINALIZADO.
CerrarCompra(p) ==
  /\ compra[p] = "abierta"
  /\ compra' = [compra EXCEPT ![p] = "cerrada"]
  /\ UNCHANGED <<platos, entrega, tarde, tardeEntrega, arrastradas, Cuentas3, operacion>>
  /\ SeAdelanta(p)

CerrarEntrega(p) ==
  /\ entrega[p] = "abierta"
  /\ entrega' = [entrega EXCEPT ![p] = "cerrada"]
  /\ UNCHANGED <<platos, compra, tarde, tardeEntrega, adelantadas, arrastradas, Cuentas3, operacion>>

------------------------------------------------------------------------------
(* DeleteAccountUseCase *)

\* The password is the account's.
PedirBaja(h, u) ==
  /\ operacion[h] = Desocupado
  /\ u \in cuentas
  /\ Opera(h, [fase |-> "compras", correo |-> u])
  /\ UNCHANGED <<Cuentas3, Filas3>>

Bloqueos(u, f) ==
  CASE f = "compras" -> {p \in Compras : Comprador[p] = u /\ compra[p] = "abierta"}
    [] f = "ventas" -> {p \in Compras : Vendedor[p] = u /\ compra[p] = "abierta"}
    [] f = "entregas" -> {p \in Compras : Repartidor[p] = u /\ entrega[p] = "abierta"}

Siguiente == [compras |-> "ventas", ventas |-> "entregas", entregas |-> "borrar"]

\* Mutant: the orders of the account's publications are not looked at.
BuscarSinVentas(h) ==
  /\ operacion[h].fase \in {"compras", "ventas", "entregas"}
  /\ LET o == operacion[h]
     IN Opera(h, IF o.fase # "ventas" /\ Bloqueos(o.correo, o.fase) # {} THEN Desocupado
                 ELSE [o EXCEPT !.fase = Siguiente[@]])
  /\ UNCHANGED <<Cuentas3, Filas3>>

\* find_deletion_blocker, one query after another
BuscarBloqueo(h) ==
  /\ operacion[h].fase \in {"compras", "ventas", "entregas"}
  /\ LET o == operacion[h]
     IN Opera(h, IF Bloqueos(o.correo, o.fase) # {} THEN Desocupado
                 ELSE [o EXCEPT !.fase = Siguiente[@]])
  /\ UNCHANGED <<Cuentas3, Filas3>>

\* delete_user: with the account go (CASCADE) the orders it placed, those whose
\* Pedido.publicacion is one of its publications, the deliveries of both and of
\* the courier, and its publications' dishes in any other order.
BorrarCuenta(h) ==
  /\ operacion[h].fase = "borrar"
  /\ LET u == operacion[h].correo
         suyas == {p \in Compras : u \in {Comprador[p], Vendedor[p]} /\ compra[p] # "no hay"}
         llevadas == {p \in Compras : Repartidor[p] = u /\ entrega[p] # "no hay"}
     IN /\ cuentas' = cuentas \ {u}
        /\ compra' = [p \in Compras |-> IF p \in suyas THEN "borrada" ELSE compra[p]]
        /\ platos' = [p \in Compras |-> IF p \in suyas THEN {} ELSE platos[p] \ {u}]
        /\ entrega' = [p \in Compras |-> IF p \in suyas \cup llevadas THEN "no hay" ELSE entrega[p]]
        /\ arrastradas' = arrastradas
             \cup {<<h, p, "compra">> : p \in {q \in suyas : compra[q] = "abierta"}}
             \cup {<<h, p, "entrega">> : p \in {q \in llevadas : entrega[q] = "abierta"}}
             \cup {<<h, p, "reparto">> : p \in {q \in suyas \ llevadas : entrega[q] = "abierta"}}
             \cup {<<h, p, "plato">> : p \in {q \in Compras \ suyas : u \in platos[q] /\ compra[q] = "abierta"}}
  /\ Opera(h, Desocupado)
  /\ UNCHANGED <<clave, enlaces, usos, tarde, tardeEntrega, adelantadas>>

------------------------------------------------------------------------------

InitCuentas ==
  /\ cuentas = Correos
  /\ clave = [u \in Correos |-> 1]
  /\ compra = [p \in Compras |-> "no hay"]
  /\ platos = [p \in Compras |-> {}]
  /\ entrega = [p \in Compras |-> "no hay"]
  /\ operacion = [h \in HilosCta |-> Desocupado]
  /\ enlaces = {}
  /\ usos = [u \in Correos |-> [v \in 1 .. MaxClave |-> 0]]
  /\ tarde = {}
  /\ tardeEntrega = {}
  /\ adelantadas = {}
  /\ arrastradas = {}

PasoCuentas(h) ==
  \/ \E u \in Correos : \/ Registrar(h, u)
                        \/ PedirBaja(h, u)
                        \/ \E v \in 1 .. MaxClave : AbrirEnlace(h, u, v)
  \/ CrearCuenta(h)
  \/ CambiarClave(h)
  \/ BuscarBloqueo(h)
  \/ BorrarCuenta(h)

PasoCompras(p) ==
  \/ AbrirCompra(p) \/ ReabrirCompra(p) \/ CerrarCompra(p)
  \/ AsignarCompra(p) \/ ReabrirEntrega(p) \/ CerrarEntrega(p)

NextCuentas ==
  \/ \E h \in HilosCta : PasoCuentas(h)
  \/ \E u \in Correos : PedirEnlace(u)
  \/ \E p \in Compras : PasoCompras(p)

SpecCuentas == InitCuentas /\ [][NextCuentas]_varsCuentas

------------------------------------------------------------------------------
(* Properties *)

TypeOKCuentas ==
  /\ cuentas \subseteq Correos
  /\ clave \in [Correos -> 1 .. MaxClave + 1]
  /\ compra \in [Compras -> {"no hay", "abierta", "cerrada", "borrada"}]
  /\ platos \in [Compras -> SUBSET Correos]
  /\ entrega \in [Compras -> {"no hay", "abierta", "cerrada"}]
  /\ operacion \in [HilosCta -> Operacion]
  /\ enlaces \subseteq Correos \X (1 .. MaxClave + 1)
  /\ usos \in [Correos -> [1 .. MaxClave -> Nat]]
  /\ tarde \subseteq HilosCta \X Compras
  /\ tardeEntrega \subseteq HilosCta \X Compras
  /\ adelantadas \subseteq Compras
  /\ arrastradas \subseteq HilosCta \X Compras \X {"compra", "entrega", "reparto", "plato"}

\* The deletion of an account takes no open order of its buyer or of the seller of
\* its main publication, and no open delivery of its courier, except one opened
\* after the query that would have found it.  The delivery that somebody else has
\* under way goes with an order unseen, as no query looks for it: then the order
\* had been ENTREGADO before its courier was done, or it was opened late itself.
BajaSinPedidosVivos ==
  \A h \in HilosCta : \A p \in Compras :
    /\ <<h, p, "compra">> \in arrastradas => <<h, p>> \in tarde
    /\ <<h, p, "entrega">> \in arrastradas => <<h, p>> \in tardeEntrega
    /\ <<h, p, "reparto">> \in arrastradas => <<h, p>> \in tarde \/ p \in adelantadas

\* find_deletion_blocker tells a seller "Tienes pedidos activos en tus
\* publicaciones. Espera a que se entreguen antes de eliminar tu cuenta": the
\* deletion takes no dish out of an open order that was there when it asked.
BajaSinPlatosVivos ==
  \A h \in HilosCta : \A p \in Compras : <<h, p, "plato">> \in arrastradas => <<h, p>> \in tarde

\* A link changes the password once; two requests with links made with the same
\* password may both check before either stores, and no more than that: however
\* many are sent, one for each thread.
EnlaceAcotado ==
  \A u \in Correos : \A v \in 1 .. MaxClave : usos[u][v] <= Cardinality(HilosCta)
=============================================================================
