------------------------------- MODULE Tienda --------------------------------
(***************************************************************************)
(* What the market promises, whatever its threads do.  An order is sold at *)
(* one instant: every publication in the cart is on sale at that instant,  *)
(* has the units and allows that many of them, the units leave the stock   *)
(* and the buyer is charged the prices then on show.  There are no         *)
(* threads, no locks and no snapshots here.                                *)
(***************************************************************************)
EXTENDS Integers, FiniteSetsExt

CONSTANTS Usuarios, Publicaciones, PedidoIds, MaxUnidades, TarifaEntrega, Nadie

VARIABLES publicacion, pedido

Oferta == [estado : {"ACTIVA", "PAUSADA"}, stock : Nat, maximo : Nat \ {0}, precio : Nat]
SinOferta == [estado |-> "NINGUNA", stock |-> 0, maximo |-> 0, precio |-> 0]

Anunciada(p) == publicacion[p].estado \in {"ACTIVA", "PAUSADA"}

SinVender ==
  [estado |-> "NINGUNO", comprador |-> Nadie, principal |-> Nadie,
   cantidad |-> [p \in Publicaciones |-> 0],
   precioUnitario |-> [p \in Publicaciones |-> 0], total |-> 0]

Vendido(o) == pedido[o].estado \in {"PENDIENTE", "ACEPTADO", "ENTREGADO"}

Init ==
  /\ publicacion = [p \in Publicaciones |-> SinOferta]
  /\ pedido = [o \in PedidoIds |-> SinVender]

\* A seller offers p for the first time, or offers it differently.
Anunciar(p) ==
  /\ publicacion[p].estado # "BORRADA"
  /\ publicacion'[p] \in Oferta
  /\ publicacion' = [publicacion EXCEPT ![p] = publicacion'[p]]
  /\ UNCHANGED pedido

\* p goes, with the orders it was the main publication of, and out of the others.
Retirar(p) ==
  /\ Anunciada(p)
  /\ publicacion' = [publicacion EXCEPT ![p] = [SinOferta EXCEPT !.estado = "BORRADA"]]
  /\ pedido' = [o \in PedidoIds |->
       IF Vendido(o) /\ pedido[o].principal = p
         THEN [SinVender EXCEPT !.estado = "BORRADO"]
         ELSE [pedido[o] EXCEPT !.cantidad[p] = 0]]

\* n units of p can be bought now.
SeVende(p, n) ==
  /\ publicacion[p].estado = "ACTIVA"
  /\ n <= publicacion[p].stock
  /\ n <= publicacion[p].maximo

Importe(cuenta) ==
  LET linea == [p \in Publicaciones |-> cuenta[p] * publicacion[p].precio]
  IN MapThenSumSet(LAMBDA p : linea[p], Publicaciones)

Vender(o, u, cuenta, principal) ==
  /\ pedido[o].estado = "NINGUNO"
  /\ cuenta[principal] > 0
  /\ \A p \in Publicaciones : cuenta[p] > 0 => SeVende(p, cuenta[p])
  /\ publicacion' = [p \in Publicaciones |->
       IF cuenta[p] > 0 THEN [publicacion[p] EXCEPT !.stock = @ - cuenta[p]]
                        ELSE publicacion[p]]
  /\ pedido' = [pedido EXCEPT ![o] =
       [estado |-> "PENDIENTE", comprador |-> u, principal |-> principal, cantidad |-> cuenta,
        precioUnitario |-> [p \in Publicaciones |->
          IF cuenta[p] > 0 THEN publicacion[p].precio ELSE 0],
        total |-> Importe(cuenta) + TarifaEntrega]]

\* The order is accepted or delivered.  Its state is all that changes, and only
\* while the order is there; that a late acceptance may follow the delivery is
\* part of what the market does (see UnActivoSinResurreccion in Pedidos).
Atender(o) ==
  /\ Vendido(o)
  /\ \E e \in {"ACEPTADO", "ENTREGADO"} : pedido' = [pedido EXCEPT ![o].estado = e]
  /\ UNCHANGED publicacion

Next ==
  \/ \E p \in Publicaciones : Anunciar(p) \/ Retirar(p)
  \/ \E o \in PedidoIds, u \in Usuarios, principal \in Publicaciones,
        cuenta \in [Publicaciones -> 0..MaxUnidades] : Vender(o, u, cuenta, principal)
  \/ \E o \in PedidoIds : Atender(o)

Spec == Init /\ [][Next]_<<publicacion, pedido>>
=============================================================================
