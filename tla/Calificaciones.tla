--------------------------- MODULE Calificaciones ----------------------------
(***************************************************************************)
(* rate_order: the monolith stores a rating in support-service over HTTP,  *)
(* marks the order, recomputes the seller's average from the ratings that  *)
(* support-service lists, and tells the seller.  Nothing ties the four     *)
(* together: each commits on its own, in two services.                     *)
(*                                                                         *)
(* A request that rate_order refuses changes nothing and is no step.  The  *)
(* order's own life, which Pedidos models, appears as Vida.                *)
(***************************************************************************)
EXTENDS Naturals, Sequences, FiniteSets, FiniteSetsExt

CONSTANTS
  PedidoIds, Compradores, Vendedores,
  Comprador, Vendedor, \* Pedido.usuario and Pedido.publicacion.usuario
  Hilos,               \* gunicorn threads of the monolith
  ClienteSerie,        \* TRUE: a buyer has at most one request in flight
  Puntuaciones,        \* the stars that buyers give
  MaxFallos            \* bound on timeouts, errors and requests that die

ASSUME ConstantesCalificaciones ==
  /\ IsFiniteSet(PedidoIds) /\ IsFiniteSet(Vendedores) /\ IsFiniteSet(Hilos)
  /\ Comprador \in [PedidoIds -> Compradores]
  /\ Vendedor \in [PedidoIds -> Vendedores]
  /\ ClienteSerie \in BOOLEAN
  /\ Puntuaciones \subseteq 1..5
  /\ MaxFallos \in Nat

VARIABLES
  estado,         \* Pedido.estado, as far as rate_order looks at it
  calificado,     \* the orders whose column calificado is True
  calificaciones, \* support_service.ratings of each seller, in the order of commit
  tardias,        \* requests whose client gave up before support-service ran them
  reputacion,     \* User.reputacion_promedio and total_calificaciones
  hilo,           \* what each thread has done of rate_order
  avisados,       \* orders whose seller was told of a rating
  fallos          \* failures so far

vars == <<estado, calificado, calificaciones, tardias, reputacion, hilo, avisados, fallos>>

------------------------------------------------------------------------------

Estados == {"ABIERTO", "ENTREGADO", "BORRADO"}

\* The request names seller and buyer only; the order is kept for the properties.
Calificacion == [pedido : PedidoIds, puntos : Puntuaciones]

\* fallo tells two of them apart.
Tardia == [pedido : PedidoIds, puntos : Puntuaciones, fallo : Nat]

\* round(promedio, 1) in tenths, ties to the even one, as Python rounds a double;
\* below 20 ratings a tie is x.25 or x.75, which a double holds exactly.
Decimas(suma, n) ==
  LET q == (10 * suma) \div n
      r == (10 * suma) % n
  IN IF 2 * r > n \/ (2 * r = n /\ q % 2 = 1) THEN q + 1 ELSE q

Resumen(lista) ==
  [promedio |-> Decimas(MapThenSumSet(LAMBDA n : lista[n].puntos, DOMAIN lista), Len(lista)),
   total |-> Len(lista)]

SinReputacion == [promedio |-> 0, total |-> 0]
Reputacion == [promedio : Nat, total : Nat]

Libre == [fase |-> "libre"]
Peticion ==
  {Libre}
  \cup [fase : {"crear", "creada"}, pedido : PedidoIds, puntos : Puntuaciones]
  \cup [fase : {"marcar", "listar", "avisar"}, pedido : PedidoIds]
  \cup [fase : {"guardar"}, pedido : PedidoIds, resumen : Reputacion]

Entra(h, u) ==
  /\ hilo[h] = Libre
  /\ ClienteSerie => \A g \in Hilos : hilo[g] # Libre => Comprador[hilo[g].pedido] # u

Falla ==
  /\ fallos < MaxFallos
  /\ fallos' = fallos + 1

Pasa(h, fase) == hilo' = [hilo EXCEPT ![h] = [fase |-> fase, pedido |-> hilo[h].pedido]]
Termina(h) == hilo' = [hilo EXCEPT ![h] = Libre]

------------------------------------------------------------------------------
(* rate_order *)

RateOrder(h, o, puntos) ==
  /\ Entra(h, Comprador[o])
  /\ estado[o] = "ENTREGADO"
  /\ o \notin calificado
  /\ hilo' = [hilo EXCEPT ![h] = [fase |-> "crear", pedido |-> o, puntos |-> puntos]]
  /\ UNCHANGED <<estado, calificado, calificaciones, tardias, reputacion, avisados, fallos>>

Inserta(o, puntos) ==
  calificaciones' = [calificaciones EXCEPT ![Vendedor[o]] =
    Append(@, [pedido |-> o, puntos |-> puntos])]

\* Mutant: the order is marked before the rating is stored.
CreateRatingSinEsperar(h) ==
  /\ hilo[h].fase = "crear"
  /\ hilo' = [hilo EXCEPT ![h].fase = "creada"]
  /\ UNCHANGED <<estado, calificado, calificaciones, tardias, reputacion, avisados, fallos>>

\* support-service: INSERT and COMMIT
CreateRating(h) ==
  /\ hilo[h].fase = "crear"
  /\ Inserta(hilo[h].pedido, hilo[h].puntos)
  /\ hilo' = [hilo EXCEPT ![h].fase = "creada"]
  /\ UNCHANGED <<estado, calificado, tardias, reputacion, avisados, fallos>>

RatingCreated(h) ==
  /\ hilo[h].fase = "creada"
  /\ Pasa(h, "marcar")
  /\ UNCHANGED <<estado, calificado, calificaciones, tardias, reputacion, avisados, fallos>>

\* ServiceUnavailableError: the call failed, or its 5 seconds were over before
\* or after the insert.  What support-service had not run yet may still run.
RatingFails(h) ==
  /\ hilo[h].fase \in {"crear", "creada"}
  /\ Falla
  /\ \/ UNCHANGED tardias
     \/ /\ hilo[h].fase = "crear"
        /\ tardias' = tardias \cup
             {[pedido |-> hilo[h].pedido, puntos |-> hilo[h].puntos, fallo |-> fallos]}
  /\ Termina(h)
  /\ UNCHANGED <<estado, calificado, calificaciones, reputacion, avisados>>

CreateRatingTarde(t) ==
  /\ t \in tardias
  /\ tardias' = tardias \ {t}
  /\ Inserta(t.pedido, t.puntos)
  /\ UNCHANGED <<estado, calificado, reputacion, hilo, avisados, fallos>>

\* Mutant: the column is forgotten in update_fields.
MarkCalificadoSinGuardar(h) ==
  /\ hilo[h].fase = "marcar"
  /\ IF estado[hilo[h].pedido] = "BORRADO" THEN Termina(h) ELSE Pasa(h, "listar")
  /\ UNCHANGED <<estado, calificado, calificaciones, tardias, reputacion, avisados, fallos>>

\* save(update_fields) raises when the order is gone.
MarkCalificado(h) ==
  /\ hilo[h].fase = "marcar"
  /\ IF estado[hilo[h].pedido] = "BORRADO"
       THEN Termina(h) /\ UNCHANGED calificado
       ELSE Pasa(h, "listar") /\ calificado' = calificado \cup {hilo[h].pedido}
  /\ UNCHANGED <<estado, calificaciones, tardias, reputacion, avisados, fallos>>

\* A list_ratings that fails answers []: the average stays as it is.
ListRatings(h) ==
  LET o == hilo[h].pedido
  IN /\ hilo[h].fase = "listar"
     /\ \/ /\ hilo' = [hilo EXCEPT ![h] =
                [fase |-> "guardar", pedido |-> o, resumen |-> Resumen(calificaciones[Vendedor[o]])]]
           /\ UNCHANGED fallos
        \/ Pasa(h, "avisar") /\ Falla
     /\ UNCHANGED <<estado, calificado, calificaciones, tardias, reputacion, avisados>>

\* Mutant: the total is counted up in the row and the average comes from the list.
RefreshSumando(h) ==
  LET v == Vendedor[hilo[h].pedido]
  IN /\ hilo[h].fase = "guardar"
     /\ reputacion' = [reputacion EXCEPT ![v] =
          [promedio |-> hilo[h].resumen.promedio, total |-> @.total + 1]]
     /\ Pasa(h, "avisar")
     /\ UNCHANGED <<estado, calificado, calificaciones, tardias, avisados, fallos>>

\* Both columns in one UPDATE, computed from a list read before.
RefreshReputacion(h) ==
  /\ hilo[h].fase = "guardar"
  /\ reputacion' = [reputacion EXCEPT ![Vendedor[hilo[h].pedido]] = hilo[h].resumen]
  /\ Pasa(h, "avisar")
  /\ UNCHANGED <<estado, calificado, calificaciones, tardias, avisados, fallos>>

Enviar(h) ==
  /\ hilo[h].fase = "avisar"
  /\ avisados' = avisados \cup {hilo[h].pedido}
  /\ Termina(h)
  /\ UNCHANGED <<estado, calificado, calificaciones, tardias, reputacion, fallos>>

\* The request dies between two of its statements.
Caer(h) ==
  /\ hilo[h].fase \in {"marcar", "listar", "guardar", "avisar"}
  /\ Falla
  /\ Termina(h)
  /\ UNCHANGED <<estado, calificado, calificaciones, tardias, reputacion, avisados>>

\* An order is delivered, taken back by a late acceptance, or deleted.
Vida(o) ==
  /\ estado[o] # "BORRADO"
  /\ \E e \in Estados \ {estado[o]} : estado' = [estado EXCEPT ![o] = e]
  /\ calificado' = IF estado'[o] = "BORRADO" THEN calificado \ {o} ELSE calificado
  /\ UNCHANGED <<calificaciones, tardias, reputacion, hilo, avisados, fallos>>

------------------------------------------------------------------------------

Init ==
  /\ estado = [o \in PedidoIds |-> "ABIERTO"]
  /\ calificado = {}
  /\ calificaciones = [v \in Vendedores |-> <<>>]
  /\ tardias = {}
  /\ reputacion = [v \in Vendedores |-> SinReputacion]
  /\ hilo = [h \in Hilos |-> Libre]
  /\ avisados = {}
  /\ fallos = 0

Avance(h) ==
  \/ CreateRating(h)
  \/ RatingCreated(h)
  \/ MarkCalificado(h)
  \/ ListRatings(h)
  \/ RefreshReputacion(h)
  \/ Enviar(h)

Next ==
  \/ \E o \in PedidoIds : Vida(o)
  \/ \E h \in Hilos, o \in PedidoIds, puntos \in Puntuaciones : RateOrder(h, o, puntos)
  \/ \E h \in Hilos : Avance(h) \/ RatingFails(h) \/ Caer(h)
  \/ \E t \in tardias : CreateRatingTarde(t)

Spec == Init /\ [][Next]_vars

------------------------------------------------------------------------------
(* Properties *)

\* Ratings are stars that buyers gave, of orders; a thread carries only what its
\* phase of rate_order has read.
Guardada(o) ==
  \E n \in 1..Len(calificaciones[Vendedor[o]]) : calificaciones[Vendedor[o]][n].pedido = o

\* No order counts as rated, and no seller is told of a rating, that was never
\* stored, whatever fails or comes late (services.py:396-401, "preferimos un
\* error claro al comprador antes que marcar calificado=True").
CalificadoGuardado == \A o \in calificado \cup avisados : Guardada(o)

\* With clients that send one request at a time, an order has a second rating
\* only where a call failed or died after the first was stored: every duplicate
\* costs a failure of its own.
DuplicadosContados ==
  MapThenSumSet(LAMBDA v : Len(calificaciones[v]), Vendedores)
    <= Cardinality({o \in PedidoIds : Guardada(o)}) + fallos

\* r sums up the ratings that v had at some moment.
DeUnaLista(v, r) ==
  \E n \in 1..Len(calificaciones[v]) : r = Resumen(SubSeq(calificaciones[v], 1, n))

\* The average and the total shown belong together: they are those of all the
\* ratings that the seller had at some moment.
ReputacionDeUnaLista ==
  \A v \in Vendedores : reputacion[v] = SinReputacion \/ DeUnaLista(v, reputacion[v])

\* market/domain/services.py:421-424, "el promedio mostrado solo queda un paso
\* atras hasta la proxima calificacion o consulta exitosa": without failures,
\* once no request is running, the total shown lags by one rating at most.
ReputacionUnPasoAtras ==
  (fallos = 0 /\ \A h \in Hilos : hilo[h] = Libre) =>
    \A v \in Vendedores : reputacion[v].total + 1 >= Len(calificaciones[v])
=============================================================================
