---------------------------- MODULE EventosPago ------------------------------
(***************************************************************************)
(* payment_microservice and the worker of notifications_microservice, with *)
(* the queue payments.events between them.                                 *)
(*                                                                         *)
(* The payment service stores a payment, decides it and publishes one      *)
(* event; the worker takes events one by one (prefetch_count=1), registers *)
(* the event's id, stores a notification and acknowledges.  Each of these  *)
(* commits on its own, so that a crash or an error of PostgreSQL or        *)
(* RabbitMQ may fall between any two.  The service publishes only well     *)
(* formed payment.processed events; the worker's branches for others are   *)
(* never taken.                                                            *)
(***************************************************************************)
EXTENDS Naturals, Sequences, FiniteSets

CONSTANTS
  PagoIds,         \* uuids that payments may take: the bound on payments
  Hilos,           \* gunicorn threads of the payment service
  Montos, Metodos, \* what a client may send
  MaxFallos        \* bound on crashes and on errors of PostgreSQL and RabbitMQ

ASSUME ConstantesEventos ==
  /\ Montos \subseteq Nat
  /\ MaxFallos \in Nat

VARIABLES
  pago,           \* the rows of payment_service.payments
  hilo,           \* what each thread is processing
  cola,           \* the messages ready in payments.events
  enMano,         \* the message the worker has not acknowledged yet
  fase,           \* where the worker is in on_message
  procesados,     \* notifications_service.processed_events
  notificaciones, \* notifications_service.notifications, in the order of id
  fallos          \* failures so far

servicio == <<pago, hilo>>
trabajador == <<enMano, fase, procesados, notificaciones>>
vars == <<servicio, cola, trabajador, fallos>>

------------------------------------------------------------------------------

Decisiones == {"AUTORIZADO", "FALLIDO"}

\* NINGUNO: no payment has this id yet.
SinPago == [estado |-> "NINGUNO"]
Pago ==
  {SinPago}
  \cup [estado : {"PENDIENTE"} \cup Decisiones, monto : Montos, metodo : Metodos]

Libre == [fase |-> "libre"]
Tarea == {Libre} \cup [fase : {"procesar", "publicar"}, pago : PagoIds]

\* event_id is a new uuid, but a payment is published only once: the payment
\* names the event.
Evento == [pago : PagoIds, estado : Decisiones]
Nada == [pago |-> "nada", estado |-> "nada"]

Fases == {"espera", "recibido", "registrado", "terminado", "error"}

\* _simulate_processing
Decision(p) ==
  IF p.monto > 10000000 \/ (p.metodo = "nequi" /\ p.monto > 2000000)
    THEN "FALLIDO"
    ELSE "AUTORIZADO"

Falla ==
  /\ fallos < MaxFallos
  /\ fallos' = fallos + 1

------------------------------------------------------------------------------
(* create_payment *)

\* validate_create_payment_payload: what it refuses is never stored.
Valido(monto, metodo) ==
  monto > 0 /\ metodo \in {"credit_card", "debit_card", "pse", "nequi"}

Inserta(i, monto, metodo) ==
  pago' = [pago EXCEPT ![i] = [estado |-> "PENDIENTE", monto |-> monto, metodo |-> metodo]]

\* The amount and the method stay as they were inserted.
Actualiza(i, estado) ==
  pago' = [pago EXCEPT ![i] =
    [estado |-> estado, monto |-> pago[i].monto, metodo |-> pago[i].metodo]]

CreatePayment(h, i, monto, metodo) ==
  /\ hilo[h] = Libre
  /\ Valido(monto, metodo)
  /\ pago[i] = SinPago
  /\ Inserta(i, monto, metodo)
  /\ hilo' = [hilo EXCEPT ![h] = [fase |-> "procesar", pago |-> i]]
  /\ UNCHANGED <<cola, trabajador, fallos>>

UpdateStatus(h) ==
  LET i == hilo[h].pago
  IN /\ hilo[h].fase = "procesar"
     /\ Actualiza(i, Decision(pago[i]))
     /\ hilo' = [hilo EXCEPT ![h] = [fase |-> "publicar", pago |-> i]]
     /\ UNCHANGED <<cola, trabajador, fallos>>

PublishPaymentProcessed(h) ==
  LET i == hilo[h].pago
  IN /\ hilo[h].fase = "publicar"
     /\ cola' = Append(cola, [pago |-> i, estado |-> pago[i].estado])
     /\ hilo' = [hilo EXCEPT ![h] = Libre]
     /\ UNCHANGED <<pago, trabajador, fallos>>

\* An AMQPError is logged and dropped, and without publisher confirms the
\* broker may drop the message silently; before that, an error or a kill ends
\* the request where it is.  No later step looks at the payment again.
PerderTarea(h) ==
  /\ hilo[h] # Libre
  /\ Falla
  /\ hilo' = [hilo EXCEPT ![h] = Libre]
  /\ UNCHANGED <<pago, cola, trabajador>>

------------------------------------------------------------------------------
(* The worker: on_message *)

Entregar ==
  /\ fase = "espera"
  /\ cola # <<>>
  /\ enMano' = Head(cola)
  /\ cola' = Tail(cola)
  /\ fase' = "recibido"
  /\ UNCHANGED <<servicio, procesados, notificaciones, fallos>>

\* Mutant: a redelivered event is processed again.
RegistrarSiempre ==
  /\ fase = "recibido"
  /\ procesados' = procesados \cup {enMano.pago}
  /\ fase' = "registrado"
  /\ UNCHANGED <<servicio, cola, enMano, notificaciones, fallos>>

\* Mutant: an event seen before is skipped without an acknowledgement.
RegistrarSinAck ==
  /\ fase = "recibido"
  /\ enMano.pago \notin procesados
  /\ procesados' = procesados \cup {enMano.pago}
  /\ fase' = "registrado"
  /\ UNCHANGED <<servicio, cola, enMano, notificaciones, fallos>>

\* INSERT ... ON CONFLICT DO NOTHING; an event seen before is only acknowledged.
RegisterProcessedEvent ==
  /\ fase = "recibido"
  /\ procesados' = procesados \cup {enMano.pago}
  /\ fase' = IF enMano.pago \in procesados THEN "terminado" ELSE "registrado"
  /\ UNCHANGED <<servicio, cola, enMano, notificaciones, fallos>>

\* Mutant: every payment is announced as authorised.
CreateNotificationOptimista ==
  /\ fase = "registrado"
  /\ notificaciones' = Append(notificaciones, [pago |-> enMano.pago, estado |-> "AUTORIZADO"])
  /\ fase' = "terminado"
  /\ UNCHANGED <<servicio, cola, enMano, procesados, fallos>>

CreateNotification ==
  /\ fase = "registrado"
  /\ notificaciones' = Append(notificaciones, enMano)
  /\ fase' = "terminado"
  /\ UNCHANGED <<servicio, cola, enMano, procesados, fallos>>

Ack ==
  /\ fase = "terminado"
  /\ enMano' = Nada
  /\ fase' = "espera"
  /\ UNCHANGED <<servicio, cola, procesados, notificaciones, fallos>>

\* The connection to PostgreSQL fails in one of the two inserts, before its
\* commit or, the answer being lost, after it.
ErrorDeBase ==
  /\ Falla
  /\ \/ /\ fase = "recibido"
        /\ \/ UNCHANGED procesados
           \/ procesados' = procesados \cup {enMano.pago}
        /\ UNCHANGED notificaciones
     \/ /\ fase = "registrado"
        /\ \/ UNCHANGED notificaciones
           \/ notificaciones' = Append(notificaciones, enMano)
        /\ UNCHANGED procesados
  /\ fase' = "error"
  /\ UNCHANGED <<servicio, cola, enMano>>

\* basic_nack(requeue=False): the message is gone, the queue has no dead letters.
Nack ==
  /\ fase = "error"
  /\ enMano' = Nada
  /\ fase' = "espera"
  /\ UNCHANGED <<servicio, cola, procesados, notificaciones, fallos>>

\* Mutant: the queue is not durable, what waits in it goes with the connection.
ReinicioSinDurable ==
  /\ fase # "espera"
  /\ Falla
  /\ cola' = <<>>
  /\ enMano' = Nada
  /\ fase' = "espera"
  /\ UNCHANGED <<servicio, procesados, notificaciones>>

\* The worker dies, or loses its connection to the broker and exits; RabbitMQ
\* puts the message back in its place and the container restarts.
Reinicio ==
  /\ fase # "espera"
  /\ Falla
  /\ cola' = <<enMano>> \o cola
  /\ enMano' = Nada
  /\ fase' = "espera"
  /\ UNCHANGED <<servicio, procesados, notificaciones>>

------------------------------------------------------------------------------

Init ==
  /\ pago = [i \in PagoIds |-> SinPago]
  /\ hilo = [h \in Hilos |-> Libre]
  /\ cola = <<>>
  /\ enMano = Nada
  /\ fase = "espera"
  /\ procesados = {}
  /\ notificaciones = <<>>
  /\ fallos = 0

AvanceServicio(h) == UpdateStatus(h) \/ PublishPaymentProcessed(h)

AvanceTrabajador ==
  Entregar \/ RegisterProcessedEvent \/ CreateNotification \/ Ack \/ Nack

Next ==
  \/ \E h \in Hilos :
       \/ \E i \in PagoIds, monto \in Montos, metodo \in Metodos :
            CreatePayment(h, i, monto, metodo)
       \/ AvanceServicio(h)
       \/ PerderTarea(h)
  \/ AvanceTrabajador
  \/ ErrorDeBase
  \/ Reinicio

Spec == Init /\ [][Next]_vars

\* The threads keep running, and the worker consumes whenever there is a message:
\* restart: unless-stopped brings it back after a crash.
SpecJusta ==
  /\ Spec
  /\ \A h \in Hilos : WF_vars(AvanceServicio(h))
  /\ WF_vars(AvanceTrabajador)

------------------------------------------------------------------------------
(* Properties *)

\* Every variable has its type, and the worker holds a message unless it waits.
TypeOK ==
  /\ pago \in [PagoIds -> Pago]
  /\ hilo \in [Hilos -> Tarea]
  /\ cola \in Seq(Evento)
  /\ enMano \in Evento \cup {Nada}
  /\ fase \in Fases
  /\ (fase = "espera") <=> (enMano = Nada)
  /\ procesados \subseteq PagoIds
  /\ notificaciones \in Seq(Evento)
  /\ fallos \in Nat

\* A payment is announced at most once, although RabbitMQ redelivers what a
\* worker that crashed had not acknowledged (processed_events).
AvisoUnico ==
  \A m, n \in 1..Len(notificaciones) :
    notificaciones[m].pago = notificaciones[n].pago => m = n

Avisado(i) == \E n \in 1..Len(notificaciones) : notificaciones[n].pago = i

\* Something is still going to act on payment i.
EnCurso(i) ==
  \/ \E h \in Hilos : hilo[h] # Libre /\ hilo[h].pago = i
  \/ \E n \in 1..Len(cola) : cola[n].pago = i /\ i \notin procesados
  \/ fase = "recibido" /\ enMano.pago = i /\ i \notin procesados
  \/ fase = "registrado" /\ enMano.pago = i

\* Without transactions across the two services a payment may never be
\* announced, but each that is lost costs a failure of its own: no order of
\* the steps loses one by itself, and no failure loses two.
PerdidasContadas ==
  Cardinality({i \in PagoIds : pago[i] # SinPago /\ ~Avisado(i) /\ ~EnCurso(i)}) <= fallos

\* Every payment comes to rest, announced or lost: no event is redelivered
\* forever, and one that fails or repeats does not hold up those behind it.
PagoReposa == \A i \in PagoIds : pago[i] # SinPago ~> []~EnCurso(i)

\* The decisions that payment i's notifications announce.
Dicho(i) ==
  {d \in Decisiones : \E n \in 1..Len(notificaciones) :
                        notificaciones[n] = [pago |-> i, estado |-> d]}

Promesa == INSTANCE AvisoDePago WITH
  Pagos <- PagoIds,
  estado <- [i \in PagoIds |-> pago[i].estado],
  dicho <- [i \in PagoIds |-> Dicho(i)]

\* The services keep the promise of AvisoDePago: a payment is decided once and
\* announced as it was decided.
ImplementaPromesa == Promesa!Spec
=============================================================================
