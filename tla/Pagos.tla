------------------------------- MODULE Pagos --------------------------------
(***************************************************************************)
(* register_payment of the monolith, the transaction that it opens for the *)
(* order, and the Celery task that notifies the buyer.  Nothing encloses   *)
(* the steps of a request in a database transaction, and a request may die *)
(* between any two of them.                                                *)
(***************************************************************************)
EXTENDS Integers, FiniteSets

CONSTANTS
  Cobradores,    \* threads that run register_payment
  Ordenes,       \* orders, each in the table at first
  Cobros,        \* identifiers of the rows of Pago
  MaxReintentos, \* max_retries
  MaxTropiezos   \* bound on the failures: a thread or worker that dies, an error

ASSUME ConstantesPagos == MaxReintentos \in Nat /\ MaxTropiezos \in Nat

VARIABLES
  ordenes,      \* the orders in the table
  pago,         \* the rows of Pago, those deleted with their order included
  transaccion,  \* the orders with a Transaccion
  cobrador,     \* what each thread is doing
  tarea,        \* the task of each payment
  avisosPago,   \* notices stored for each payment
  reintentos,   \* self.request.retries of each task
  truncos,      \* payments whose thread died
  tropiezos     \* failures so far

varsPagos == <<ordenes, pago, transaccion, cobrador, tarea, avisosPago, reintentos, truncos, tropiezos>>

------------------------------------------------------------------------------

SinCobro == [fase |-> "no hay"]
Inactivo == [fase |-> "inactivo"]
Pagado == [fase : {"no hay"}] \cup [fase : {"AUTORIZADO", "FALLIDO"}, orden : Ordenes]
Cobrando ==
  [fase : {"inactivo"}]
  \cup [fase : {"crear"}, orden : Ordenes, authorized : BOOLEAN]
  \cup [fase : {"mirar", "abrir", "encolar"}, cobro : Cobros]
FasesTarea == {"no hay", "en cola", "guardar", "empujar", "hecha", "fallida", "perdida"}

Trabaja(c, p) == cobrador[c].fase \in {"mirar", "abrir", "encolar"} /\ cobrador[c].cobro = p
EnTabla(p) == pago[p] # SinCobro /\ pago[p].orden \in ordenes
Hace(c, t) == cobrador' = [cobrador EXCEPT ![c] = t]
Avanza(c, f) == Hace(c, [cobrador[c] EXCEPT !.fase = f])
Tropieza == tropiezos < MaxTropiezos /\ tropiezos' = tropiezos + 1

\* What only the worker changes, and what a request does not.
Avisado == <<tarea, avisosPago, reintentos>>

------------------------------------------------------------------------------
(* register_payment *)

\* The order exists and is the user's, its total is above 0, the amount is the
\* total and the method is known; the gateway authorizes it, or not.
RegistrarPago(c, o, authorized) ==
  /\ cobrador[c] = Inactivo
  /\ o \in ordenes
  /\ Hace(c, [fase |-> "crear", orden |-> o, authorized |-> authorized])
  /\ UNCHANGED <<ordenes, pago, transaccion, Avisado, truncos, tropiezos>>

\* Pago.objects.create; an order deleted meanwhile fails the foreign key.
CrearPago(c) ==
  /\ cobrador[c].fase = "crear"
  /\ LET t == cobrador[c]
     IN IF t.orden \in ordenes
          THEN \E p \in Cobros :
            /\ pago[p] = SinCobro
            /\ pago' = [pago EXCEPT ![p] =
                 [fase |-> IF t.authorized THEN "AUTORIZADO" ELSE "FALLIDO", orden |-> t.orden]]
            /\ Hace(c, [fase |-> IF t.authorized THEN "mirar" ELSE "encolar", cobro |-> p])
          ELSE Hace(c, Inactivo) /\ UNCHANGED pago
  /\ UNCHANGED <<ordenes, transaccion, Avisado, truncos, tropiezos>>

\* ensure_transaccion_for_pedido: hasattr.  The second hasattr, in build, finds
\* the answer of the first in the instance and asks nothing.
MirarTransaccion(c) ==
  /\ cobrador[c].fase = "mirar"
  /\ Avanza(c, IF pago[cobrador[c].cobro].orden \in transaccion THEN "encolar" ELSE "abrir")
  /\ UNCHANGED <<ordenes, pago, transaccion, Avisado, truncos, tropiezos>>

\* Mutant: the transaction is built but not stored.
AbrirSinGuardar(c) ==
  /\ cobrador[c].fase = "abrir"
  /\ Avanza(c, "encolar")
  /\ UNCHANGED <<ordenes, pago, transaccion, Avisado, truncos, tropiezos>>

\* Transaccion.objects.create on a OneToOneField: when another request was
\* first, or the order is gone, IntegrityError leaves register_payment, whose
\* Pago stays and whose buyer hears nothing.
AbrirTransaccion(c) ==
  /\ cobrador[c].fase = "abrir"
  /\ LET o == pago[cobrador[c].cobro].orden
     IN IF o \in ordenes \ transaccion
          THEN transaccion' = transaccion \cup {o} /\ Avanza(c, "encolar")
          ELSE Hace(c, Inactivo) /\ UNCHANGED transaccion
  /\ UNCHANGED <<ordenes, pago, Avisado, truncos, tropiezos>>

\* enqueue_payment_notification.delay; its exceptions are logged.
EncolarAviso(c, llega) ==
  /\ cobrador[c].fase = "encolar"
  /\ IF llega
       THEN tarea' = [tarea EXCEPT ![cobrador[c].cobro] = "en cola"] /\ UNCHANGED tropiezos
       ELSE Tropieza /\ UNCHANGED tarea
  /\ Hace(c, Inactivo)
  /\ UNCHANGED <<ordenes, pago, transaccion, avisosPago, reintentos, truncos>>

\* The worker process is killed, or the database fails under a request.
CaeCobrador(c) ==
  /\ cobrador[c] # Inactivo
  /\ Tropieza
  /\ truncos' = IF cobrador[c].fase = "crear" THEN truncos ELSE truncos \cup {cobrador[c].cobro}
  /\ Hace(c, Inactivo)
  /\ UNCHANGED <<ordenes, pago, transaccion, Avisado>>

\* The order is deleted, with its payments and its transaction (CASCADE).
BorrarOrden(o) ==
  /\ o \in ordenes
  /\ ordenes' = ordenes \ {o}
  /\ transaccion' = transaccion \ {o}
  /\ UNCHANGED <<pago, cobrador, Avisado, truncos, tropiezos>>

------------------------------------------------------------------------------
(* enqueue_payment_notification, in the Celery worker *)

SoloTarea == UNCHANGED <<ordenes, pago, transaccion, cobrador, truncos>>

\* Acknowledged when it starts: a worker that dies later loses it.
EmpezarTarea(p) ==
  /\ tarea[p] = "en cola"
  /\ tarea' = [tarea EXCEPT ![p] = "guardar"]
  /\ UNCHANGED <<avisosPago, reintentos, tropiezos>>
  /\ SoloTarea

\* NotificacionFactory.crear stores the notice; the pushes come after it.
GuardarAviso(p) ==
  /\ tarea[p] = "guardar"
  /\ avisosPago' = [avisosPago EXCEPT ![p] = @ + 1]
  /\ tarea' = [tarea EXCEPT ![p] = "empujar"]
  /\ UNCHANGED <<reintentos, tropiezos>>
  /\ SoloTarea

EmpujarAviso(p) ==
  /\ tarea[p] = "empujar"
  /\ tarea' = [tarea EXCEPT ![p] = "hecha"]
  /\ UNCHANGED <<avisosPago, reintentos, tropiezos>>
  /\ SoloTarea

\* Mutant: the task that runs again does not count.
ReintentarSinContar(p) ==
  /\ tarea[p] \in {"guardar", "empujar"}
  /\ Tropieza
  /\ tarea' = [tarea EXCEPT ![p] = "en cola"]
  /\ UNCHANGED <<avisosPago, reintentos>>
  /\ SoloTarea

\* autoretry_for: the user's row, the notice, the list of subscriptions or the
\* deletion of an expired one raised.  The whole task runs again.
Reintentar(p) ==
  /\ tarea[p] \in {"guardar", "empujar"}
  /\ Tropieza
  /\ IF reintentos[p] < MaxReintentos
       THEN /\ reintentos' = [reintentos EXCEPT ![p] = @ + 1]
            /\ tarea' = [tarea EXCEPT ![p] = "en cola"]
       ELSE tarea' = [tarea EXCEPT ![p] = "fallida"] /\ UNCHANGED reintentos
  /\ UNCHANGED avisosPago
  /\ SoloTarea

CaeCelery(p) ==
  /\ tarea[p] \in {"guardar", "empujar"}
  /\ Tropieza
  /\ tarea' = [tarea EXCEPT ![p] = "perdida"]
  /\ UNCHANGED <<avisosPago, reintentos>>
  /\ SoloTarea

------------------------------------------------------------------------------

InitPagos ==
  /\ ordenes = Ordenes
  /\ pago = [p \in Cobros |-> SinCobro]
  /\ transaccion = {}
  /\ cobrador = [c \in Cobradores |-> Inactivo]
  /\ tarea = [p \in Cobros |-> "no hay"]
  /\ avisosPago = [p \in Cobros |-> 0]
  /\ reintentos = [p \in Cobros |-> 0]
  /\ truncos = {}
  /\ tropiezos = 0

PasoCobrador(c) ==
  \/ \E o \in Ordenes : \E authorized \in BOOLEAN : RegistrarPago(c, o, authorized)
  \/ CrearPago(c)
  \/ MirarTransaccion(c)
  \/ AbrirTransaccion(c)
  \/ \E llega \in BOOLEAN : EncolarAviso(c, llega)
  \/ CaeCobrador(c)

PasoTarea(p) ==
  \/ EmpezarTarea(p)
  \/ GuardarAviso(p)
  \/ EmpujarAviso(p)
  \/ Reintentar(p)
  \/ CaeCelery(p)

NextPagos ==
  \/ \E c \in Cobradores : PasoCobrador(c)
  \/ \E p \in Cobros : PasoTarea(p)
  \/ \E o \in Ordenes : BorrarOrden(o)

SpecPagos == InitPagos /\ [][NextPagos]_varsPagos

------------------------------------------------------------------------------
(* Properties *)

TypeOKPagos ==
  /\ ordenes \subseteq Ordenes
  /\ pago \in [Cobros -> Pagado]
  /\ transaccion \subseteq Ordenes
  /\ cobrador \in [Cobradores -> Cobrando]
  /\ tarea \in [Cobros -> FasesTarea]
  /\ avisosPago \in [Cobros -> Nat]
  /\ reintentos \in [Cobros -> 0 .. MaxReintentos]
  /\ truncos \subseteq Cobros
  /\ tropiezos \in Nat

\* An order that was charged has its transaction, unless the request that
\* charged it is still at work or died.  The request that loses the race for
\* the transaction ends with an error, but the winner has opened it.
CobroConTransaccion ==
  \A p \in Cobros :
    EnTabla(p) /\ pago[p].fase = "AUTORIZADO" =>
      \/ pago[p].orden \in transaccion
      \/ p \in truncos
      \/ \E c \in Cobradores : cobrador[c].fase \in {"mirar", "abrir"} /\ cobrador[c].cobro = p

Reposa(p) ==
  /\ tarea[p] \in {"no hay", "hecha", "fallida", "perdida"}
  /\ \A c \in Cobradores : ~Trabaja(c, p)

\* A notice too many is paid for by a retry of its task, and a buyer who was
\* charged hears of it: when nothing has failed and no request is at work on an
\* order, one of its charges was announced, though that of the request that
\* lost the race for the transaction was not.
AvisosDePago ==
  /\ \A p \in Cobros : avisosPago[p] <= 1 + reintentos[p]
  /\ tropiezos = 0 =>
       \A o \in ordenes :
         LET cobrados == {p \in Cobros : pago[p] # SinCobro /\ pago[p].orden = o
                                          /\ pago[p].fase = "AUTORIZADO"}
         IN cobrados # {} /\ (\A p \in cobrados : Reposa(p))
              => \E p \in cobrados : avisosPago[p] = 1
=============================================================================
