------------------------- MODULE EventosPago_proofs --------------------------
(***************************************************************************)
(* Theorems about module EventosPago, for any number of payments, threads  *)
(* and failures.                                                           *)
(***************************************************************************)
EXTENDS EventosPago, FiniteSetTheorems, TLAPS

USE ConstantesEventos

\* A payment in a thread has a row; only the thread that decides it finds it
\* PENDIENTE, and no other thread works on it.
Tareas ==
  \A h \in Hilos :
    /\ hilo[h].fase = "procesar" => pago[hilo[h].pago].estado = "PENDIENTE"
    /\ hilo[h].fase = "publicar" => pago[hilo[h].pago].estado \in Decisiones
    /\ \A g \in Hilos : hilo[g] # Libre /\ hilo[h] # Libre /\ hilo[g].pago = hilo[h].pago => g = h

\* Event e says of its payment what its row in filas says.
Veraz(filas, e) == filas[e.pago].estado = e.estado

EventosVeraces ==
  /\ \A n \in 1..Len(cola) : Veraz(pago, cola[n])
  /\ fase # "espera" => Veraz(pago, enMano)
  /\ \A n \in 1..Len(notificaciones) : Veraz(pago, notificaciones[n])

\* What is announced has been registered before, and what was just registered
\* has not been announced yet.
Registro ==
  /\ \A n \in 1..Len(notificaciones) : notificaciones[n].pago \in procesados
  /\ fase = "registrado" =>
       /\ enMano.pago \in procesados
       /\ ~Avisado(enMano.pago)

IInv == TypeOK /\ Tareas /\ EventosVeraces /\ Registro /\ AvisoUnico

------------------------------------------------------------------------------
(* The queue *)

\* A message put back at the head of the queue: the others move by one.
LEMMA Reencolada ==
  ASSUME NEW s \in Seq(Evento), NEW e \in Evento
  PROVE  /\ <<e>> \o s \in Seq(Evento)
         /\ \A n \in 1..Len(s) :
              n + 1 \in 1..Len(<<e>> \o s) /\ (<<e>> \o s)[n + 1] = s[n]
         /\ \A n \in 1..Len(<<e>> \o s) :
              (<<e>> \o s)[n] = e \/ \E m \in 1..Len(s) : (<<e>> \o s)[n] = s[m]
<1> DEFINE t == <<e>> \o s
<1>1. t \in Seq(Evento) /\ Len(t) = Len(s) + 1 /\ Len(s) \in Nat
  OBVIOUS
<1>2. t[1] = e /\ \A n \in 1..Len(s) : t[n + 1] = s[n]
  OBVIOUS
<1> HIDE DEF t
<1>3. \A n \in 1..Len(t) : n = 1 \/ (n - 1 \in 1..Len(s) /\ t[n] = s[n - 1])
  <2> SUFFICES ASSUME NEW n \in 1..Len(t), n # 1 PROVE n - 1 \in 1..Len(s) /\ t[n] = s[n - 1]
    OBVIOUS
  <2>1. n - 1 \in 1..Len(s) /\ (n - 1) + 1 = n
    BY <1>1
  <2> QED BY <1>2, <2>1
<1>4. \A n \in 1..Len(s) : n + 1 \in 1..Len(t)
  BY <1>1
<1>5. \A n \in 1..Len(t) : t[n] = e \/ \E m \in 1..Len(s) : t[n] = s[m]
  BY <1>2, <1>3
<1> QED BY <1>1, <1>2, <1>4, <1>5 DEF t

------------------------------------------------------------------------------
(* Types *)

LEMMA EnManoEvento ==
  ASSUME TypeOK
  PROVE  /\ fase # "espera" <=> enMano \in Evento
         /\ enMano \in Evento => enMano.pago \in PagoIds /\ enMano.estado \in Decisiones
BY DEF TypeOK, Evento, Nada, Decisiones

LEMMA TipoTarea ==
  ASSUME TypeOK, NEW h \in Hilos
  PROVE  /\ hilo[h] = Libre <=> hilo[h].fase = "libre"
         /\ hilo[h] # Libre => hilo[h].pago \in PagoIds
         /\ hilo[h].fase \in {"libre", "procesar", "publicar"}
BY DEF TypeOK, Tarea, Libre

LEMMA TipoPago ==
  ASSUME TypeOK, NEW i \in PagoIds
  PROVE  /\ pago[i] = SinPago <=> pago[i].estado = "NINGUNO"
         /\ pago[i] # SinPago => pago[i].monto \in Montos /\ pago[i].metodo \in Metodos
         /\ pago[i].estado \in {"NINGUNO", "PENDIENTE"} \cup Decisiones
BY DEF TypeOK, Pago, SinPago, Decisiones

LEMMA DecisionTipo == ASSUME NEW p PROVE Decision(p) \in Decisiones
BY DEF Decision, Decisiones

LEMMA InitTypeOK == Init => TypeOK
BY DEF Init, TypeOK, Pago, Tarea, Fases, Nada

LEMMA TypeOKPaso == TypeOK /\ Tareas /\ [Next]_vars => TypeOK'
<1> SUFFICES ASSUME TypeOK, Tareas, [Next]_vars PROVE TypeOK'
  OBVIOUS
<1> USE EnManoEvento
<1>1. ASSUME NEW h \in Hilos, NEW i \in PagoIds, NEW monto \in Montos, NEW metodo \in Metodos,
             CreatePayment(h, i, monto, metodo)
      PROVE  TypeOK'
  <2>1. [estado |-> "PENDIENTE", monto |-> monto, metodo |-> metodo] \in Pago
    BY DEF Pago
  <2>2. [fase |-> "procesar", pago |-> i] \in Tarea
    BY DEF Tarea
  <2> QED BY <1>1, <2>1, <2>2 DEF TypeOK, CreatePayment, Inserta, trabajador
<1>2. ASSUME NEW h \in Hilos, UpdateStatus(h)
      PROVE  TypeOK'
  <2>1. hilo[h].pago \in PagoIds /\ pago[hilo[h].pago] # SinPago
    BY <1>2, TipoTarea, TipoPago DEF UpdateStatus, Actualiza, Tareas
  <2> DEFINE i == hilo[h].pago
             r == [estado |-> Decision(pago[i]), monto |-> pago[i].monto, metodo |-> pago[i].metodo]
             t == [fase |-> "publicar", pago |-> i]
  <2>2. r \in Pago
    BY <2>1, TipoPago, DecisionTipo DEF Pago
  <2>3. t \in Tarea
    BY <2>1 DEF Tarea
  <2>4. pago' = [pago EXCEPT ![i] = r] /\ hilo' = [hilo EXCEPT ![h] = t]
    BY <1>2 DEF UpdateStatus, Actualiza
  <2> HIDE DEF i, r, t
  <2>5. pago' \in [PagoIds -> Pago] /\ hilo' \in [Hilos -> Tarea]
    BY <2>2, <2>3, <2>4 DEF TypeOK
  <2> QED BY <1>2, <2>5 DEF TypeOK, UpdateStatus, Actualiza, trabajador
<1>3. ASSUME NEW h \in Hilos, PublishPaymentProcessed(h)
      PROVE  TypeOK'
  <2>1. hilo[h].pago \in PagoIds /\ pago[hilo[h].pago].estado \in Decisiones
    BY <1>3, TipoTarea DEF PublishPaymentProcessed, Tareas
  <2>2. [pago |-> hilo[h].pago, estado |-> pago[hilo[h].pago].estado] \in Evento
    BY <2>1 DEF Evento
  <2>3. cola' \in Seq(Evento)
    BY <1>3, <2>2 DEF TypeOK, PublishPaymentProcessed
  <2>4. hilo' \in [Hilos -> Tarea]
    BY <1>3 DEF TypeOK, PublishPaymentProcessed, Tarea
  <2> QED BY <1>3, <2>3, <2>4 DEF TypeOK, PublishPaymentProcessed, trabajador
<1>4. ASSUME NEW h \in Hilos, PerderTarea(h)
      PROVE  TypeOK'
  BY <1>4 DEF TypeOK, PerderTarea, Falla, Tarea, trabajador
<1>5. CASE Entregar
  BY <1>5 DEF TypeOK, Entregar, Fases, servicio
<1>6. CASE RegisterProcessedEvent
  BY <1>6 DEF TypeOK, RegisterProcessedEvent, Fases, servicio
<1>7. CASE CreateNotification
  BY <1>7 DEF TypeOK, CreateNotification, Fases, servicio
<1>8. CASE Ack
  BY <1>8 DEF TypeOK, Ack, Fases, servicio
<1>9. CASE ErrorDeBase
  <2>1. enMano \in Evento /\ fase' = "error" /\ enMano' = enMano
    BY <1>9 DEF ErrorDeBase
  <2>2. procesados' \subseteq PagoIds
    BY <1>9, <2>1 DEF TypeOK, ErrorDeBase
  <2>3. notificaciones' \in Seq(Evento)
    BY <1>9, <2>1, SMTT(30) DEF TypeOK, ErrorDeBase
  <2> QED BY <1>9, <2>1, <2>2, <2>3 DEF TypeOK, ErrorDeBase, Falla, Fases, servicio
<1>10. CASE Nack
  BY <1>10 DEF TypeOK, Nack, Fases, servicio
<1>11. CASE Reinicio
  <2>1. enMano \in Evento
    BY <1>11 DEF Reinicio
  <2>2. cola' \in Seq(Evento)
    BY <1>11, <2>1, Reencolada DEF TypeOK, Reinicio
  <2> QED BY <1>11, <2>2 DEF TypeOK, Reinicio, Falla, Fases, servicio
<1>12. CASE UNCHANGED vars
  BY <1>12 DEF TypeOK, vars, servicio, trabajador
<1> QED BY <1>1, <1>2, <1>3, <1>4, <1>5, <1>6, <1>7, <1>8, <1>9, <1>10, <1>11, <1>12
        DEF Next, AvanceServicio, AvanceTrabajador
------------------------------------------------------------------------------
(* A decision is final, and the threads do not share payments *)

LEMMA TareasPaso == TypeOK /\ Tareas /\ [Next]_vars => Tareas'
<1> SUFFICES ASSUME TypeOK, Tareas, [Next]_vars PROVE Tareas'
  OBVIOUS
<1>1. ASSUME NEW h \in Hilos, NEW i \in PagoIds, NEW monto \in Montos, NEW metodo \in Metodos,
             CreatePayment(h, i, monto, metodo)
      PROVE  Tareas'
  <2>1. \A g \in Hilos : hilo[g] # Libre => hilo[g].pago # i
    BY <1>1, TipoTarea, TipoPago DEF CreatePayment, Inserta, Tareas, Decisiones
  <2>2. /\ hilo'[h] = [fase |-> "procesar", pago |-> i]
        /\ \A g \in Hilos \ {h} : hilo'[g] = hilo[g]
        /\ pago'[i].estado = "PENDIENTE"
        /\ \A j \in PagoIds \ {i} : pago'[j] = pago[j]
    BY <1>1 DEF TypeOK, CreatePayment, Inserta
  <2> QED BY <2>1, <2>2, TipoTarea DEF Tareas
<1>2. ASSUME NEW h \in Hilos, UpdateStatus(h)
      PROVE  Tareas'
  <2> DEFINE i == hilo[h].pago
             r == [estado |-> Decision(pago[i]), monto |-> pago[i].monto, metodo |-> pago[i].metodo]
  <2>1. hilo[h] # Libre /\ i \in PagoIds /\ r.estado \in Decisiones
    BY <1>2, TipoTarea, DecisionTipo DEF UpdateStatus, Actualiza
  <2>2. pago' = [pago EXCEPT ![i] = r] /\ hilo' = [hilo EXCEPT ![h] = [fase |-> "publicar", pago |-> i]]
    BY <1>2 DEF UpdateStatus, Actualiza
  <2> HIDE DEF r
  <2>3. /\ hilo'[h] = [fase |-> "publicar", pago |-> i]
        /\ \A g \in Hilos \ {h} : hilo'[g] = hilo[g]
        /\ pago'[i].estado \in Decisiones
        /\ \A j \in PagoIds \ {i} : pago'[j] = pago[j]
    BY <2>1, <2>2 DEF TypeOK
  <2>4. \A g \in Hilos \ {h} : hilo[g] # Libre => hilo[g].pago # i
    BY <2>1 DEF Tareas
  <2> QED BY <2>1, <2>3, <2>4, TipoTarea DEF Tareas
<1>3. ASSUME NEW h \in Hilos, pago' = pago, hilo' = [hilo EXCEPT ![h] = Libre]
      PROVE  Tareas'
  <2>1. hilo'[h] = Libre /\ \A g \in Hilos \ {h} : hilo'[g] = hilo[g]
    BY <1>3 DEF TypeOK
  <2> QED BY <1>3, <2>1 DEF Tareas, Libre
<1>4. CASE UNCHANGED servicio
  BY <1>4 DEF Tareas, servicio
<1> QED BY <1>1, <1>2, <1>3, <1>4
        DEF Next, AvanceServicio, AvanceTrabajador, PublishPaymentProcessed, PerderTarea, Entregar,
            RegisterProcessedEvent, CreateNotification, Ack, Nack, ErrorDeBase, Reinicio, vars

LEMMA DecisionFirme ==
  ASSUME TypeOK, Tareas, [Next]_vars, NEW i \in PagoIds, pago[i].estado \in Decisiones
  PROVE  pago'[i] = pago[i]
<1>1. ASSUME NEW h \in Hilos, NEW j \in PagoIds, NEW monto \in Montos, NEW metodo \in Metodos,
             CreatePayment(h, j, monto, metodo)
      PROVE  pago'[i] = pago[i]
  BY <1>1, TipoPago DEF TypeOK, CreatePayment, Inserta, Decisiones
<1>2. ASSUME NEW h \in Hilos, UpdateStatus(h)
      PROVE  pago'[i] = pago[i]
  <2>1. hilo[h].pago # i
    BY <1>2 DEF UpdateStatus, Actualiza, Tareas, Decisiones
  <2> QED BY <1>2, <2>1 DEF TypeOK, UpdateStatus, Actualiza
<1>3. CASE UNCHANGED pago
  BY <1>3
<1> QED BY <1>1, <1>2, <1>3
        DEF Next, AvanceServicio, AvanceTrabajador, PublishPaymentProcessed, PerderTarea, Entregar,
            RegisterProcessedEvent, CreateNotification, Ack, Nack, ErrorDeBase, Reinicio, vars,
            servicio

------------------------------------------------------------------------------
(* Events say what the rows say *)

LEMMA VerazFirme ==
  ASSUME TypeOK, Tareas, [Next]_vars, NEW e \in Evento, Veraz(pago, e)
  PROVE  Veraz(pago', e)
BY DecisionFirme DEF Veraz, Evento

LEMMA VeracesPaso == TypeOK /\ Tareas /\ EventosVeraces /\ [Next]_vars => EventosVeraces'
<1> SUFFICES ASSUME TypeOK, Tareas, EventosVeraces, [Next]_vars PROVE EventosVeraces'
  OBVIOUS
<1> USE EnManoEvento
<1>1. /\ \A n \in 1..Len(cola) : cola[n] \in Evento /\ Veraz(pago', cola[n])
      /\ \A n \in 1..Len(notificaciones) : notificaciones[n] \in Evento /\ Veraz(pago', notificaciones[n])
      /\ fase # "espera" => Veraz(pago', enMano)
  <2>1. /\ \A n \in 1..Len(cola) : cola[n] \in Evento
        /\ \A n \in 1..Len(notificaciones) : notificaciones[n] \in Evento
    BY DEF TypeOK
  <2> QED BY <2>1, VerazFirme DEF EventosVeraces
<1>2. ASSUME NEW h \in Hilos, PublishPaymentProcessed(h)
      PROVE  EventosVeraces'
  <2> DEFINE e == [pago |-> hilo[h].pago, estado |-> pago[hilo[h].pago].estado]
  <2>1. Veraz(pago', e)
    BY <1>2 DEF PublishPaymentProcessed, Veraz
  <2>2. cola' = Append(cola, e) /\ UNCHANGED <<fase, enMano, notificaciones>>
    BY <1>2 DEF PublishPaymentProcessed, trabajador
  <2> QED BY <1>1, <2>1, <2>2 DEF EventosVeraces, TypeOK, Veraz
<1>3. CASE Entregar
  <2>1. \A n \in 1..Len(cola') : Veraz(pago', cola'[n])
    BY <1>1, <1>3 DEF Entregar, TypeOK, Veraz
  <2>2. Veraz(pago', enMano')
    BY <1>1, <1>3 DEF Entregar, TypeOK, Veraz
  <2> QED BY <1>1, <1>3, <2>1, <2>2 DEF Entregar, EventosVeraces, Veraz
<1>4. CASE CreateNotification
  <2>1. \A n \in 1..Len(notificaciones') : Veraz(pago', notificaciones'[n])
    BY <1>1, <1>4 DEF CreateNotification, TypeOK, Veraz
  <2> QED BY <1>1, <1>4, <2>1 DEF CreateNotification, EventosVeraces, Veraz
<1>5. CASE ErrorDeBase
  <2>1. enMano \in Evento /\ fase # "espera" /\ UNCHANGED <<enMano, cola>>
    BY <1>5 DEF ErrorDeBase
  <2>2. notificaciones' = notificaciones \/ notificaciones' = Append(notificaciones, enMano)
    BY <1>5 DEF ErrorDeBase
  <2>3. \A n \in 1..Len(notificaciones') : Veraz(pago', notificaciones'[n])
    BY <1>1, <2>1, <2>2 DEF TypeOK, Veraz
  <2> QED BY <1>1, <2>1, <2>3 DEF EventosVeraces, Veraz
<1>6. CASE Reinicio
  <2>1. enMano \in Evento /\ cola' = <<enMano>> \o cola
    BY <1>6 DEF Reinicio
  <2>2. \A n \in 1..Len(cola') : cola'[n] = enMano \/ \E m \in 1..Len(cola) : cola'[n] = cola[m]
    <3>1. cola \in Seq(Evento) /\ enMano \in Evento /\ cola' = <<enMano>> \o cola
      BY <2>1 DEF TypeOK
    <3> QED BY <3>1, Reencolada
  <2>3. \A n \in 1..Len(cola') : Veraz(pago', cola'[n])
    BY <1>1, <1>6, <2>2 DEF Reinicio, Veraz
  <2> QED BY <1>1, <1>6, <2>3 DEF Reinicio, EventosVeraces, Veraz
<1>7. ASSUME UNCHANGED <<cola, notificaciones>>,
             fase' = "espera" \/ (fase # "espera" /\ enMano' = enMano) \/ UNCHANGED <<fase, enMano>>
      PROVE  EventosVeraces'
  BY <1>1, <1>7 DEF EventosVeraces, Veraz
<1> QED BY <1>2, <1>3, <1>4, <1>5, <1>6, <1>7
        DEF Next, AvanceServicio, AvanceTrabajador, CreatePayment, Inserta, UpdateStatus,
            Actualiza, PerderTarea, RegisterProcessedEvent, Ack, Nack, vars, servicio, trabajador
------------------------------------------------------------------------------
(* processed_events makes the announcement unique *)

\* What a step may add to notificaciones: the event in hand, registered and not
\* yet announced.
LEMMA NuevoAviso ==
  ASSUME TypeOK, [Next]_vars
  PROVE  \/ UNCHANGED notificaciones
         \/ /\ fase = "registrado"
            /\ fase' # "registrado"
            /\ notificaciones' = Append(notificaciones, enMano)
            /\ UNCHANGED <<servicio, procesados>>
BY DEF Next, AvanceServicio, AvanceTrabajador, CreatePayment, Inserta, UpdateStatus, Actualiza,
       PublishPaymentProcessed, PerderTarea, Entregar, RegisterProcessedEvent, CreateNotification,
       Ack, Nack, ErrorDeBase, Reinicio, vars, servicio, trabajador

LEMMA RegistroPaso == TypeOK /\ Registro /\ [Next]_vars => Registro'
<1> SUFFICES ASSUME TypeOK, Registro, [Next]_vars PROVE Registro'
  OBVIOUS
<1>1. procesados \subseteq procesados'
  BY DEF Next, AvanceServicio, AvanceTrabajador, CreatePayment, Inserta, UpdateStatus, Actualiza,
         PublishPaymentProcessed, PerderTarea, Entregar, RegisterProcessedEvent,
         CreateNotification, Ack, Nack, ErrorDeBase, Reinicio, vars, servicio, trabajador
<1>2. CASE UNCHANGED notificaciones
  <2>1. fase' = "registrado" =>
          \/ fase = "registrado" /\ enMano' = enMano
          \/ RegisterProcessedEvent /\ enMano.pago \notin procesados
    BY DEF Next, AvanceServicio, AvanceTrabajador, CreatePayment, Inserta, UpdateStatus, Actualiza,
           PublishPaymentProcessed, PerderTarea, Entregar, RegisterProcessedEvent,
           CreateNotification, Ack, Nack, ErrorDeBase, Reinicio, vars, servicio, trabajador
  <2>2. \A n \in 1..Len(notificaciones) : notificaciones'[n].pago \in procesados'
    BY <1>1, <1>2 DEF Registro
  <2>3. fase' = "registrado" => enMano'.pago \in procesados' /\ ~Avisado(enMano.pago)
    BY <1>1, <2>1 DEF Registro, Avisado, RegisterProcessedEvent
  <2>4. fase' = "registrado" => enMano' = enMano
    BY <2>1 DEF RegisterProcessedEvent
  <2> QED BY <1>2, <2>2, <2>3, <2>4 DEF Registro, Avisado
<1>3. CASE /\ fase = "registrado"
           /\ fase' # "registrado"
           /\ notificaciones' = Append(notificaciones, enMano)
           /\ UNCHANGED <<servicio, procesados>>
  BY <1>3, EnManoEvento DEF Registro, TypeOK
<1> QED BY <1>2, <1>3, NuevoAviso

LEMMA AvisoUnicoPaso == TypeOK /\ Registro /\ AvisoUnico /\ [Next]_vars => AvisoUnico'
<1> SUFFICES ASSUME TypeOK, Registro, AvisoUnico, [Next]_vars PROVE AvisoUnico'
  OBVIOUS
<1>1. CASE UNCHANGED notificaciones
  BY <1>1 DEF AvisoUnico
<1>2. CASE fase = "registrado" /\ notificaciones' = Append(notificaciones, enMano)
  <2>1. \A n \in 1..Len(notificaciones) : notificaciones[n].pago # enMano.pago
    BY <1>2 DEF Registro, Avisado
  <2> QED BY <1>2, <2>1, EnManoEvento DEF AvisoUnico, TypeOK
<1> QED BY <1>1, <1>2, NuevoAviso

LEMMA IInvInit == Init => IInv
<1> SUFFICES ASSUME Init PROVE IInv
  OBVIOUS
<1>1. Tareas
  BY DEF Init, Tareas, Libre
<1>2. EventosVeraces /\ Registro /\ AvisoUnico
  BY DEF Init, EventosVeraces, Registro, AvisoUnico
<1> QED BY <1>1, <1>2, InitTypeOK DEF IInv

\* IInv is inductive, hence an invariant of the services and the queue.
THEOREM InvarianteEventos == Spec => []IInv
<1>1. IInv /\ [Next]_vars => IInv'
  BY TypeOKPaso, TareasPaso, VeracesPaso, RegistroPaso, AvisoUnicoPaso DEF IInv
<1> QED BY <1>1, IInvInit, PTL DEF Spec

\* The rows, the threads, the queue and the worker always have their types.
THEOREM TiposEventos == Spec => []TypeOK
<1>1. IInv => TypeOK
  BY DEF IInv
<1> QED BY <1>1, InvarianteEventos, PTL

\* However many workers crash and messages are redelivered, no payment is
\* announced twice.
THEOREM Unico == Spec => []AvisoUnico
<1>1. IInv => AvisoUnico
  BY DEF IInv
<1> QED BY <1>1, InvarianteEventos, PTL

------------------------------------------------------------------------------
(* The services keep the promise of AvisoDePago *)

estadoDe == [i \in PagoIds |-> pago[i].estado]
dichoDe == [i \in PagoIds |-> Dicho(i)]

LEMMA PromesaInit == Init => Promesa!Init
BY DEF Init, Promesa!Init, SinPago, Dicho

LEMMA PagoYDicho ==
  ASSUME IInv, [Next]_vars
  PROVE  \/ UNCHANGED notificaciones
         \/ /\ UNCHANGED pago
            /\ enMano \in Evento
            /\ pago[enMano.pago].estado = enMano.estado
            /\ Dicho(enMano.pago) = {}
            /\ notificaciones' = Append(notificaciones, enMano)
<1>1. fase = "registrado" => enMano \in Evento /\ Veraz(pago, enMano) /\ Dicho(enMano.pago) = {}
  BY EnManoEvento DEF IInv, EventosVeraces, Registro, Avisado, Dicho
<1> QED BY <1>1, NuevoAviso DEF IInv, Veraz, servicio

LEMMA PromesaPaso == IInv /\ [Next]_vars => [Promesa!Next]_<<estadoDe, dichoDe>>
<1> SUFFICES ASSUME IInv, [Next]_vars PROVE [Promesa!Next]_<<estadoDe, dichoDe>>
  OBVIOUS
<1> USE DEF IInv
<1>1. CASE UNCHANGED notificaciones
  <2>1. UNCHANGED dichoDe
    BY <1>1 DEF dichoDe, Dicho
  <2>2. ASSUME NEW h \in Hilos, NEW i \in PagoIds, NEW monto \in Montos, NEW metodo \in Metodos,
               CreatePayment(h, i, monto, metodo)
        PROVE  Promesa!Recibir(i)
    <3>1. estadoDe[i] = "NINGUNO"
      BY <2>2 DEF CreatePayment, Inserta, SinPago, estadoDe
    <3>2. estadoDe' = [estadoDe EXCEPT ![i] = "PENDIENTE"]
      BY <2>2 DEF TypeOK, CreatePayment, Inserta, estadoDe
    <3> QED BY <2>1, <3>1, <3>2 DEF Promesa!Recibir, estadoDe, dichoDe
  <2>3. ASSUME NEW h \in Hilos, UpdateStatus(h)
        PROVE  /\ hilo[h].pago \in PagoIds
               /\ \E d \in Decisiones : Promesa!Decidir(hilo[h].pago, d)
    <3> DEFINE i == hilo[h].pago
               fallo == Decision(pago[i])
               r == [estado |-> fallo, monto |-> pago[i].monto, metodo |-> pago[i].metodo]
    <3>1. i \in PagoIds /\ estadoDe[i] = "PENDIENTE"
      BY <2>3, TipoTarea DEF UpdateStatus, Actualiza, Tareas, estadoDe
    <3>2. pago' = [pago EXCEPT ![i] = r] /\ r.estado = fallo
      BY <2>3 DEF UpdateStatus, Actualiza
    <3>3. fallo \in Decisiones
      BY DecisionTipo
    <3> HIDE DEF fallo, r
    <3>4. estadoDe' = [estadoDe EXCEPT ![i] = fallo]
      BY <3>1, <3>2 DEF TypeOK, estadoDe
    <3> QED BY <2>1, <3>1, <3>3, <3>4 DEF Promesa!Decidir, estadoDe, dichoDe
  <2>4. CASE UNCHANGED pago
    BY <2>1, <2>4 DEF estadoDe
  <2> QED BY <2>2, <2>3, <2>4
          DEF Promesa!Next, Promesa!Decisiones, Decisiones, Next, AvanceServicio, AvanceTrabajador,
              PublishPaymentProcessed, PerderTarea, Entregar, RegisterProcessedEvent,
              CreateNotification, Ack, Nack, ErrorDeBase, Reinicio, vars, servicio
<1>2. CASE /\ UNCHANGED pago
           /\ enMano \in Evento
           /\ pago[enMano.pago].estado = enMano.estado
           /\ Dicho(enMano.pago) = {}
           /\ notificaciones' = Append(notificaciones, enMano)
  <2> PICK e \in Evento : e = enMano
    BY <1>2
  <2>1. e.pago \in PagoIds /\ e.estado \in Decisiones /\ e = [pago |-> e.pago, estado |-> e.estado]
    BY DEF Evento
  <2>2. UNCHANGED estadoDe
    BY <1>2 DEF estadoDe
  <2>3. \A i \in PagoIds \ {e.pago} : Dicho(i)' = Dicho(i)
    BY <1>2 DEF TypeOK, Dicho
  <2>4. Dicho(e.pago)' = {e.estado}
    <3>1. \A n \in 1..Len(notificaciones), d \in Decisiones :
            notificaciones[n] # [pago |-> e.pago, estado |-> d]
      BY <1>2 DEF Dicho
    <3>2. \A d \in Decisiones : e = [pago |-> e.pago, estado |-> d] <=> d = e.estado
      BY <2>1
    <3> QED BY <1>2, <2>1, <3>1, <3>2 DEF TypeOK, Dicho
  <2>5. dichoDe' = [dichoDe EXCEPT ![e.pago] = {e.estado}]
    BY <2>1, <2>3, <2>4 DEF dichoDe
  <2>6. estadoDe[e.pago] = e.estado /\ dichoDe[e.pago] = {}
    BY <1>2, <2>1 DEF estadoDe, dichoDe
  <2>7. Promesa!Decir(e.pago)
    BY <2>1, <2>2, <2>5, <2>6
       DEF Promesa!Decir, Promesa!Decisiones, Decisiones, estadoDe, dichoDe
  <2> QED BY <2>1, <2>7 DEF Promesa!Next
<1> QED BY <1>1, <1>2, PagoYDicho

\* The two services and the queue implement AvisoDePago: a payment is decided
\* once, and what its owner is told is what was decided.
THEOREM CumplenPromesa == Spec => ImplementaPromesa
BY PromesaInit, PromesaPaso, InvarianteEventos, PTL
   DEF Spec, ImplementaPromesa, Promesa!Spec, estadoDe, dichoDe
------------------------------------------------------------------------------
(* Each payment that is lost costs a failure *)

\* The payments in the threads have not been published yet.
SinPublicar ==
  /\ \A i \in procesados : pago[i].estado \in Decisiones
  /\ \A h \in Hilos : hilo[h] # Libre =>
       /\ hilo[h].pago \notin procesados
       /\ \A n \in 1..Len(cola) : cola[n].pago # hilo[h].pago
       /\ fase # "espera" => enMano.pago # hilo[h].pago

LEMMA SinPublicarPaso == IInv /\ SinPublicar /\ [Next]_vars => SinPublicar'
<1> SUFFICES ASSUME IInv, SinPublicar, [Next]_vars PROVE SinPublicar'
  OBVIOUS
<1> USE EnManoEvento DEF IInv
<1>1. \A i \in procesados : pago'[i].estado \in Decisiones
  BY DecisionFirme DEF SinPublicar, TypeOK
<1>2. ASSUME NEW h \in Hilos, NEW i \in PagoIds, NEW monto \in Montos, NEW metodo \in Metodos,
             CreatePayment(h, i, monto, metodo)
      PROVE  SinPublicar'
  <2>1. i \notin procesados
    BY <1>2 DEF CreatePayment, Inserta, SinPublicar, SinPago, Decisiones
  <2>2. \A n \in 1..Len(cola) : cola[n] \in Evento /\ Veraz(pago, cola[n])
    BY DEF TypeOK, EventosVeraces
  <2>3. \A e \in Evento : Veraz(pago, e) => e.pago # i
    BY <1>2 DEF CreatePayment, Inserta, Veraz, Evento, Decisiones, SinPago
  <2>4. fase # "espera" => enMano.pago # i
    BY <2>3 DEF EventosVeraces
  <2>5. /\ hilo'[h].pago = i
        /\ \A g \in Hilos \ {h} : hilo'[g] = hilo[g]
        /\ UNCHANGED <<cola, fase, enMano, procesados>>
    BY <1>2 DEF TypeOK, CreatePayment, Inserta, trabajador
  <2> QED BY <1>1, <2>1, <2>2, <2>3, <2>4, <2>5 DEF SinPublicar
<1>3. ASSUME NEW h \in Hilos, UpdateStatus(h)
      PROVE  SinPublicar'
  <2>1. /\ hilo[h] # Libre
        /\ hilo'[h].pago = hilo[h].pago
        /\ \A g \in Hilos \ {h} : hilo'[g] = hilo[g]
        /\ UNCHANGED <<cola, fase, enMano, procesados>>
    BY <1>3, TipoTarea DEF TypeOK, UpdateStatus, Actualiza, trabajador
  <2> QED BY <1>1, <2>1 DEF SinPublicar
<1>4. ASSUME NEW h \in Hilos, PublishPaymentProcessed(h)
      PROVE  SinPublicar'
  <2>1. /\ hilo[h] # Libre
        /\ hilo'[h] = Libre
        /\ \A g \in Hilos \ {h} : hilo'[g] = hilo[g]
        /\ UNCHANGED <<fase, enMano, procesados>>
    BY <1>4, TipoTarea DEF TypeOK, PublishPaymentProcessed, trabajador
  <2>2. \A g \in Hilos \ {h} : hilo[g] # Libre => hilo[g].pago # hilo[h].pago
    BY <2>1 DEF Tareas
  <2>3. cola' = Append(cola, [pago |-> hilo[h].pago, estado |-> pago[hilo[h].pago].estado])
    BY <1>4 DEF PublishPaymentProcessed
  <2>4. \A n \in 1..Len(cola') : cola'[n].pago = hilo[h].pago \/ (n \in 1..Len(cola) /\ cola'[n] = cola[n])
    BY <2>3 DEF TypeOK
  <2> QED BY <1>1, <2>1, <2>2, <2>4 DEF SinPublicar
<1>5. ASSUME NEW h \in Hilos, PerderTarea(h)
      PROVE  SinPublicar'
  BY <1>1, <1>5 DEF TypeOK, PerderTarea, SinPublicar, trabajador
<1>6. CASE Entregar
  BY <1>1, <1>6 DEF TypeOK, Entregar, SinPublicar, servicio
<1>7. CASE RegisterProcessedEvent
  <2>1. fase # "espera" /\ enMano \in Evento /\ Veraz(pago, enMano)
    BY <1>7 DEF RegisterProcessedEvent, EventosVeraces
  <2> QED BY <1>1, <1>7, <2>1 DEF RegisterProcessedEvent, SinPublicar, Veraz, servicio
<1>8. CASE ErrorDeBase
  <2>1. fase # "espera" /\ enMano \in Evento /\ Veraz(pago, enMano)
    BY <1>8 DEF ErrorDeBase, EventosVeraces
  <2>2. procesados' \subseteq procesados \cup {enMano.pago} /\ UNCHANGED <<servicio, cola, enMano>>
    BY <1>8 DEF ErrorDeBase
  <2> QED BY <1>1, <2>1, <2>2 DEF SinPublicar, Veraz, servicio
<1>9. CASE Reinicio
  <2>1. fase # "espera" /\ enMano \in Evento /\ cola' = <<enMano>> \o cola /\ fase' = "espera"
    BY <1>9 DEF Reinicio
  <2>2. \A n \in 1..Len(cola') : cola'[n] = enMano \/ \E m \in 1..Len(cola) : cola'[n] = cola[m]
    <3>1. cola \in Seq(Evento) /\ enMano \in Evento /\ cola' = <<enMano>> \o cola
      BY <2>1 DEF TypeOK
    <3> QED BY <3>1, Reencolada
  <2> QED BY <1>1, <1>9, <2>1, <2>2 DEF Reinicio, SinPublicar, servicio
<1>10. CASE CreateNotification \/ Ack \/ Nack \/ UNCHANGED vars
  BY <1>1, <1>10 DEF CreateNotification, Ack, Nack, vars, SinPublicar, servicio, trabajador
<1> QED BY <1>2, <1>3, <1>4, <1>5, <1>6, <1>7, <1>8, <1>9, <1>10
        DEF Next, AvanceServicio, AvanceTrabajador

Perdidos == {i \in PagoIds : pago[i] # SinPago /\ ~Avisado(i) /\ ~EnCurso(i)}

\* Only what a thread or the worker was doing can be lost, and only by a failure.
LEMMA PerdidosPaso ==
  ASSUME IInv, SinPublicar, [Next]_vars
  PROVE  \/ Perdidos' \subseteq Perdidos /\ fallos' \in {fallos, fallos + 1}
         \/ \E x \in PagoIds : Perdidos' \subseteq Perdidos \cup {x} /\ fallos' = fallos + 1
<1> USE EnManoEvento DEF IInv
<1>1. \A i \in PagoIds : Avisado(i) => Avisado(i)'
  <2>1. CASE UNCHANGED notificaciones
    BY <2>1 DEF Avisado
  <2>2. CASE notificaciones' = Append(notificaciones, enMano)
    <3>1. \A n \in 1..Len(notificaciones) :
            n \in 1..Len(notificaciones') /\ notificaciones'[n] = notificaciones[n]
      BY <2>2 DEF TypeOK
    <3> QED BY <3>1 DEF Avisado
  <2> QED BY <2>1, <2>2, NuevoAviso
<1>2. ASSUME NEW h \in Hilos, NEW i \in PagoIds, NEW monto \in Montos, NEW metodo \in Metodos,
             CreatePayment(h, i, monto, metodo)
      PROVE  Perdidos' \subseteq Perdidos /\ fallos' = fallos
  <2>1. /\ hilo[h] = Libre
        /\ hilo'[h] # Libre
        /\ hilo'[h].pago = i
        /\ \A g \in Hilos \ {h} : hilo'[g] = hilo[g]
        /\ \A j \in PagoIds \ {i} : pago'[j] = pago[j]
        /\ UNCHANGED <<cola, trabajador, fallos>>
    BY <1>2 DEF TypeOK, CreatePayment, Inserta, Libre
  <2>2. EnCurso(i)'
    BY <2>1 DEF EnCurso
  <2>3. ASSUME NEW j \in PagoIds \ {i} PROVE EnCurso(j) => EnCurso(j)'
    BY <2>1 DEF EnCurso, trabajador
  <2> QED BY <1>1, <2>1, <2>2, <2>3 DEF Perdidos
<1>3. ASSUME NEW h \in Hilos, UpdateStatus(h)
      PROVE  Perdidos' \subseteq Perdidos /\ fallos' = fallos
  <2>1. /\ hilo[h] # Libre
        /\ hilo'[h] # Libre
        /\ hilo'[h].pago = hilo[h].pago
        /\ \A g \in Hilos \ {h} : hilo'[g] = hilo[g]
        /\ \A j \in PagoIds \ {hilo[h].pago} : pago'[j] = pago[j]
        /\ UNCHANGED <<cola, trabajador, fallos>>
    BY <1>3, TipoTarea DEF TypeOK, UpdateStatus, Actualiza, Libre
  <2>2. EnCurso(hilo[h].pago)'
    BY <2>1 DEF EnCurso
  <2>3. ASSUME NEW j \in PagoIds PROVE EnCurso(j) => EnCurso(j)'
    BY <2>1 DEF EnCurso, trabajador
  <2> QED BY <1>1, <2>1, <2>2, <2>3 DEF Perdidos
<1>4. ASSUME UNCHANGED pago, fallos' = fallos,
             \A i \in PagoIds : EnCurso(i) => EnCurso(i)' \/ Avisado(i)'
      PROVE  Perdidos' \subseteq Perdidos /\ fallos' = fallos
  BY <1>1, <1>4 DEF Perdidos
<1>5. ASSUME UNCHANGED pago, fallos' = fallos + 1, NEW x \in PagoIds,
             \A i \in PagoIds \ {x} : EnCurso(i) => EnCurso(i)' \/ Avisado(i)'
      PROVE  Perdidos' \subseteq Perdidos \cup {x} /\ fallos' = fallos + 1
  BY <1>1, <1>5 DEF Perdidos
<1>6. ASSUME NEW h \in Hilos, PublishPaymentProcessed(h)
      PROVE  \A i \in PagoIds : EnCurso(i) => EnCurso(i)'
  <2>1. /\ hilo[h] # Libre
        /\ \A g \in Hilos \ {h} : hilo'[g] = hilo[g]
        /\ UNCHANGED trabajador
    BY <1>6, TipoTarea DEF TypeOK, PublishPaymentProcessed
  <2>2. cola' = Append(cola, [pago |-> hilo[h].pago, estado |-> pago[hilo[h].pago].estado])
    BY <1>6 DEF PublishPaymentProcessed
  <2>3. /\ \A n \in 1..Len(cola) : n \in 1..Len(cola') /\ cola'[n] = cola[n]
        /\ \E n \in 1..Len(cola') : cola'[n].pago = hilo[h].pago
    <3>1. cola \in Seq(Evento)
      BY DEF TypeOK
    <3>2. /\ Len(cola') = Len(cola) + 1
          /\ \A n \in 1..Len(cola) : n \in 1..Len(cola') /\ cola'[n] = cola[n]
      BY <2>2, <3>1
    <3>3. cola'[Len(cola) + 1].pago = hilo[h].pago
      BY <2>2, <3>1
    <3>4. Len(cola) + 1 \in 1..Len(cola')
      BY <3>1, <3>2
    <3> QED BY <3>2, <3>3, <3>4
  <2>4. hilo[h].pago \notin procesados
    BY <2>1 DEF SinPublicar
  <2>5. \A i \in PagoIds : i = hilo[h].pago => EnCurso(i)'
    BY <2>1, <2>3, <2>4 DEF EnCurso, trabajador
  <2> QED BY <2>1, <2>3, <2>5 DEF EnCurso, trabajador
<1>7. ASSUME NEW h \in Hilos, PerderTarea(h)
      PROVE  /\ hilo[h].pago \in PagoIds
             /\ \A i \in PagoIds \ {hilo[h].pago} : EnCurso(i) => EnCurso(i)'
  BY <1>7, TipoTarea DEF TypeOK, PerderTarea, EnCurso, trabajador
<1>8. CASE Entregar
  <2>1. \A n \in 1..Len(cola) : cola[n] = enMano' \/ \E m \in 1..Len(cola') : cola'[m] = cola[n]
    <3>1. enMano' = cola[1] /\ \A n \in 2..Len(cola) : n - 1 \in 1..Len(cola') /\ cola'[n - 1] = cola[n]
      BY <1>8 DEF TypeOK, Entregar
    <3>2. \A n \in 1..Len(cola) : n = 1 \/ n \in 2..Len(cola)
      OBVIOUS
    <3> QED BY <3>1, <3>2
  <2>2. \A i \in PagoIds : EnCurso(i) => EnCurso(i)'
    BY <1>8, <2>1 DEF Entregar, EnCurso, servicio
  <2> QED BY <1>4, <1>8, <2>2 DEF Entregar, servicio
<1>9. CASE RegisterProcessedEvent
  <2>1. \A i \in PagoIds : EnCurso(i) => EnCurso(i)'
    BY <1>9 DEF RegisterProcessedEvent, EnCurso, servicio
  <2> QED BY <1>4, <1>9, <2>1 DEF RegisterProcessedEvent, servicio
<1>10. CASE CreateNotification
  <2>1. \A i \in PagoIds : i = enMano.pago => Avisado(i)'
    BY <1>10 DEF TypeOK, CreateNotification, Avisado
  <2>2. \A i \in PagoIds : EnCurso(i) => EnCurso(i)' \/ i = enMano.pago
    BY <1>10 DEF CreateNotification, EnCurso, servicio
  <2>3. \A i \in PagoIds : EnCurso(i) => EnCurso(i)' \/ Avisado(i)'
    BY <2>1, <2>2
  <2> QED BY <1>4, <1>10, <2>3 DEF CreateNotification, servicio
<1>11. CASE Ack \/ Nack \/ UNCHANGED vars
  <2>1. \A i \in PagoIds : EnCurso(i) => EnCurso(i)'
    BY <1>11 DEF Ack, Nack, vars, EnCurso, servicio, trabajador
  <2> QED BY <1>4, <1>11, <2>1 DEF Ack, Nack, vars, servicio, trabajador
<1>12. CASE ErrorDeBase
  <2>1. /\ enMano.pago \in PagoIds
        /\ procesados \subseteq procesados'
        /\ procesados' \subseteq procesados \cup {enMano.pago}
        /\ UNCHANGED <<servicio, cola>>
        /\ fallos' = fallos + 1
    BY <1>12 DEF ErrorDeBase, Falla
  <2>2. \A i \in PagoIds \ {enMano.pago} : EnCurso(i) => EnCurso(i)'
    BY <2>1 DEF EnCurso, servicio
  <2> QED BY <1>5, <2>1, <2>2 DEF servicio
<1>13. CASE Reinicio
  <2>1. /\ enMano \in Evento
        /\ enMano.pago \in PagoIds
        /\ cola' = <<enMano>> \o cola
        /\ UNCHANGED <<servicio, procesados>>
        /\ fallos' = fallos + 1
    BY <1>13 DEF Reinicio, Falla
  <2>2. \A n \in 1..Len(cola) : n + 1 \in 1..Len(cola') /\ cola'[n + 1] = cola[n]
    <3>1. cola \in Seq(Evento) /\ enMano \in Evento /\ cola' = <<enMano>> \o cola
      BY <2>1 DEF TypeOK
    <3> QED BY <3>1, Reencolada
  <2>3. \A i \in PagoIds \ {enMano.pago} : EnCurso(i) => EnCurso(i)'
    BY <2>1, <2>2 DEF EnCurso, servicio
  <2> QED BY <1>5, <2>1, <2>3 DEF servicio
<1>14. ASSUME NEW h \in Hilos, PublishPaymentProcessed(h)
       PROVE  Perdidos' \subseteq Perdidos /\ fallos' = fallos
  BY <1>4, <1>6, <1>14 DEF PublishPaymentProcessed
<1>15. ASSUME NEW h \in Hilos, PerderTarea(h)
       PROVE  \E x \in PagoIds : Perdidos' \subseteq Perdidos \cup {x} /\ fallos' = fallos + 1
  BY <1>5, <1>7, <1>15 DEF PerderTarea, Falla
<1> QED BY <1>2, <1>3, <1>8, <1>9, <1>10, <1>11, <1>12, <1>13, <1>14, <1>15
        DEF Next, AvanceServicio, AvanceTrabajador

Contadas == IsFiniteSet(Perdidos) /\ PerdidasContadas

LEMMA ContadasPaso == IInv /\ SinPublicar /\ Contadas /\ [Next]_vars => Contadas'
<1> SUFFICES ASSUME IInv, SinPublicar, Contadas, [Next]_vars PROVE Contadas'
  OBVIOUS
<1>1. IsFiniteSet(Perdidos) /\ Cardinality(Perdidos) \in Nat /\ Cardinality(Perdidos) <= fallos
  BY FS_CardinalityType DEF Contadas, PerdidasContadas, Perdidos
<1>2. fallos \in Nat
  BY DEF IInv, TypeOK
<1>3. ASSUME Perdidos' \subseteq Perdidos, fallos' \in {fallos, fallos + 1}
      PROVE  Contadas'
  <2>1. /\ IsFiniteSet(Perdidos')
        /\ Cardinality(Perdidos') \in Nat
        /\ Cardinality(Perdidos') <= Cardinality(Perdidos)
    BY <1>1, <1>3, FS_Subset, FS_CardinalityType
  <2> QED BY <1>1, <1>2, <1>3, <2>1 DEF Contadas, PerdidasContadas, Perdidos
<1>4. ASSUME NEW x \in PagoIds, Perdidos' \subseteq Perdidos \cup {x}, fallos' = fallos + 1
      PROVE  Contadas'
  <2>1. /\ IsFiniteSet(Perdidos \cup {x})
        /\ Cardinality(Perdidos \cup {x}) \in {Cardinality(Perdidos), Cardinality(Perdidos) + 1}
    BY <1>1, FS_AddElement
  <2>2. /\ IsFiniteSet(Perdidos')
        /\ Cardinality(Perdidos') \in Nat
        /\ Cardinality(Perdidos') <= Cardinality(Perdidos \cup {x})
    BY <1>4, <2>1, FS_Subset, FS_CardinalityType
  <2> QED BY <1>1, <1>2, <1>4, <2>1, <2>2 DEF Contadas, PerdidasContadas, Perdidos
<1> QED BY <1>3, <1>4, PerdidosPaso

\* No payment is lost by the order of the steps alone, and no failure loses two.
THEOREM Perdidas == Spec => []PerdidasContadas
<1> DEFINE J == SinPublicar /\ Contadas
<1>1. Init => J
  <2> SUFFICES ASSUME Init PROVE J
    OBVIOUS
  <2>1. SinPublicar
    BY DEF Init, SinPublicar
  <2>2. Perdidos = {}
    BY DEF Init, Perdidos
  <2>3. IsFiniteSet(Perdidos) /\ Cardinality(Perdidos) = 0
    BY <2>2, FS_EmptySet
  <2> QED BY <2>1, <2>3 DEF Contadas, PerdidasContadas, Perdidos, Init
<1>2. IInv /\ J /\ [Next]_vars => J'
  BY SinPublicarPaso, ContadasPaso
<1>3. J => PerdidasContadas
  BY DEF Contadas
<1> QED BY <1>1, <1>2, <1>3, InvarianteEventos, PTL DEF Spec
=============================================================================
