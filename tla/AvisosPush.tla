----------------------------- MODULE AvisosPush ------------------------------
(***************************************************************************)
(* NotificacionService.enviar: the notice is stored, then pushed to every  *)
(* browser that the account has subscribed, in a loop over the rows read   *)
(* first.  Meanwhile browsers subscribe, change account, unsubscribe, and  *)
(* their endpoints expire at the push service.                             *)
(***************************************************************************)
EXTENDS Integers, FiniteSets

CONSTANTS
  Suscriptores,   \* accounts
  Extremos,       \* endpoints that the push service gave to browsers
  Notificaciones, \* identifiers of the rows of Notificacion
  HilosPush,      \* threads
  MaxFallosPush,  \* bound on the pushes that fail for a reason other than 404, 410
  MaxCaidasPush   \* bound on the threads that die half way

ASSUME ConstantesPush == IsFiniteSet(Extremos) /\ MaxFallosPush \in Nat /\ MaxCaidasPush \in Nat

VARIABLES
  notificacion, \* the rows of Notificacion: "no hay", "nueva", "leida"
  suscripcion,  \* the rows of PushSubscription by their unique endpoint: {} or {usuario}
  vencidos,     \* endpoints that the push service answers with 404 or 410
  empuje,       \* what each thread is doing
  abonado,      \* what each browser asked last: {} or the account that subscribed it
  debidos,      \* notices that a browser subscribed since before awaits
  fallosPush,
  caidasPush

varsPush == <<notificacion, suscripcion, vencidos, empuje, abonado, debidos, fallosPush, caidasPush>>

------------------------------------------------------------------------------

SinEmpuje == [fase |-> "quieto"]
Empujando ==
  [fase : {"quieto"}]
  \cup [fase : {"listar"}, aviso : Notificaciones, usuario : Suscriptores]
  \cup [fase : {"empujar"}, aviso : Notificaciones, faltan : SUBSET Extremos]
  \cup [fase : {"borrar"}, aviso : Notificaciones, faltan : SUBSET Extremos, extremo : Extremos]
  \cup [fase : {"leer"}, aviso : Notificaciones]

Empuja(h, t) == empuje' = [empuje EXCEPT ![h] = t]

\* The rest of the loop.
Resto(aviso, faltan) ==
  IF faltan = {} THEN SinEmpuje ELSE [fase |-> "empujar", aviso |-> aviso, faltan |-> faltan]

Notifica(h, n) == empuje[h].fase \in {"listar", "empujar", "borrar"} /\ empuje[h].aviso = n

------------------------------------------------------------------------------
(* enviar *)

\* NotificacionFactory.crear
CrearNotificacion(h, n, u) ==
  /\ empuje[h] = SinEmpuje
  /\ notificacion[n] = "no hay"
  /\ notificacion' = [notificacion EXCEPT ![n] = "nueva"]
  /\ Empuja(h, [fase |-> "listar", aviso |-> n, usuario |-> u])
  /\ debidos' = debidos \cup {<<n, e>> : e \in {e \in Extremos \ vencidos : abonado[e] = {u}}}
  /\ UNCHANGED <<suscripcion, vencidos, abonado, fallosPush, caidasPush>>

\* list_for_user
ListarSuscripciones(h) ==
  /\ empuje[h].fase = "listar"
  /\ Empuja(h, Resto(empuje[h].aviso, {e \in Extremos : empuje[h].usuario \in suscripcion[e]}))
  /\ UNCHANGED <<notificacion, suscripcion, vencidos, abonado, debidos, fallosPush, caidasPush>>

\* webpush: 404 and 410 are WebPushExpiredError, and the row is to be deleted.
EnviarPush(h, e) ==
  /\ empuje[h].fase = "empujar"
  /\ e \in empuje[h].faltan
  /\ LET t == empuje[h]
         faltan == t.faltan \ {e}
     IN IF e \in vencidos
          THEN /\ Empuja(h, [fase |-> "borrar", aviso |-> t.aviso, faltan |-> faltan, extremo |-> e])
               /\ UNCHANGED debidos
          ELSE /\ Empuja(h, Resto(t.aviso, faltan))
               /\ debidos' = debidos \ {<<t.aviso, e>>}
  /\ UNCHANGED <<notificacion, suscripcion, vencidos, abonado, fallosPush, caidasPush>>

\* Mutant: any failure of a push deletes the subscription.
FallarBorrando(h, e) ==
  /\ empuje[h].fase = "empujar"
  /\ e \in empuje[h].faltan
  /\ fallosPush < MaxFallosPush
  /\ fallosPush' = fallosPush + 1
  /\ Empuja(h, [fase |-> "borrar", aviso |-> empuje[h].aviso,
                faltan |-> empuje[h].faltan \ {e}, extremo |-> e])
  /\ UNCHANGED <<notificacion, suscripcion, vencidos, abonado, debidos, caidasPush>>

\* Any other failure is logged, and the loop goes on.
FallarPush(h, e) ==
  /\ empuje[h].fase = "empujar"
  /\ e \in empuje[h].faltan
  /\ fallosPush < MaxFallosPush
  /\ fallosPush' = fallosPush + 1
  /\ Empuja(h, Resto(empuje[h].aviso, empuje[h].faltan \ {e}))
  /\ UNCHANGED <<notificacion, suscripcion, vencidos, abonado, debidos, caidasPush>>

\* delete_by_endpoint, whoever the row belongs to by now.
BorrarVencida(h) ==
  /\ empuje[h].fase = "borrar"
  /\ suscripcion' = [suscripcion EXCEPT ![empuje[h].extremo] = {}]
  /\ Empuja(h, Resto(empuje[h].aviso, empuje[h].faltan))
  /\ UNCHANGED <<notificacion, vencidos, abonado, debidos, fallosPush, caidasPush>>

\* The worker is killed, or the database fails under the delete.
CaerPush(h) ==
  /\ empuje[h] # SinEmpuje
  /\ caidasPush < MaxCaidasPush
  /\ caidasPush' = caidasPush + 1
  /\ Empuja(h, SinEmpuje)
  /\ UNCHANGED <<notificacion, suscripcion, vencidos, abonado, debidos, fallosPush>>

------------------------------------------------------------------------------
(* marcar_leida, read and written apart *)

LeerNotificacion(h, n) ==
  /\ empuje[h] = SinEmpuje
  /\ notificacion[n] = "nueva"
  /\ Empuja(h, [fase |-> "leer", aviso |-> n])
  /\ UNCHANGED <<notificacion, suscripcion, vencidos, abonado, debidos, fallosPush, caidasPush>>

GuardarLeida(h) ==
  /\ empuje[h].fase = "leer"
  /\ notificacion' = [notificacion EXCEPT ![empuje[h].aviso] = "leida"]
  /\ Empuja(h, SinEmpuje)
  /\ UNCHANGED <<suscripcion, vencidos, abonado, debidos, fallosPush, caidasPush>>

------------------------------------------------------------------------------
(* Browsers *)

\* Mutant: the endpoint is not the key, and a second row is created.
SuscribirOtraFila(u, e) ==
  /\ abonado[e] # {u}
  /\ suscripcion' = [suscripcion EXCEPT ![e] = @ \cup {u}]
  /\ abonado' = [abonado EXCEPT ![e] = {u}]
  /\ debidos' = {x \in debidos : x[2] # e}
  /\ UNCHANGED <<notificacion, vencidos, empuje, fallosPush, caidasPush>>

\* update_or_create by endpoint: the row changes account with the browser.
Suscribir(u, e) ==
  /\ abonado[e] # {u}
  /\ suscripcion' = [suscripcion EXCEPT ![e] = {u}]
  /\ abonado' = [abonado EXCEPT ![e] = {u}]
  /\ debidos' = {x \in debidos : x[2] # e}
  /\ UNCHANGED <<notificacion, vencidos, empuje, fallosPush, caidasPush>>

Desuscribir(e) ==
  /\ abonado[e] # {}
  /\ suscripcion' = [suscripcion EXCEPT ![e] = {}]
  /\ abonado' = [abonado EXCEPT ![e] = {}]
  /\ debidos' = {x \in debidos : x[2] # e}
  /\ UNCHANGED <<notificacion, vencidos, empuje, fallosPush, caidasPush>>

\* The browser revokes the permission or loses its data: no return.
Vencer(e) ==
  /\ e \notin vencidos
  /\ vencidos' = vencidos \cup {e}
  /\ debidos' = {x \in debidos : x[2] # e}
  /\ UNCHANGED <<notificacion, suscripcion, empuje, abonado, fallosPush, caidasPush>>

------------------------------------------------------------------------------

InitPush ==
  /\ notificacion = [n \in Notificaciones |-> "no hay"]
  /\ suscripcion = [e \in Extremos |-> {}]
  /\ vencidos = {}
  /\ empuje = [h \in HilosPush |-> SinEmpuje]
  /\ abonado = [e \in Extremos |-> {}]
  /\ debidos = {}
  /\ fallosPush = 0
  /\ caidasPush = 0

Envia(h) ==
  \/ \E n \in Notificaciones, u \in Suscriptores : CrearNotificacion(h, n, u)
  \/ ListarSuscripciones(h)
  \/ \E e \in Extremos : EnviarPush(h, e) \/ FallarPush(h, e)
  \/ BorrarVencida(h)
  \/ CaerPush(h)

NextPush ==
  \/ \E h \in HilosPush : Envia(h) \/ GuardarLeida(h) \/ \E n \in Notificaciones : LeerNotificacion(h, n)
  \/ \E e \in Extremos : Desuscribir(e) \/ Vencer(e) \/ \E u \in Suscriptores : Suscribir(u, e)

SpecPush == InitPush /\ [][NextPush]_varsPush

------------------------------------------------------------------------------
(* Properties *)

TypeOKPush ==
  /\ notificacion \in [Notificaciones -> {"no hay", "nueva", "leida"}]
  /\ suscripcion \in [Extremos -> {{}} \cup {{u} : u \in Suscriptores}]
  /\ vencidos \subseteq Extremos
  /\ empuje \in [HilosPush -> Empujando]
  /\ abonado \in [Extremos -> {{}} \cup {{u} : u \in Suscriptores}]
  /\ debidos \subseteq Notificaciones \X Extremos
  /\ fallosPush \in Nat
  /\ caidasPush \in Nat

\* A notice reaches every browser that was subscribed when it was stored and
\* still is, save for a push that failed itself and for what a thread that died
\* had left: neither a failed push nor an endpoint that expired costs any other
\* browser its notice, now or later.
AvisosPushCompletos ==
  Cardinality({x \in debidos : ~\E h \in HilosPush : Notifica(h, x[1])})
    <= fallosPush + caidasPush * Cardinality(Extremos)
=============================================================================
