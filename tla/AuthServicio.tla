---------------------------- MODULE AuthServicio ----------------------------
(***************************************************************************)
(* The auth microservice: rate_limited, which guards its endpoints, and    *)
(* register.  One process with several threads.  The limiter reads the     *)
(* clock before it takes its lock, so that its list is not in order.  The  *)
(* names are looked up in lower case, but UNIQUE is as they were typed.    *)
(***************************************************************************)
EXTENDS Reloj, Sequences

CONSTANTS
  MaxPeticiones, \* max_requests
  Ventana,       \* window_seconds
  Retraso,       \* bound on the time from reading the clock to holding the lock
  Nombres,       \* user names as typed
  Plegado,       \* lower(username)
  Buzones        \* e-mail addresses, lower case

ASSUME ConstantesAuth ==
  /\ MaxPeticiones \in Nat
  /\ Ventana \in Nat
  /\ Retraso \in Nat
  /\ DOMAIN Plegado = Nombres

VARIABLES
  hits,      \* _hits of one endpoint and address: times
  llamada,   \* what each thread is doing
  pasadas,   \* when each request was let through
  usuarios   \* the table users: <<username, email>>

varsAuth == <<reloj, hits, llamada, pasadas, usuarios>>

------------------------------------------------------------------------------

Ociosa == [fase |-> "ociosa"]
Llamada ==
  [fase : {"ociosa", "dentro"}] \cup [fase : {"limite"}, ahora : Nat]
  \cup [fase : {"correo", "crear"}, nombre : Nombres, buzon : Buzones]
PoneLlamada(h, l) == llamada' = [llamada EXCEPT ![h] = l]

------------------------------------------------------------------------------
(* rate_limited *)

\* now = time.time()
LeerReloj(h) ==
  /\ llamada[h] = Ociosa
  /\ PoneLlamada(h, [fase |-> "limite", ahora |-> reloj])
  /\ UNCHANGED <<reloj, hits, pasadas, usuarios>>

\* Mutant: a hit at the very edge of the window is dropped.
RecortadoCorto(s, cutoff) ==
  LET viejos == {i \in DOMAIN s : \A j \in 1 .. i : s[j] <= cutoff}
  IN SubSeq(s, Cardinality(viejos) + 1, Len(s))

\* while hits and hits[0] < cutoff: hits.pop(0)
Recortado(s, cutoff) ==
  LET viejos == {i \in DOMAIN s : \A j \in 1 .. i : s[j] < cutoff}
  IN SubSeq(s, Cardinality(viejos) + 1, Len(s))

\* with _lock: a request too many is answered 429.
Limitar(h) ==
  /\ llamada[h].fase = "limite"
  /\ LET now == llamada[h].ahora
         quedan == Recortado(hits, now - Ventana)
     IN IF Len(quedan) >= MaxPeticiones
          THEN /\ hits' = quedan
               /\ PoneLlamada(h, Ociosa)
               /\ UNCHANGED pasadas
          ELSE /\ hits' = Append(quedan, now)
               /\ PoneLlamada(h, [fase |-> "dentro"])
               /\ pasadas' = Append(pasadas, reloj)
  /\ UNCHANGED <<reloj, usuarios>>

\* A request that stores nothing: a register refused for its arguments, or an
\* endpoint whose handler only reads; each endpoint has its own list of hits.
Atender(h) ==
  /\ llamada[h].fase = "dentro"
  /\ PoneLlamada(h, Ociosa)
  /\ UNCHANGED <<reloj, hits, pasadas, usuarios>>

------------------------------------------------------------------------------
(* AuthService.register *)

\* Mutant: the name is looked up as it was typed.
BuscarNombreExacto(h, n, b) ==
  /\ llamada[h].fase = "dentro"
  /\ PoneLlamada(h, IF \E u \in usuarios : u[1] = n THEN Ociosa
                    ELSE [fase |-> "correo", nombre |-> n, buzon |-> b])
  /\ UNCHANGED <<reloj, hits, pasadas, usuarios>>

\* get_user_by_username
BuscarNombre(h, n, b) ==
  /\ llamada[h].fase = "dentro"
  /\ PoneLlamada(h, IF \E u \in usuarios : Plegado[u[1]] = Plegado[n] THEN Ociosa
                    ELSE [fase |-> "correo", nombre |-> n, buzon |-> b])
  /\ UNCHANGED <<reloj, hits, pasadas, usuarios>>

\* get_user_by_email
BuscarCorreo(h) ==
  /\ llamada[h].fase = "correo"
  /\ PoneLlamada(h, IF \E u \in usuarios : u[2] = llamada[h].buzon THEN Ociosa
                    ELSE [llamada[h] EXCEPT !.fase = "crear"])
  /\ UNCHANGED <<reloj, hits, pasadas, usuarios>>

\* create_user: UniqueViolation, which nobody catches, or a new row
CrearUsuario(h) ==
  /\ llamada[h].fase = "crear"
  /\ LET l == llamada[h]
     IN usuarios' = IF \E u \in usuarios : u[1] = l.nombre \/ u[2] = l.buzon THEN usuarios
                    ELSE usuarios \cup {<<l.nombre, l.buzon>>}
  /\ PoneLlamada(h, Ociosa)
  /\ UNCHANGED <<reloj, hits, pasadas>>

\* Time passes, but no thread waits longer than Retraso for the lock.
TiempoAuth ==
  /\ PasaElTiempo
  /\ \A h \in Hilos : llamada[h].fase = "limite" => reloj - llamada[h].ahora < Retraso
  /\ UNCHANGED <<hits, llamada, pasadas, usuarios>>

------------------------------------------------------------------------------

InitAuth ==
  /\ reloj = 0
  /\ hits = <<>>
  /\ llamada = [h \in Hilos |-> Ociosa]
  /\ pasadas = <<>>
  /\ usuarios = {}

PasoAuth(h) ==
  \/ LeerReloj(h)
  \/ Limitar(h)
  \/ Atender(h)
  \/ \E n \in Nombres : \E b \in Buzones : BuscarNombre(h, n, b)
  \/ BuscarCorreo(h)
  \/ CrearUsuario(h)

NextAuth == TiempoAuth \/ \E h \in Hilos : PasoAuth(h)

SpecAuth == InitAuth /\ [][NextAuth]_varsAuth

------------------------------------------------------------------------------
(* Properties *)

TypeOKAuth ==
  /\ reloj \in 0 .. MaxReloj
  /\ hits \in Seq(Nat)
  /\ llamada \in [Hilos -> Llamada]
  /\ pasadas \in Seq(Nat)
  /\ usuarios \subseteq Nombres \X Buzones

\* Of one address no more than MaxPeticiones pass in any Ventana - Retraso of
\* real time: from one to the MaxPeticiones-th after it more than that goes by,
\* though the list is not in order, what is pruned is what stands first, and a
\* late thread prunes with an old clock.
VentanaRespetada ==
  \A i, j \in DOMAIN pasadas :
    j - i >= MaxPeticiones => pasadas[j] - pasadas[i] > Ventana - Retraso

\* Names that differ in their case only are one name to register, but not to the
\* table: those who checked at the same time may each get theirs, one for each
\* thread and no more, however many try later.
TocayosAcotados ==
  \A n \in Nombres :
    Cardinality({u \in usuarios : Plegado[u[1]] = Plegado[n]}) <= Cardinality(Hilos)
=============================================================================
