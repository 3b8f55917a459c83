----------------------------- MODULE GeoGoogle ------------------------------
(***************************************************************************)
(* geo/domain/services.py, the geocoding of the monolith: Google answers,  *)
(* and two dictionaries of the process keep what it said, to pay for fewer *)
(* calls.  A full dictionary is emptied; nothing locks it.  Looking an     *)
(* entry up, removing it, asking, testing the size, emptying and inserting *)
(* are steps of their own.                                                 *)
(***************************************************************************)
EXTENDS Reloj

CONSTANTS
  Direcciones,    \* what clients ask for
  MaximoGoogle,   \* _GEOCODE_CACHE_MAX, _SUGGEST_CACHE_MAX
  VigenciaGoogle  \* _GEOCODE_CACHE_TTL_SECONDS, _SUGGEST_CACHE_TTL_SECONDS

Consultas == {"geocode", "suggest"}

ASSUME ConstantesGoogle ==
  /\ IsFiniteSet(Direcciones)
  /\ MaximoGoogle \in [Consultas -> Nat \ {0}]
  /\ VigenciaGoogle \in [Consultas -> Nat]

VARIABLES
  guardadas,  \* _geocode_cache and _suggest_cache: direction to expires_at
  pedido      \* where each thread is

varsGoogle == <<reloj, guardadas, pedido>>

FasesGoogle == {"caducada", "preguntar", "medir", "vaciar", "insertar"}
Ocioso == [fase |-> "ocioso"]
Pedido == [fase : {"ocioso"}] \cup [fase : FasesGoogle, uso : Consultas, dir : Direcciones]

EnFase(h, f) == pedido[h].fase = f
Pasa(h, f) == pedido' = [pedido EXCEPT ![h].fase = f]
Termina(h) == pedido' = [pedido EXCEPT ![h] = Ocioso]

------------------------------------------------------------------------------

\* _geocode_cache_get, _suggest_cache_get: a live entry is the answer.
PedirGoogle(h, u, d) ==
  /\ pedido[h] = Ocioso
  /\ \A e \in DOMAIN guardadas[u] \cap {d} : reloj > guardadas[u][e]
  /\ pedido' = [pedido EXCEPT ![h] =
       [fase |-> IF d \in DOMAIN guardadas[u] THEN "caducada" ELSE "preguntar",
        uso |-> u, dir |-> d]]
  /\ UNCHANGED <<reloj, guardadas>>

SinEntrada(f, d) == [e \in DOMAIN f \ {d} |-> f[e]]

\* pop(key, None), whatever is there by now
QuitarCaducada(h) ==
  /\ EnFase(h, "caducada")
  /\ LET p == pedido[h]
     IN guardadas' = [guardadas EXCEPT ![p.uso] = SinEntrada(@, p.dir)]
  /\ Pasa(h, "preguntar")
  /\ UNCHANGED reloj

\* _google_text_search answers [] when the call fails, and [] is stored; a
\* geocode that fails or finds nothing is an error.
RespondeGoogle(h, hay) ==
  /\ EnFase(h, "preguntar")
  /\ IF hay \/ pedido[h].uso = "suggest" THEN Pasa(h, "medir") ELSE Termina(h)
  /\ UNCHANGED <<reloj, guardadas>>

\* Mutant: a full dictionary is not emptied.
MedirSinVaciar(h) ==
  /\ EnFase(h, "medir")
  /\ Pasa(h, "insertar")
  /\ UNCHANGED <<reloj, guardadas>>

\* len(cache) >= MAX
Medir(h) ==
  /\ EnFase(h, "medir")
  /\ LET u == pedido[h].uso
     IN Pasa(h, IF Cardinality(DOMAIN guardadas[u]) >= MaximoGoogle[u] THEN "vaciar" ELSE "insertar")
  /\ UNCHANGED <<reloj, guardadas>>

\* cache.clear()
Vaciar(h) ==
  /\ EnFase(h, "vaciar")
  /\ guardadas' = [guardadas EXCEPT ![pedido[h].uso] = << >>]
  /\ Pasa(h, "insertar")
  /\ UNCHANGED reloj

ConEntrada(f, d, t) == [e \in DOMAIN f \cup {d} |-> IF e = d THEN t ELSE f[e]]

Insertar(h) ==
  /\ EnFase(h, "insertar")
  /\ LET p == pedido[h]
     IN guardadas' = [guardadas EXCEPT ![p.uso] = ConEntrada(@, p.dir, reloj + VigenciaGoogle[p.uso])]
  /\ Termina(h)
  /\ UNCHANGED reloj

------------------------------------------------------------------------------

InitGoogle ==
  /\ reloj = 0
  /\ guardadas = [u \in Consultas |-> << >>]
  /\ pedido = [h \in Hilos |-> Ocioso]

PasoGoogle(h) ==
  \/ \E u \in Consultas : \E d \in Direcciones : PedirGoogle(h, u, d)
  \/ QuitarCaducada(h)
  \/ \E hay \in BOOLEAN : RespondeGoogle(h, hay)
  \/ Medir(h)
  \/ Vaciar(h)
  \/ Insertar(h)

TiempoGoogle == PasaElTiempo /\ UNCHANGED <<guardadas, pedido>>

NextGoogle == TiempoGoogle \/ \E h \in Hilos : PasoGoogle(h)

SpecGoogle == InitGoogle /\ [][NextGoogle]_varsGoogle

------------------------------------------------------------------------------
(* Properties *)

TypeOKGoogle ==
  /\ reloj \in Nat
  /\ DOMAIN guardadas = Consultas
  /\ \A u \in Consultas : /\ DOMAIN guardadas[u] \subseteq Direcciones
                          /\ \A d \in DOMAIN guardadas[u] : guardadas[u][d] \in Nat
  /\ pedido \in [Hilos -> Pedido]

\* The dictionaries have no lock: every thread may find room for its entry and
\* insert it after the others have.  No more than one entry of each thread
\* besides the first is ever stored beyond the maximum, however long it runs.
CacheGoogleAcotada ==
  \A u \in Consultas :
    Cardinality(DOMAIN guardadas[u]) <= MaximoGoogle[u] + Cardinality(Hilos) - 1
=============================================================================
