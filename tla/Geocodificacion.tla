-------------------------- MODULE Geocodificacion ---------------------------
(***************************************************************************)
(* The geo microservice: geocode_address and suggest_addresses, their two  *)
(* caches and the backoff after Nominatim answers 429.  One process with   *)
(* several threads; the caches are class attributes with no lock.          *)
(*                                                                         *)
(* A request looks in its cache, asks Nominatim for one variant of its     *)
(* text after another, and stores what it found.  Asking is two steps, the *)
(* look at the backoff and the answer.  Storing is the look at the size,   *)
(* the loop that picks the oldest entry, the pop and the insert, and other *)
(* threads come between them and between one turn of the loop and another. *)
(***************************************************************************)
EXTENDS Reloj, DireccionesCo

CONSTANTS
  Textos,          \* addresses that clients type
  PuntosConocidos, \* those of Textos that _POI_FALLBACKS answers
  MaximoCache,     \* _SUGGEST_CACHE_MAX, _GEOCODE_CACHE_MAX
  VigenciaCache,   \* _SUGGEST_CACHE_TTL_SECONDS, _GEOCODE_CACHE_TTL_SECONDS
  VigenciaVacia,   \* _SUGGEST_NEGATIVE_CACHE_TTL_SECONDS
  Retirada         \* _NOMINATIM_BACKOFF_SECONDS

Usos == {"sugerir", "ubicar"}

ASSUME ConstantesGeo ==
  /\ Textos \subseteq {t \in Texto : ~t.otraVia}
  /\ PuntosConocidos \subseteq Textos
  /\ MaximoCache \in [Usos -> Nat \ {0}]
  /\ VigenciaCache \in [Usos -> Nat]
  /\ VigenciaVacia \in Nat
  /\ Retirada \in Nat

VARIABLES
  cache,         \* _suggest_cache and _geocode_cache: the entry of each text, or {}
  retiradaHasta, \* _nominatim_backoff_until
  consulta,      \* what each thread is doing
  insistencias,  \* answers of Nominatim to each thread in this backoff
  recorridos,    \* the threads whose loop is past each entry
  solapes        \* stores that ended while another thread was evicting or storing

varsGeo == <<reloj, cache, retiradaHasta, consulta, insistencias, recorridos, solapes>>

------------------------------------------------------------------------------

\* What Nominatim may find: nothing, something on the road that was typed, or
\* only something else.  Asked for another road, it finds nothing on this one.
Hallazgos == {"nada", "via", "otra"}

\* The variants of each text, and whether what they find is held against its road.
Plan ==
  [t \in Textos |->
    [sugerir |-> VariantesAProbar(t), ubicar |-> VariantesDeGeocodigo(t),
     reserva |-> VarianteDeReserva(t),
     revisa |-> /\ EsColombia(t) /\ TieneDetalle(t)
                /\ SoloVia(Normalizada(ConContexto(t))) # SinTexto]]

Entrada == [desde : Nat, vacia : BOOLEAN]
Claves(u) == {t \in Textos : cache[u][t] # {}}
Vigente(u, t) ==
  \A e \in cache[u][t] :
    reloj - e.desde <= IF u = "sugerir" /\ e.vacia THEN VigenciaVacia ELSE VigenciaCache[u]

Libre == [fase |-> "libre"]
Fases == {"mirar", "preguntar", "guardar", "empezar", "recorrer", "desalojar", "poner"}

\* texto: what was typed; quedan: variants not asked yet; deReserva: only the
\* fallback is left; hallado: what was found; desvio: asking for another road;
\* vieja, antes: oldest_key, oldest_ts; largo, faltan: the iterator's size of the
\* dictionary and entries to go.
Consulta ==
  [fase : {"libre"}]
  \cup [fase : Fases, uso : Usos, texto : Textos, quedan : Seq(Texto), deReserva : BOOLEAN,
        hallado : Hallazgos, desvio : BOOLEAN, vieja : Textos \cup {SinTexto}, antes : Nat,
        largo : Nat, faltan : Nat]

Guardando(g, u) ==
  consulta[g].fase \in {"recorrer", "desalojar", "poner"} /\ consulta[g].uso = u

Pone(h, c) == consulta' = [consulta EXCEPT ![h] = c]

\* A request that has not found anything yet.
Peticion(u, t, quedan) ==
  [fase |-> "mirar", uso |-> u, texto |-> t, quedan |-> quedan, deReserva |-> FALSE,
   hallado |-> "nada", desvio |-> FALSE, vieja |-> SinTexto, antes |-> 0, largo |-> 0,
   faltan |-> 0]

\* pop: no loop is past an entry that is not there.
Quita(u, t) ==
  /\ cache' = [cache EXCEPT ![u][t] = {}]
  /\ recorridos' = [recorridos EXCEPT ![u][t] = {}]

------------------------------------------------------------------------------
(* geocode_address and suggest_addresses *)

\* _poi_fallback_matches: the text holds one of the aliases.
EsConocido(t) == t \in PuntosConocidos

\* geocode_address looks at the known places first; suggest_addresses looks in
\* the cache first and stores them.  An expired entry is removed.
Pedir(h, u, t) ==
  /\ consulta[h] = Libre
  /\ ~(u = "ubicar" /\ EsConocido(t))
  /\ ~(cache[u][t] # {} /\ Vigente(u, t))
  /\ Quita(u, t)
  /\ Pone(h, IF EsConocido(t)
               THEN [Peticion(u, t, <<>>) EXCEPT !.fase = "guardar", !.hallado = "via"]
               ELSE Peticion(u, t, Plan[t][u]))
  /\ UNCHANGED <<reloj, retiradaHasta, insistencias, solapes>>

\* Mutant: results elsewhere than on the road that was typed are kept.
DescartarNada(c) == c.hallado

\* has_consistent_result: if no result is on the road, all are discarded.
Descartar(c) ==
  IF Plan[c.texto].revisa /\ c.hallado = "otra" THEN "nada" ELSE c.hallado

\* After a variant: a suggestion goes on while it has nothing, then to the
\* discard and the fallback, and stores what it has, if only []; a geocode goes
\* on while it has nothing, and ends with an error, storing nothing.
Sigue(c) ==
  LET merged == IF c.deReserva THEN c.hallado ELSE Descartar(c)
      reserva == Plan[c.texto].reserva
      guarda == [c EXCEPT !.fase = "guardar", !.quedan = <<>>, !.deReserva = FALSE,
                          !.hallado = merged]
  IN IF c.hallado = "nada" /\ c.quedan # <<>> THEN [c EXCEPT !.fase = "mirar"]
     ELSE IF c.uso = "ubicar"
       THEN IF c.hallado = "nada" THEN Libre ELSE [guarda EXCEPT !.hallado = c.hallado]
     ELSE IF merged = "nada" /\ ~c.deReserva /\ reserva # SinTexto
       THEN [c EXCEPT !.fase = "mirar", !.quedan = <<reserva>>, !.deReserva = TRUE,
                      !.hallado = "nada"]
     ELSE guarda

\* The variant at the head of quedan found r.
ConHallazgo(c, r) ==
  Sigue([c EXCEPT !.desvio = Head(c.quedan).otraVia, !.quedan = Tail(c.quedan), !.hallado = r])

\* Mutant: the backoff is looked at before the first variant only.
MirarUnaVez(h) ==
  LET c == consulta[h]
  IN /\ c.fase = "mirar"
     /\ IF reloj < retiradaHasta /\ c.quedan = Plan[c.texto][c.uso]
          THEN Pone(h, ConHallazgo(c, "nada"))
          ELSE Pone(h, [c EXCEPT !.fase = "preguntar"])
     /\ UNCHANGED <<reloj, cache, retiradaHasta, insistencias, recorridos, solapes>>

\* time.time() < _nominatim_backoff_until: nothing is found.
Mirar(h) ==
  LET c == consulta[h]
  IN /\ c.fase = "mirar"
     /\ IF reloj < retiradaHasta
          THEN Pone(h, ConHallazgo(c, "nada"))
          ELSE Pone(h, [c EXCEPT !.fase = "preguntar"])
     /\ UNCHANGED <<reloj, cache, retiradaHasta, insistencias, recorridos, solapes>>

\* Nominatim answers in time.
Responde(h, r) ==
  /\ consulta[h].fase = "preguntar"
  /\ Head(consulta[h].quedan).otraVia => r # "via"
  /\ Pone(h, ConHallazgo(consulta[h], r))
  /\ insistencias' = [insistencias EXCEPT ![h] = IF reloj < retiradaHasta THEN @ + 1 ELSE 0]
  /\ UNCHANGED <<reloj, cache, retiradaHasta, recorridos, solapes>>

\* _fetch_json raises: a 429 starts the backoff.  _nominatim_search catches the
\* error and finds nothing; _nominatim_geocode lets it end the request.
Falla(h, demasiadas) ==
  LET c == consulta[h]
  IN /\ c.fase = "preguntar"
     /\ retiradaHasta' = IF demasiadas THEN reloj + Retirada ELSE retiradaHasta
     /\ Pone(h, IF c.uso = "sugerir" THEN ConHallazgo(c, "nada") ELSE Libre)
     /\ insistencias' = [insistencias EXCEPT ![h] = IF reloj < retiradaHasta THEN @ + 1 ELSE 0]
     /\ UNCHANGED <<reloj, cache, recorridos, solapes>>

------------------------------------------------------------------------------
(* _suggest_cache_set and _geocode_cache_set *)

\* Mutant: the bound is not looked at.
GuardarSinMaximo(h) ==
  /\ consulta[h].fase = "guardar"
  /\ Pone(h, [consulta[h] EXCEPT !.fase = "poner"])
  /\ UNCHANGED <<reloj, cache, retiradaHasta, insistencias, recorridos, solapes>>

\* len(cache) >= MAX: there is an entry to evict first.
Guardar(h) ==
  LET c == consulta[h]
  IN /\ c.fase = "guardar"
     /\ Pone(h, [c EXCEPT !.fase = IF Cardinality(Claves(c.uso)) >= MaximoCache[c.uso]
                                     THEN "empezar" ELSE "poner"])
     /\ UNCHANGED <<reloj, cache, retiradaHasta, insistencias, recorridos, solapes>>

\* oldest_key = None; cache.items(): the iterator takes the size that the
\* dictionary has by now.
EmpezarRecorrido(h) ==
  LET c == consulta[h]
      n == Cardinality(Claves(c.uso))
  IN /\ c.fase = "empezar"
     /\ Pone(h, [c EXCEPT !.fase = "recorrer", !.vieja = SinTexto, !.largo = n, !.faltan = n])
     /\ UNCHANGED <<reloj, cache, retiradaHasta, insistencias, recorridos, solapes>>

\* The threads whose loop is past some entry.
YaRecorren(u) ==
  {g \in Hilos : consulta[g].fase = "recorrer" /\ consulta[g].uso = u /\ consulta[g].vieja # SinTexto}

\* The entries that the loop of h is not past.
PorVer(h, u) == {t \in Claves(u) : h \notin recorridos[u][t]}

DejaElRecorrido(h, c, u) ==
  /\ Pone(h, c)
  /\ recorridos' = [recorridos EXCEPT ![u] = [t \in Textos |-> @[t] \ {h}]]

\* One turn of the loop: the entry is kept when it is the oldest so far.
Recorrer(h) ==
  LET c == consulta[h]
  IN /\ c.fase = "recorrer"
     /\ Cardinality(Claves(c.uso)) = c.largo
     /\ c.faltan > 0
     /\ \E t \in PorVer(h, c.uso) : \E e \in cache[c.uso][t] :
          LET d == [c EXCEPT !.faltan = @ - 1]
          IN /\ Pone(h, IF c.vieja = SinTexto \/ e.desde < c.antes
                          THEN [d EXCEPT !.vieja = t, !.antes = e.desde] ELSE d)
             /\ recorridos' = [recorridos EXCEPT ![c.uso][t] = @ \cup {h}]
     /\ UNCHANGED <<reloj, cache, retiradaHasta, insistencias, solapes>>

\* RuntimeError: the size is not the one at the start, or it is but there are
\* keys beyond those.  The request ends without storing anything.
RecorridoRoto(h) ==
  LET c == consulta[h]
  IN /\ c.fase = "recorrer"
     /\ \/ Cardinality(Claves(c.uso)) # c.largo
        \/ c.faltan = 0 /\ PorVer(h, c.uso) # {}
     /\ DejaElRecorrido(h, Libre, c.uso)
     /\ UNCHANGED <<reloj, cache, retiradaHasta, insistencias, solapes>>

\* There was nothing left when the loop started: oldest_key is None.
TerminarRecorrido(h) ==
  LET c == consulta[h]
  IN /\ c.fase = "recorrer"
     /\ Cardinality(Claves(c.uso)) = c.largo
     /\ PorVer(h, c.uso) = {}
     /\ DejaElRecorrido(h, [c EXCEPT !.fase = IF c.vieja = SinTexto THEN "poner" ELSE "desalojar",
                                     !.antes = 0, !.largo = 0, !.faltan = 0], c.uso)
     /\ UNCHANGED <<reloj, cache, retiradaHasta, insistencias, solapes>>

\* pop(oldest_key, None)
Desalojar(h) ==
  LET c == consulta[h]
  IN /\ c.fase = "desalojar"
     /\ Quita(c.uso, c.vieja)
     /\ Pone(h, [c EXCEPT !.fase = "poner", !.vieja = SinTexto])
     /\ UNCHANGED <<reloj, retiradaHasta, insistencias, solapes>>

\* A key that is there keeps its place and a new one comes last; but if that
\* makes the table grow, it is rebuilt without the gaps, and the loops under way
\* that are past some entry may miss others.
NuevoLugar(u, t) ==
  IF cache[u][t] # {} THEN UNCHANGED recorridos
  ELSE \E saltan \in [Claves(u) \cup {t} -> SUBSET YaRecorren(u)] :
         recorridos' = [recorridos EXCEPT ![u] =
           [s \in Textos |-> IF s \in DOMAIN saltan THEN @[s] \cup saltan[s] ELSE @[s]]]

Poner(h) ==
  LET c == consulta[h]
  IN /\ c.fase = "poner"
     /\ cache' = [cache EXCEPT ![c.uso][c.texto] = {[desde |-> reloj, vacia |-> c.hallado = "nada"]}]
     /\ NuevoLugar(c.uso, c.texto)
     /\ solapes' = IF \E g \in Hilos \ {h} : Guardando(g, c.uso)
                     THEN [solapes EXCEPT ![c.uso] = @ + 1] ELSE solapes
     /\ Pone(h, Libre)
     /\ UNCHANGED <<reloj, retiradaHasta, insistencias>>

------------------------------------------------------------------------------

InitGeo ==
  /\ reloj = 0
  /\ cache = [u \in Usos |-> [t \in Textos |-> {}]]
  /\ retiradaHasta = 0
  /\ consulta = [h \in Hilos |-> Libre]
  /\ insistencias = [h \in Hilos |-> 0]
  /\ recorridos = [u \in Usos |-> [t \in Textos |-> {}]]
  /\ solapes = [u \in Usos |-> 0]

Atiende(h) ==
  \/ Mirar(h)
  \/ \E r \in Hallazgos : Responde(h, r)
  \/ \E demasiadas \in BOOLEAN : Falla(h, demasiadas)
  \/ Guardar(h)
  \/ EmpezarRecorrido(h)
  \/ Recorrer(h)
  \/ RecorridoRoto(h)
  \/ TerminarRecorrido(h)
  \/ Desalojar(h)
  \/ Poner(h)

TiempoGeo ==
  /\ PasaElTiempo
  /\ insistencias' = [h \in Hilos |-> IF reloj' < retiradaHasta THEN insistencias[h] ELSE 0]
  /\ UNCHANGED <<cache, retiradaHasta, consulta, recorridos, solapes>>

NextGeo ==
  \/ \E h \in Hilos : Atiende(h) \/ \E u \in Usos : \E t \in Textos : Pedir(h, u, t)
  \/ TiempoGeo

SpecGeo == InitGeo /\ [][NextGeo]_varsGeo

------------------------------------------------------------------------------
(* Properties *)

TypeOKGeo ==
  /\ reloj \in Nat
  /\ cache \in [Usos -> [Textos -> SUBSET Entrada]]
  /\ retiradaHasta \in Nat
  /\ consulta \in [Hilos -> Consulta]
  /\ insistencias \in [Hilos -> Nat]
  /\ recorridos \in [Usos -> [Textos -> SUBSET Hilos]]
  /\ solapes \in [Usos -> Nat]

\* After Nominatim has said 429 it hears from each thread at most once more
\* until the backoff ends: from a request that had already looked.  A request
\* that still has variants to ask does not go on asking.
RetiradaRespetada == \A h \in Hilos : insistencias[h] <= 1

\* The caches have no lock: two threads may both find room, or evict the same
\* entry.  Each entry beyond the maximum is paid for by stores that overlapped.
CacheSinSobrantes ==
  \A u \in Usos : Cardinality(Claves(u)) <= MaximoCache[u] + solapes[u]

\* What is offered for a detailed Colombian address was found on the road that
\* was typed: the variants generalise a text and never end up on another road,
\* though one of them may name another road on the way.
SugerenciaEnSuVia ==
  \A h \in Hilos :
    /\ consulta[h].fase \in {"guardar", "empezar", "recorrer", "desalojar", "poner"}
    /\ consulta[h].uso = "sugerir"
    /\ consulta[h].hallado # "nada"
    => ~consulta[h].desvio
=============================================================================
