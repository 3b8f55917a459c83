------------------------------ MODULE Catalogo ------------------------------
(***************************************************************************)
(* The cached list of publications.  A reader that misses the cache reads  *)
(* the rows and stores them; a writer commits and then deletes the key.    *)
(* The rows are known by their version: each commit makes the next one.    *)
(***************************************************************************)
EXTENDS Reloj, Sequences

CONSTANTS
  VigenciaCatalogo, \* CATALOG_CACHE_TTL_SECONDS
  Demora,           \* bound on the time from reading the rows to storing them
  MaxVersiones,     \* bound on the commits
  MaxSinAviso       \* bound on those that invalidate nothing

ASSUME ConstantesCatalogo == VigenciaCatalogo \in Nat /\ Demora \in Nat

VARIABLES
  desde,     \* when each version of the rows was committed; the last is current
  enCache,   \* what the cache holds: {} or one entry
  lector,    \* what each thread is doing
  sinAviso   \* commits that did not delete the key

varsCatalogo == <<reloj, desde, enCache, lector, sinAviso>>

Version == Len(desde)
Quieto == [fase |-> "quieto"]
Lector0 ==
  [fase : {"quieto", "leer", "invalidar"}]
  \cup [fase : {"guardar"}, version : Nat \ {0}, leido : Nat]

PoneLector(h, l) == lector' = [lector EXCEPT ![h] = l]

------------------------------------------------------------------------------
(* PublicacionListCreateAPIView.get *)

\* Mutant: a hit renews the life of the entry.
MirarRenovando(h) ==
  /\ lector[h] = Quieto
  /\ IF \E e \in enCache : e.expira >= reloj
       THEN /\ enCache' = {[e EXCEPT !.expira = reloj + VigenciaCatalogo] : e \in enCache}
            /\ UNCHANGED lector
       ELSE PoneLector(h, [fase |-> "leer"]) /\ UNCHANGED enCache
  /\ UNCHANGED <<reloj, desde, sinAviso>>

\* A live entry is the answer; otherwise the rows are read.
MirarCatalogo(h) ==
  /\ lector[h] = Quieto
  /\ \A e \in enCache : e.expira < reloj
  /\ PoneLector(h, [fase |-> "leer"])
  /\ UNCHANGED <<reloj, desde, enCache, sinAviso>>

LeerFilas(h) ==
  /\ lector[h].fase = "leer"
  /\ PoneLector(h, [fase |-> "guardar", version |-> Version, leido |-> reloj])
  /\ UNCHANGED <<reloj, desde, enCache, sinAviso>>

\* cache.set, whatever was committed or invalidated since the rows were read
GuardarFilas(h) ==
  /\ lector[h].fase = "guardar"
  /\ enCache' = {[version |-> lector[h].version, expira |-> reloj + VigenciaCatalogo]}
  /\ PoneLector(h, Quieto)
  /\ UNCHANGED <<reloj, desde, sinAviso>>

------------------------------------------------------------------------------
(* CreatePublicacion, UpdatePublicacion, DeletePublicacion, CreateOrder *)

Confirma == Version < MaxVersiones /\ desde' = Append(desde, reloj)

ConfirmarCambio(h) ==
  /\ lector[h] = Quieto
  /\ Confirma
  /\ PoneLector(h, [fase |-> "invalidar"])
  /\ UNCHANGED <<reloj, enCache, sinAviso>>

\* invalidate_catalog_cache
InvalidarCatalogo(h) ==
  /\ lector[h].fase = "invalidar"
  /\ enCache' = {}
  /\ PoneLector(h, Quieto)
  /\ UNCHANGED <<reloj, desde, sinAviso>>

\* The deletion of an account deletes its publications and invalidates nothing.
CambioSinAviso ==
  /\ sinAviso < MaxSinAviso
  /\ Confirma
  /\ sinAviso' = sinAviso + 1
  /\ UNCHANGED <<reloj, enCache, lector>>

\* Redis is down, or the process is killed, before the deletion of the key.
MorirSinInvalidar(h) ==
  /\ lector[h].fase = "invalidar"
  /\ sinAviso < MaxSinAviso
  /\ sinAviso' = sinAviso + 1
  /\ PoneLector(h, Quieto)
  /\ UNCHANGED <<reloj, desde, enCache>>

\* Time passes, but no reader takes longer than Demora to store what it read.
TiempoCatalogo ==
  /\ PasaElTiempo
  /\ \A h \in Hilos : lector[h].fase = "guardar" => reloj - lector[h].leido < Demora
  /\ UNCHANGED <<desde, enCache, lector, sinAviso>>

------------------------------------------------------------------------------

InitCatalogo ==
  /\ reloj = 0
  /\ desde = <<0>>
  /\ enCache = {}
  /\ lector = [h \in Hilos |-> Quieto]
  /\ sinAviso = 0

PasoCatalogo(h) ==
  \/ MirarCatalogo(h)
  \/ LeerFilas(h)
  \/ GuardarFilas(h)
  \/ ConfirmarCambio(h)
  \/ InvalidarCatalogo(h)
  \/ MorirSinInvalidar(h)

NextCatalogo ==
  \/ \E h \in Hilos : PasoCatalogo(h)
  \/ CambioSinAviso
  \/ TiempoCatalogo

SpecCatalogo == InitCatalogo /\ [][NextCatalogo]_varsCatalogo

------------------------------------------------------------------------------
(* Properties *)

TypeOKCatalogo ==
  /\ reloj \in Nat
  /\ desde \in Seq(Nat)
  /\ enCache \in SUBSET [version : Nat \ {0}, expira : Int]
  /\ lector \in [Hilos -> Lector0]
  /\ sinAviso \in Nat

\* Version v was still the current one at time t.
VigenteEn(v, t) == v = Version \/ (v < Version /\ desde[v + 1] >= t)

\* What the cache answers was true at most the time to live and one slow read
\* ago, whatever readers and writers did in between: reading and storing again
\* never extends the life of rows that are out of date, even when nobody
\* invalidates the key.
CatalogoFresco ==
  \A e \in enCache : reloj <= e.expira => VigenteEn(e.version, reloj - VigenciaCatalogo - Demora)
=============================================================================
