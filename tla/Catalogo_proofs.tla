--------------------------- MODULE Catalogo_proofs ---------------------------
(***************************************************************************)
(* Theorems about what the market offers and what it is paid, for any      *)
(* threads, rows, times, retries and failures: how old the cached listing  *)
(* may be (Catalogo), where every publication is found and which rows of   *)
(* Ubicacion are left to nobody (Publicaciones), how many weeks count a    *)
(* delivery (Jornadas), and the charges, their transactions and notices    *)
(* (Pagos).                                                                *)
(***************************************************************************)
EXTENDS Catalogo, Publicaciones, Jornadas, Pagos, Conteo, SequenceTheorems

------------------------------------------------------------------------------
(* The listing: the inductive invariant *)

USE ConstantesReloj, ConstantesCatalogo

\* No version was committed in the future.
DesdeAntes == Version > 0 /\ \A i \in 1 .. Version : desde[i] <= reloj

\* Rows about to be stored were current when they were read, a moment ago.
LectoresVigentes ==
  \A h \in Hilos : lector[h].fase = "guardar" =>
    /\ lector[h].leido <= reloj /\ reloj - lector[h].leido <= Demora
    /\ VigenteEn(lector[h].version, lector[h].leido)

\* What is stored was current a time to live and a delay before it expires.
EntradasVigentes ==
  \A e \in enCache :
    /\ e.expira <= reloj + VigenciaCatalogo
    /\ VigenteEn(e.version, e.expira - VigenciaCatalogo - Demora)

IInvCatalogo == TypeOKCatalogo /\ DesdeAntes /\ LectoresVigentes /\ EntradasVigentes

------------------------------------------------------------------------------
(* Lemmas *)

LEMMA Lectores ==
  /\ \A f \in {"quieto", "leer", "invalidar"} : [fase |-> f] \in Lector0
  /\ \A v \in Nat \ {0}, t \in Nat : [fase |-> "guardar", version |-> v, leido |-> t] \in Lector0
BY DEF Lector0

LEMMA EsGuardar ==
  ASSUME NEW l \in Lector0, l.fase = "guardar"
  PROVE  l.version \in Nat \ {0} /\ l.leido \in Nat
BY DEF Lector0

\* What was current at a time was current before it.
LEMMA VigenteAntes ==
  ASSUME TypeOKCatalogo, NEW v \in Nat \ {0}, NEW t \in Int, NEW s \in Int, s <= t,
         VigenteEn(v, t)
  PROVE  VigenteEn(v, s)
<1>1. Version \in Nat
  BY DEF TypeOKCatalogo, Version
<1>2. CASE v < Version
  <2>1. desde[v + 1] \in Nat
    BY <1>1, <1>2 DEF TypeOKCatalogo, Version
  <2> QED BY <1>1, <1>2, <2>1 DEF VigenteEn
<1> QED BY <1>1, <1>2 DEF VigenteEn

\* A commit now makes nothing out of date that was read until now.
LEMMA VigenteTrasConfirmar ==
  ASSUME TypeOKCatalogo, DesdeAntes, Confirma
  PROVE  /\ desde' \in Seq(Nat)
         /\ Version' = Version + 1
         /\ \A i \in 1 .. Version' : desde'[i] <= reloj
         /\ \A v \in Nat \ {0}, t \in Int :
              t <= reloj /\ VigenteEn(v, t) => VigenteEn(v, t)'
<1>1. /\ desde \in Seq(Nat) /\ reloj \in Nat /\ desde' = Append(desde, reloj)
      /\ Version = Len(desde) /\ Version \in Nat
  BY DEF TypeOKCatalogo, Confirma, Version
<1>2. /\ desde' \in Seq(Nat)
      /\ Version' = Version + 1
      /\ \A i \in 1 .. Version : desde'[i] = desde[i]
      /\ desde'[Version + 1] = reloj
  BY <1>1, AppendProperties DEF Version
<1>3. \A i \in 1 .. Version' : desde'[i] <= reloj
  BY <1>1, <1>2 DEF DesdeAntes
<1>4. ASSUME NEW v \in Nat \ {0}, NEW t \in Int, t <= reloj, VigenteEn(v, t)
      PROVE  VigenteEn(v, t)'
  <2>1. CASE v = Version
    BY <1>1, <1>2, <1>4, <2>1 DEF VigenteEn
  <2>2. CASE v < Version /\ desde[v + 1] >= t
    <3>1. v + 1 \in 1 .. Version
      BY <1>1, <2>2
    <3> QED BY <1>1, <1>2, <2>2, <3>1 DEF VigenteEn
  <2> QED BY <1>4, <2>1, <2>2 DEF VigenteEn
<1> QED BY <1>2, <1>3, <1>4

\* The bounds of an entry and of what a reader holds are integers.
LEMMA EntradaTipada ==
  ASSUME TypeOKCatalogo, NEW e \in enCache
  PROVE  e.version \in Nat \ {0} /\ e.expira \in Int
BY DEF TypeOKCatalogo

------------------------------------------------------------------------------
(* Every step preserves the invariant *)

\* Steps that leave rows, clock and cache alone, and whose thread is not about to store.
LEMMA PasoSoloLector ==
  ASSUME IInvCatalogo, NEW h \in Hilos, NEW f \in {"quieto", "leer", "invalidar"},
         PoneLector(h, [fase |-> f]), sinAviso' \in Nat, UNCHANGED <<reloj, desde>>,
         enCache' = enCache \/ enCache' = {}
  PROVE  IInvCatalogo'
<1>1. TypeOKCatalogo'
  BY Lectores DEF IInvCatalogo, TypeOKCatalogo, PoneLector
<1>2. LectoresVigentes'
  <2> SUFFICES ASSUME NEW g \in Hilos, lector'[g].fase = "guardar"
               PROVE  /\ lector'[g].leido <= reloj' /\ reloj' - lector'[g].leido <= Demora
                      /\ VigenteEn(lector[g].version, lector[g].leido)'
    BY DEF LectoresVigentes
  <2>1. lector'[g] = lector[g]
    BY DEF IInvCatalogo, TypeOKCatalogo, PoneLector
  <2> QED BY <2>1 DEF IInvCatalogo, LectoresVigentes, VigenteEn, Version
<1>3. DesdeAntes' /\ EntradasVigentes'
  BY DEF IInvCatalogo, DesdeAntes, EntradasVigentes, VigenteEn, Version
<1> QED BY <1>1, <1>2, <1>3 DEF IInvCatalogo

LEMMA PasoLeerFilas ==
  ASSUME IInvCatalogo, NEW h \in Hilos, LeerFilas(h)
  PROVE  IInvCatalogo'
<1>1. /\ lector' = [lector EXCEPT ![h] = [fase |-> "guardar", version |-> Version, leido |-> reloj]]
      /\ UNCHANGED <<reloj, desde, enCache, sinAviso>>
  BY DEF LeerFilas, PoneLector
<1>2. Version \in Nat \ {0} /\ reloj \in Nat /\ lector \in [Hilos -> Lector0]
  BY DEF IInvCatalogo, TypeOKCatalogo, DesdeAntes, Version
<1>3. TypeOKCatalogo'
  BY <1>1, <1>2, Lectores DEF IInvCatalogo, TypeOKCatalogo
<1>4. LectoresVigentes'
  <2> SUFFICES ASSUME NEW g \in Hilos, lector'[g].fase = "guardar"
               PROVE  /\ lector'[g].leido <= reloj' /\ reloj' - lector'[g].leido <= Demora
                      /\ VigenteEn(lector[g].version, lector[g].leido)'
    BY DEF LectoresVigentes
  <2>1. CASE g = h
    BY <1>1, <1>2, <2>1 DEF VigenteEn, Version
  <2>2. CASE g # h
    <3>1. lector'[g] = lector[g]
      BY <1>1, <1>2, <2>2
    <3> QED BY <1>1, <3>1 DEF IInvCatalogo, LectoresVigentes, VigenteEn, Version
  <2> QED BY <2>1, <2>2
<1>5. DesdeAntes' /\ EntradasVigentes'
  BY <1>1 DEF IInvCatalogo, DesdeAntes, EntradasVigentes, VigenteEn, Version
<1> QED BY <1>3, <1>4, <1>5 DEF IInvCatalogo

LEMMA PasoGuardarFilas ==
  ASSUME IInvCatalogo, NEW h \in Hilos, GuardarFilas(h)
  PROVE  IInvCatalogo'
<1> DEFINE e == [version |-> lector[h].version, expira |-> reloj + VigenciaCatalogo]
<1>1. /\ lector' = [lector EXCEPT ![h] = Quieto]
      /\ enCache' = {e}
      /\ UNCHANGED <<reloj, desde, sinAviso>>
  BY DEF GuardarFilas, PoneLector
<1>2. /\ lector[h].version \in Nat \ {0} /\ lector[h].leido \in Nat
      /\ reloj - lector[h].leido <= Demora /\ reloj \in Nat
      /\ VigenteEn(lector[h].version, lector[h].leido)
  BY EsGuardar DEF IInvCatalogo, TypeOKCatalogo, LectoresVigentes, GuardarFilas
<1>3. e \in [version : Nat \ {0}, expira : Int]
  BY <1>2
<1>4. TypeOKCatalogo'
  BY <1>1, <1>3, Lectores DEF IInvCatalogo, TypeOKCatalogo, Quieto
<1>5. VigenteEn(e.version, e.expira - VigenciaCatalogo - Demora)
  BY <1>2, VigenteAntes DEF IInvCatalogo
<1>6. EntradasVigentes'
  <2> SUFFICES ASSUME NEW x \in enCache'
               PROVE  /\ x.expira <= reloj' + VigenciaCatalogo
                      /\ VigenteEn(x.version, x.expira - VigenciaCatalogo - Demora)'
    BY DEF EntradasVigentes
  <2>1. x = e
    BY <1>1
  <2> HIDE DEF e
  <2>2. VigenteEn(e.version, e.expira - VigenciaCatalogo - Demora) =>
          e.version = Len(desde) \/ (e.version < Len(desde) /\ desde[e.version + 1] >= e.expira - VigenciaCatalogo - Demora)
    BY DEF VigenteEn, Version
  <2>3. e.expira = reloj + VigenciaCatalogo
    BY DEF e
  <2> QED BY <1>1, <1>2, <1>5, <2>1, <2>2, <2>3 DEF VigenteEn, Version
<1>7. LectoresVigentes'
  <2> SUFFICES ASSUME NEW g \in Hilos, lector'[g].fase = "guardar"
               PROVE  /\ lector'[g].leido <= reloj' /\ reloj' - lector'[g].leido <= Demora
                      /\ VigenteEn(lector[g].version, lector[g].leido)'
    BY DEF LectoresVigentes
  <2>1. lector'[g] = lector[g]
    BY <1>1 DEF IInvCatalogo, TypeOKCatalogo, Quieto
  <2> QED BY <1>1, <2>1 DEF IInvCatalogo, LectoresVigentes, VigenteEn, Version
<1>8. DesdeAntes'
  BY <1>1 DEF IInvCatalogo, DesdeAntes, Version
<1> QED BY <1>4, <1>6, <1>7, <1>8 DEF IInvCatalogo

\* A commit, by a thread that goes on to invalidate the key or by nobody.
LEMMA PasoConfirma ==
  ASSUME IInvCatalogo, Confirma, reloj' = reloj, enCache' = enCache, sinAviso' \in Nat,
         lector' \in [Hilos -> Lector0],
         \A g \in Hilos : lector'[g] = lector[g] \/ lector'[g].fase # "guardar"
  PROVE  IInvCatalogo'
<1>1. /\ desde' \in Seq(Nat) /\ Version' = Version + 1 /\ Version \in Nat /\ reloj \in Nat
      /\ \A i \in 1 .. Version' : desde'[i] <= reloj
      /\ \A v \in Nat \ {0}, t \in Int : t <= reloj /\ VigenteEn(v, t) => VigenteEn(v, t)'
  BY VigenteTrasConfirmar DEF IInvCatalogo, TypeOKCatalogo, Version
<1>2. TypeOKCatalogo'
  BY <1>1 DEF IInvCatalogo, TypeOKCatalogo
<1>3. DesdeAntes'
  BY <1>1 DEF DesdeAntes
<1>4. LectoresVigentes'
  <2> SUFFICES ASSUME NEW g \in Hilos, lector'[g].fase = "guardar"
               PROVE  /\ lector'[g].leido <= reloj' /\ reloj' - lector'[g].leido <= Demora
                      /\ VigenteEn(lector[g].version, lector[g].leido)'
    BY DEF LectoresVigentes
  <2>1. lector'[g] = lector[g]
    OBVIOUS
  <2>2. lector[g].version \in Nat \ {0} /\ lector[g].leido \in Nat
    BY <2>1, EsGuardar DEF IInvCatalogo, TypeOKCatalogo
  <2>3. /\ lector[g].leido <= reloj /\ reloj - lector[g].leido <= Demora
        /\ VigenteEn(lector[g].version, lector[g].leido)
    BY <2>1 DEF IInvCatalogo, LectoresVigentes
  <2>4. PICK v \in Nat \ {0}, t \in Nat : v = lector[g].version /\ t = lector[g].leido
    BY <2>2
  <2>5. VigenteEn(v, t)'
    BY <1>1, <2>3, <2>4
  <2> QED BY <2>1, <2>3, <2>4, <2>5 DEF VigenteEn, Version
<1>5. EntradasVigentes'
  <2> SUFFICES ASSUME NEW e \in enCache
               PROVE  /\ e.expira <= reloj' + VigenciaCatalogo
                      /\ VigenteEn(e.version, e.expira - VigenciaCatalogo - Demora)'
    BY DEF EntradasVigentes
  <2>1. e.version \in Nat \ {0} /\ e.expira \in Int
    BY EntradaTipada DEF IInvCatalogo
  <2>2. /\ e.expira <= reloj + VigenciaCatalogo
        /\ VigenteEn(e.version, e.expira - VigenciaCatalogo - Demora)
    BY DEF IInvCatalogo, EntradasVigentes
  <2>3. /\ e.expira - VigenciaCatalogo - Demora \in Int
        /\ e.expira - VigenciaCatalogo - Demora <= reloj
    BY <1>1, <2>1, <2>2
  <2> QED BY <1>1, <2>1, <2>2, <2>3
<1> QED BY <1>2, <1>3, <1>4, <1>5 DEF IInvCatalogo

LEMMA PasoTiempoCatalogo ==
  ASSUME IInvCatalogo, TiempoCatalogo
  PROVE  IInvCatalogo'
<1>1. /\ reloj' = reloj + 1 /\ reloj \in Nat
      /\ UNCHANGED <<desde, enCache, lector, sinAviso>>
      /\ \A h \in Hilos : lector[h].fase = "guardar" => reloj - lector[h].leido < Demora
  BY DEF TiempoCatalogo, PasaElTiempo, IInvCatalogo, TypeOKCatalogo
<1>2. TypeOKCatalogo'
  BY <1>1 DEF IInvCatalogo, TypeOKCatalogo
<1>3. DesdeAntes'
  <2>1. Version \in Nat /\ Version' = Version /\ \A i \in 1 .. Version : desde[i] \in Nat
    BY <1>1 DEF IInvCatalogo, TypeOKCatalogo, Version
  <2> QED BY <1>1, <2>1 DEF IInvCatalogo, DesdeAntes
<1>4. LectoresVigentes'
  <2> SUFFICES ASSUME NEW h \in Hilos, lector[h].fase = "guardar"
               PROVE  /\ lector[h].leido <= reloj' /\ reloj' - lector[h].leido <= Demora
                      /\ VigenteEn(lector[h].version, lector[h].leido)'
    BY <1>1 DEF LectoresVigentes
  <2>1. lector[h].leido \in Nat
    BY EsGuardar DEF IInvCatalogo, TypeOKCatalogo
  <2> QED BY <1>1, <2>1 DEF IInvCatalogo, LectoresVigentes, VigenteEn, Version
<1>5. EntradasVigentes'
  <2> SUFFICES ASSUME NEW e \in enCache
               PROVE  /\ e.expira <= reloj' + VigenciaCatalogo
                      /\ VigenteEn(e.version, e.expira - VigenciaCatalogo - Demora)'
    BY <1>1 DEF EntradasVigentes
  <2>1. e.expira \in Int
    BY EntradaTipada DEF IInvCatalogo
  <2> QED BY <1>1, <2>1 DEF IInvCatalogo, EntradasVigentes, VigenteEn, Version
<1> QED BY <1>2, <1>3, <1>4, <1>5 DEF IInvCatalogo

LEMMA InicioCatalogo == InitCatalogo => IInvCatalogo
<1> SUFFICES ASSUME InitCatalogo PROVE IInvCatalogo
  OBVIOUS
<1>1. Version = 1 /\ desde \in Seq(Nat) /\ desde[1] = 0
  BY DEF InitCatalogo, Version
<1>2. TypeOKCatalogo
  BY <1>1, Lectores DEF InitCatalogo, TypeOKCatalogo, Quieto
<1>3. DesdeAntes
  BY <1>1 DEF InitCatalogo, DesdeAntes
<1>4. LectoresVigentes /\ EntradasVigentes
  BY DEF InitCatalogo, LectoresVigentes, EntradasVigentes, Quieto
<1> QED BY <1>2, <1>3, <1>4 DEF IInvCatalogo

LEMMA PasoCatalogoTodo == IInvCatalogo /\ [NextCatalogo]_varsCatalogo => IInvCatalogo'
<1> SUFFICES ASSUME IInvCatalogo, [NextCatalogo]_varsCatalogo PROVE IInvCatalogo'
  OBVIOUS
<1>1. sinAviso \in Nat /\ lector \in [Hilos -> Lector0]
  BY DEF IInvCatalogo, TypeOKCatalogo
<1>2. ASSUME NEW h \in Hilos, PasoCatalogo(h) PROVE IInvCatalogo'
  <2>1. CASE MirarCatalogo(h)
    BY <1>1, <2>1, PasoSoloLector DEF MirarCatalogo
  <2>2. CASE InvalidarCatalogo(h)
    BY <1>1, <2>2, PasoSoloLector DEF InvalidarCatalogo, Quieto
  <2>3. CASE MorirSinInvalidar(h)
    BY <1>1, <2>3, PasoSoloLector DEF MorirSinInvalidar, Quieto
  <2>4. CASE ConfirmarCambio(h)
    <3>1. /\ lector' = [lector EXCEPT ![h] = [fase |-> "invalidar"]]
          /\ UNCHANGED <<reloj, enCache, sinAviso>>
      BY <2>4 DEF ConfirmarCambio, PoneLector
    <3>2. /\ lector' \in [Hilos -> Lector0]
          /\ \A g \in Hilos : lector'[g] = lector[g] \/ lector'[g].fase # "guardar"
      BY <1>1, <3>1, Lectores
    <3> QED BY <1>1, <2>4, <3>1, <3>2, PasoConfirma DEF ConfirmarCambio
  <2> QED BY <1>2, <2>1, <2>2, <2>3, <2>4, PasoLeerFilas, PasoGuardarFilas DEF PasoCatalogo
<1>3. CASE CambioSinAviso
  BY <1>1, <1>3, PasoConfirma DEF CambioSinAviso
<1>4. CASE UNCHANGED varsCatalogo
  BY <1>4 DEF varsCatalogo, IInvCatalogo, TypeOKCatalogo, DesdeAntes, LectoresVigentes,
              EntradasVigentes, VigenteEn, Version
<1> QED BY <1>2, <1>3, <1>4, PasoTiempoCatalogo DEF NextCatalogo

------------------------------------------------------------------------------
(* Theorems *)

\* The inductive invariant holds in every behaviour.
THEOREM InvarianteCatalogo == SpecCatalogo => []IInvCatalogo
BY InicioCatalogo, PasoCatalogoTodo, PTL DEF SpecCatalogo

\* The listing, its cache and its readers keep their types.
THEOREM TiposCatalogo == SpecCatalogo => []TypeOKCatalogo
<1>1. IInvCatalogo => TypeOKCatalogo
  BY DEF IInvCatalogo
<1> QED BY <1>1, InvarianteCatalogo, PTL

\* The catalogue that PublicacionListCreateAPIView answers from the cache was true
\* at most the time to live and one slow read ago, invalidated or not.
THEOREM Fresco == SpecCatalogo => []CatalogoFresco
<1>1. IInvCatalogo => CatalogoFresco
  <2> SUFFICES ASSUME IInvCatalogo, NEW e \in enCache, reloj <= e.expira
               PROVE  VigenteEn(e.version, reloj - VigenciaCatalogo - Demora)
    BY DEF CatalogoFresco
  <2>1. e.version \in Nat \ {0} /\ e.expira \in Int /\ reloj \in Nat
    BY EntradaTipada DEF IInvCatalogo, TypeOKCatalogo
  <2>2. /\ reloj - VigenciaCatalogo - Demora \in Int
        /\ e.expira - VigenciaCatalogo - Demora \in Int
        /\ reloj - VigenciaCatalogo - Demora <= e.expira - VigenciaCatalogo - Demora
    BY <2>1
  <2>3. VigenteEn(e.version, e.expira - VigenciaCatalogo - Demora)
    BY DEF IInvCatalogo, EntradasVigentes
  <2> QED BY <2>1, <2>2, <2>3, VigenteAntes DEF IInvCatalogo
<1> QED BY <1>1, InvarianteCatalogo, PTL

HIDE ConstantesCatalogo

------------------------------------------------------------------------------
(* The publications: the inductive invariant *)

USE ConstantesPub

Tiene(h, l) == gestion[h].fase \in {"publicar", "borrar", "huerfana"} /\ gestion[h].lugar = l

\* Rows of Ubicacion that no publication has and no request will remove.
Sueltos == {l \in Lugares : lugar[l].fila = "viva" /\ ~Publicado(l) /\ ~EnCurso(l)}

SueltosAcotados == IsFiniteSet(Sueltos) /\ Cardinality(Sueltos) <= bajasPub

Ubicado(a) ==
  /\ Viva(a) => \E l \in Lugares, p \in Puntos :
                  /\ anuncio[a].lugar = {l} /\ puesto[a] = {p}
                  /\ lugar[l].fila = "viva" /\ lugar[l].punto = {p}
  /\ \A l \in anuncio[a].lugar : lugar[l].fila # "libre"

\* A place about to be published is nobody else's; one about to be removed is
\* all that its publication had.
Gestionado(h) ==
  /\ gestion[h].fase = "publicar"
     => /\ lugar[gestion[h].lugar].fila = "viva" /\ lugar[gestion[h].lugar].punto = {gestion[h].punto}
        /\ \A a \in Anuncios : gestion[h].lugar \notin anuncio[a].lugar
        /\ \A g \in HilosPub : g # h => ~Tiene(g, gestion[h].lugar)
  /\ gestion[h].fase = "borrar"
     => /\ lugar[gestion[h].lugar].fila # "libre" /\ anuncio[gestion[h].anuncio].fila # "libre"
        /\ anuncio[gestion[h].anuncio].lugar \subseteq {gestion[h].lugar}
  /\ gestion[h].fase = "huerfana" => lugar[gestion[h].lugar].fila # "libre"

IInvPub ==
  /\ TypeOKPub
  /\ \A a \in Anuncios : Ubicado(a)
  /\ \A h \in HilosPub : Gestionado(h)
  /\ SueltosAcotados

LEMMA LasGestiones ==
  /\ SinGestion \in Gestiones /\ SinGestion.fase = "quieto"
  /\ \A p \in Puntos :
       LET t == [fase |-> "ubicar", punto |-> p] IN t \in Gestiones /\ t.fase = "ubicar" /\ t.punto = p
  /\ \A p \in Puntos, l \in Lugares :
       LET t == [fase |-> "publicar", punto |-> p, lugar |-> l]
       IN t \in Gestiones /\ t.fase = "publicar" /\ t.punto = p /\ t.lugar = l
  /\ \A a \in Anuncios, e \in {"ACTIVA", "PAUSADA"} :
       LET t == [fase |-> "editar", anuncio |-> a, estado |-> e]
       IN t \in Gestiones /\ t.fase = "editar" /\ t.anuncio = a /\ t.estado = e
  /\ \A a \in Anuncios, l \in Lugares :
       LET t == [fase |-> "borrar", anuncio |-> a, lugar |-> l]
       IN t \in Gestiones /\ t.fase = "borrar" /\ t.anuncio = a /\ t.lugar = l
  /\ \A l \in Lugares :
       LET t == [fase |-> "huerfana", lugar |-> l] IN t \in Gestiones /\ t.fase = "huerfana" /\ t.lugar = l
BY DEF SinGestion, Gestiones

LEMMA EsGestion ==
  ASSUME NEW t \in Gestiones
  PROVE  /\ t.fase \in {"ubicar", "publicar"} => t.punto \in Puntos
         /\ t.fase \in {"publicar", "borrar", "huerfana"} => t.lugar \in Lugares
         /\ t.fase \in {"editar", "borrar"} => t.anuncio \in Anuncios
         /\ t.fase = "editar" => t.estado \in {"ACTIVA", "PAUSADA"}
BY DEF Gestiones

LEMMA TrasGestionar ==
  ASSUME TypeOKPub, NEW h \in HilosPub, NEW t \in Gestiones, Gestiona(h, t)
  PROVE  /\ gestion' \in [HilosPub -> Gestiones] /\ gestion'[h] = t
         /\ \A g \in HilosPub : g # h => gestion'[g] = gestion[g] /\ \A l : Tiene(g, l)' <=> Tiene(g, l)
BY DEF TypeOKPub, Gestiona, Tiene

LEMMA LosSueltos ==
  /\ \A l \in Lugares : l \in Sueltos <=> lugar[l].fila = "viva" /\ ~Publicado(l) /\ \A h \in HilosPub : ~Tiene(h, l)
  /\ \A l \in Lugares : l \in Sueltos' <=> lugar'[l].fila = "viva" /\ ~Publicado(l)' /\ \A h \in HilosPub : ~Tiene(h, l)'
BY DEF Sueltos, EnCurso, Tiene

LEMMA NingunoMasSuelto ==
  ASSUME IInvPub, Sueltos' \subseteq Sueltos, bajasPub' = bajasPub
  PROVE  SueltosAcotados'
<1>1. IsFiniteSet(Sueltos) /\ Cardinality(Sueltos) <= bajasPub /\ bajasPub \in Nat
  BY DEF IInvPub, SueltosAcotados, TypeOKPub
<1>2. IsFiniteSet(Sueltos') /\ Cardinality(Sueltos') \in Nat /\ Cardinality(Sueltos) \in Nat
      /\ Cardinality(Sueltos') <= Cardinality(Sueltos)
  BY <1>1, Parte
<1> QED BY <1>1, <1>2 DEF SueltosAcotados

LEMMA UnoMasSuelto ==
  ASSUME IInvPub, NEW l, Sueltos' \subseteq Sueltos \cup {l}, bajasPub' = bajasPub + 1
  PROVE  SueltosAcotados'
<1>1. IsFiniteSet(Sueltos) /\ Cardinality(Sueltos) <= bajasPub /\ bajasPub \in Nat
  BY DEF IInvPub, SueltosAcotados, TypeOKPub
<1>2. IsFiniteSet(Sueltos') /\ Cardinality(Sueltos') \in Nat /\ Cardinality(Sueltos) \in Nat
      /\ Cardinality(Sueltos') <= Cardinality(Sueltos) + 1
  BY <1>1, ConUnaMas
<1> QED BY <1>1, <1>2 DEF SueltosAcotados

\* What a thread is doing holds while no row that it is about changes.
LEMMA SigueGestionado ==
  ASSUME IInvPub, NEW g \in HilosPub, gestion'[g] = gestion[g],
         \A l \in Lugares : Tiene(g, l) => /\ lugar'[l].fila = lugar[l].fila \/ (gestion[g].fase # "publicar" /\ lugar'[l].fila # "libre")
                                           /\ lugar'[l].punto = lugar[l].punto,
         \A l : gestion[g].fase = "publicar" /\ gestion[g].lugar = l
                  => /\ \A a \in Anuncios : anuncio'[a].lugar \subseteq anuncio[a].lugar \cup (Lugares \ {l})
                     /\ \A h \in HilosPub : h # g => ~Tiene(h, l)',
         \A a \in Anuncios : anuncio[a].fila # "libre" => anuncio'[a].fila # "libre" /\ anuncio'[a].lugar \subseteq anuncio[a].lugar
  PROVE  Gestionado(g)'
<1>0. PICK t : t = gestion[g] /\ t = gestion'[g] /\ t \in Gestiones
  BY DEF IInvPub, TypeOKPub
<1>1. Gestionado(g)
  BY DEF IInvPub
<1>2. CASE t.fase = "publicar"
  <2>1. t.lugar \in Lugares /\ Tiene(g, t.lugar)
    BY <1>0, <1>2, EsGestion DEF Tiene
  <2>2. lugar'[t.lugar].fila = "viva" /\ lugar'[t.lugar].punto = {t.punto}
    BY <1>0, <1>1, <1>2, <2>1 DEF Gestionado
  <2>3. \A a \in Anuncios : t.lugar \notin anuncio'[a].lugar
    BY <1>0, <1>1, <1>2 DEF Gestionado
  <2>4. PICK l : l = t.lugar
    OBVIOUS
  <2>5. \A h \in HilosPub : h # g => ~Tiene(h, l)'
    BY <1>0, <1>2, <2>4
  <2> QED BY <1>0, <1>2, <2>2, <2>3, <2>4, <2>5 DEF Gestionado, Tiene
<1>3. CASE t.fase = "borrar"
  <2>1. t.lugar \in Lugares /\ Tiene(g, t.lugar) /\ t.anuncio \in Anuncios
    BY <1>0, <1>3, EsGestion DEF Tiene
  <2>2. lugar'[t.lugar].fila # "libre" /\ anuncio'[t.anuncio].fila # "libre" /\ anuncio'[t.anuncio].lugar \subseteq {t.lugar}
    BY <1>0, <1>1, <1>3, <2>1 DEF Gestionado
  <2> QED BY <1>0, <1>3, <2>2 DEF Gestionado
<1>4. CASE t.fase = "huerfana"
  <2>1. t.lugar \in Lugares /\ Tiene(g, t.lugar)
    BY <1>0, <1>4, EsGestion DEF Tiene
  <2>2. lugar'[t.lugar].fila # "libre"
    BY <1>0, <1>1, <1>4, <2>1 DEF Gestionado
  <2> QED BY <1>0, <1>4, <2>2 DEF Gestionado
<1>5. CASE t.fase \notin {"publicar", "borrar", "huerfana"}
  BY <1>0, <1>5 DEF Gestionado
<1> QED BY <1>2, <1>3, <1>4, <1>5

\* A step that leaves the rows alone and takes up no row that was in course.
LEMMA PasoSinFilas ==
  ASSUME IInvPub, NEW h \in HilosPub, NEW t \in Gestiones, Gestiona(h, t),
         UNCHANGED <<anuncio, lugar, puesto>>,
         t.fase \in {"quieto", "ubicar", "editar"}
         \/ /\ t.fase = "borrar" /\ t.lugar \in Lugares /\ lugar[t.lugar].fila # "libre" /\ anuncio[t.anuncio].fila # "libre"
            /\ anuncio[t.anuncio].lugar = {t.lugar} /\ t.anuncio \in Anuncios
  PROVE  /\ \A a \in Anuncios : Ubicado(a)'
         /\ \A g \in HilosPub : Gestionado(g)'
         /\ bajasPub' \in Nat => TypeOKPub'
         /\ gestion'[h] = t /\ \A g \in HilosPub : g # h => gestion'[g] = gestion[g] /\ \A l : Tiene(g, l)' <=> Tiene(g, l)
<1>1. TypeOKPub
  BY DEF IInvPub
<1>2. /\ gestion' \in [HilosPub -> Gestiones] /\ gestion'[h] = t
      /\ \A g \in HilosPub : g # h => gestion'[g] = gestion[g] /\ \A l : Tiene(g, l)' <=> Tiene(g, l)
  BY <1>1, TrasGestionar
<1>3. \A a \in Anuncios : Ubicado(a)'
  BY DEF IInvPub, Ubicado, Viva
<1>4. \A l : Tiene(h, l)' => t.fase = "borrar" /\ t.lugar = l
  BY <1>2 DEF Tiene
<1>5. ASSUME NEW g \in HilosPub PROVE Gestionado(g)'
  <2>1. CASE g = h
    BY <1>2, <2>1 DEF Gestionado
  <2>2. CASE g # h
    <3>1. gestion'[g] = gestion[g]
      BY <1>2, <2>2
    <3>2. ASSUME NEW m, gestion[g].fase = "publicar", gestion[g].lugar = m, NEW k \in HilosPub, k # g
          PROVE  ~Tiene(k, m)'
      <4>1. /\ \A a \in Anuncios : m \notin anuncio[a].lugar
            /\ ~Tiene(k, m)
        BY <3>2 DEF IInvPub, Gestionado
      <4>2. CASE k = h
        BY <1>4, <4>1, <4>2
      <4>3. CASE k # h
        BY <1>2, <4>1, <4>3
      <4> QED BY <4>2, <4>3
    <3>3. \A m : gestion[g].fase = "publicar" /\ gestion[g].lugar = m
                   => /\ \A a \in Anuncios : anuncio'[a].lugar \subseteq anuncio[a].lugar \cup (Lugares \ {m})
                      /\ \A k \in HilosPub : k # g => ~Tiene(k, m)'
      BY <3>2
    <3> QED BY <3>1, <3>3, SigueGestionado
  <2> QED BY <2>1, <2>2
<1> QED BY <1>1, <1>2, <1>3, <1>5 DEF TypeOKPub

LEMMA PasosDeHilo ==
  ASSUME IInvPub, NEW h \in HilosPub,
         \/ \E p \in Puntos : ResolverLugar(h, p)
         \/ \E a \in Anuncios : LeerParaBorrar(h, a) \/ \E estado \in {"ACTIVA", "PAUSADA"} : LeerParaEditar(h, a, estado)
  PROVE  IInvPub'
<1> SUFFICES ASSUME NEW t \in Gestiones, Gestiona(h, t), gestion[h] = SinGestion,
                    UNCHANGED <<anuncio, lugar, puesto, bajasPub>>,
                    t.fase \in {"ubicar", "editar"}
                    \/ /\ t.fase = "borrar" /\ t.lugar \in Lugares /\ lugar[t.lugar].fila # "libre" /\ anuncio[t.anuncio].fila # "libre"
                       /\ anuncio[t.anuncio].lugar = {t.lugar} /\ t.anuncio \in Anuncios
             PROVE  IInvPub'
  <2>1. ASSUME NEW p \in Puntos, ResolverLugar(h, p) PROVE IInvPub'
    <3>1. [fase |-> "ubicar", punto |-> p] \in Gestiones /\ [fase |-> "ubicar", punto |-> p].fase = "ubicar"
      BY LasGestiones
    <3> QED BY <2>1, <3>1 DEF ResolverLugar
  <2>2. ASSUME NEW a \in Anuncios, NEW estado \in {"ACTIVA", "PAUSADA"}, LeerParaEditar(h, a, estado) PROVE IInvPub'
    <3> DEFINE t == [fase |-> "editar", anuncio |-> a, estado |-> estado]
    <3>1. t \in Gestiones /\ t.fase = "editar"
      BY LasGestiones
    <3>2. Gestiona(h, t) /\ gestion[h] = SinGestion /\ UNCHANGED <<anuncio, lugar, puesto, bajasPub>>
      BY <2>2 DEF LeerParaEditar
    <3> HIDE DEF t
    <3> QED BY <3>1, <3>2
  <2>3. ASSUME NEW a \in Anuncios, LeerParaBorrar(h, a) PROVE IInvPub'
    <3>1. PICK l \in anuncio[a].lugar : Gestiona(h, [fase |-> "borrar", anuncio |-> a, lugar |-> l])
      BY <2>3 DEF LeerParaBorrar
    <3> DEFINE t == [fase |-> "borrar", anuncio |-> a, lugar |-> l]
    <3>2. Viva(a) /\ gestion[h] = SinGestion /\ UNCHANGED <<anuncio, lugar, puesto, bajasPub>>
      BY <2>3 DEF LeerParaBorrar
    <3>3. anuncio[a].lugar = {l} /\ lugar[l].fila = "viva" /\ l \in Lugares
      BY <3>2 DEF IInvPub, Ubicado
    <3>4. t \in Gestiones /\ t.fase = "borrar" /\ t.anuncio = a /\ t.lugar = l
      BY <3>3, LasGestiones
    <3> HIDE DEF t
    <3>5. lugar[t.lugar].fila # "libre" /\ anuncio[t.anuncio].fila # "libre" /\ anuncio[t.anuncio].lugar = {t.lugar}
      BY <3>2, <3>3, <3>4 DEF Viva
    <3>6. Gestiona(h, t)
      BY <3>1 DEF t
    <3> QED BY <3>2, <3>3, <3>4, <3>5, <3>6
  <2> QED BY <2>1, <2>2, <2>3
<1>1. /\ \A a \in Anuncios : Ubicado(a)'
      /\ \A g \in HilosPub : Gestionado(g)'
      /\ bajasPub' \in Nat => TypeOKPub'
      /\ gestion'[h] = t /\ \A g \in HilosPub : g # h => gestion'[g] = gestion[g] /\ \A l : Tiene(g, l)' <=> Tiene(g, l)
  BY PasoSinFilas
<1>2. bajasPub' \in Nat
  BY DEF IInvPub, TypeOKPub
<1>3. \A g \in HilosPub : \A l : Tiene(g, l) => Tiene(g, l)'
  <2>1. \A l : ~Tiene(h, l)
    BY LasGestiones DEF Tiene
  <2> QED BY <1>1, <2>1
<1>4. Sueltos' \subseteq Sueltos
  <2>1. \A l : Publicado(l)' <=> Publicado(l)
    BY DEF Publicado, Viva
  <2>2. Sueltos' \subseteq Lugares
    BY DEF Sueltos
  <2> QED BY <1>3, <2>1, <2>2, LosSueltos
<1> QED BY <1>1, <1>2, <1>4, NingunoMasSuelto DEF IInvPub

LEMMA PasoCrearLugar ==
  ASSUME IInvPub, NEW h \in HilosPub, NEW l \in Lugares, CrearLugar(h, l)
  PROVE  IInvPub'
<1>0. PICK p : p = gestion[h].punto
  OBVIOUS
<1> DEFINE t == [fase |-> "publicar", punto |-> p, lugar |-> l]
           fila == [fila |-> "viva", punto |-> {p}]
<1>1. /\ gestion[h].fase = "ubicar" /\ lugar[l] = SinLugar /\ lugar' = [lugar EXCEPT ![l] = fila]
      /\ Gestiona(h, t) /\ UNCHANGED <<anuncio, puesto, bajasPub>>
  BY <1>0 DEF CrearLugar
<1>2. TypeOKPub /\ p \in Puntos
  BY <1>0, <1>1, EsGestion DEF IInvPub, TypeOKPub
<1>3. t \in Gestiones /\ t.fase = "publicar" /\ t.punto = p /\ t.lugar = l
  BY <1>2, LasGestiones
<1>4. /\ lugar' \in [Lugares -> [fila : Fila, punto : SUBSET Puntos]]
      /\ lugar'[l].fila = "viva" /\ lugar'[l].punto = {p}
      /\ \A m \in Lugares : m # l => lugar'[m] = lugar[m]
      /\ lugar[l].fila = "libre"
  BY <1>1, <1>2 DEF TypeOKPub, Fila, SinLugar
<1> HIDE DEF t, fila
<1>5. /\ gestion' \in [HilosPub -> Gestiones] /\ gestion'[h] = t
      /\ \A g \in HilosPub : g # h => gestion'[g] = gestion[g] /\ \A m : Tiene(g, m)' <=> Tiene(g, m)
  BY <1>1, <1>2, <1>3, TrasGestionar
<1>6. TypeOKPub'
  BY <1>1, <1>2, <1>4, <1>5 DEF TypeOKPub
<1>7. \A a \in Anuncios : l \notin anuncio[a].lugar
  BY <1>4 DEF IInvPub, Ubicado
<1>8. ASSUME NEW a \in Anuncios PROVE Ubicado(a)'
  <2>1. /\ Viva(a) => \E m \in Lugares, q \in Puntos :
                  /\ anuncio[a].lugar = {m} /\ puesto[a] = {q}
                  /\ lugar[m].fila = "viva" /\ lugar[m].punto = {q}
        /\ \A m \in anuncio[a].lugar : lugar[m].fila # "libre"
    BY DEF IInvPub, Ubicado
  <2>2. \A m \in anuncio[a].lugar : m \in Lugares /\ m # l
    BY <1>2, <1>7 DEF TypeOKPub
  <2>3. \A m \in anuncio[a].lugar : lugar'[m] = lugar[m]
    BY <1>4, <2>2
  <2>4. Viva(a)' <=> Viva(a)
    BY <1>1 DEF Viva
  <2> QED BY <1>1, <2>1, <2>3, <2>4 DEF Ubicado
<1>9. \A g \in HilosPub : ~Tiene(g, l)
  <2> SUFFICES ASSUME NEW g \in HilosPub, Tiene(g, l) PROVE FALSE
    OBVIOUS
  <2>1. lugar[l].fila # "libre"
    BY DEF Tiene, IInvPub, Gestionado
  <2> QED BY <1>4, <2>1
<1>10. ASSUME NEW g \in HilosPub PROVE Gestionado(g)'
  <2>1. CASE g = h
    <3>1. \A k \in HilosPub : k # h => ~Tiene(k, l)'
      BY <1>5, <1>9
    <3>2. \A a \in Anuncios : l \notin anuncio'[a].lugar
      BY <1>1, <1>7
    <3> QED BY <1>3, <1>4, <1>5, <2>1, <3>1, <3>2 DEF Gestionado, Tiene
  <2>2. CASE g # h
    <3>1. gestion'[g] = gestion[g] /\ ~Tiene(g, l)
      BY <1>5, <1>9, <2>2
    <3>2. ASSUME NEW m, gestion[g].fase = "publicar", gestion[g].lugar = m, NEW k \in HilosPub, k # g
          PROVE  ~Tiene(k, m)'
      <4>1. m # l /\ ~Tiene(k, m)
        BY <3>1, <3>2 DEF IInvPub, Gestionado, Tiene
      <4>2. CASE k = h
        BY <1>3, <1>5, <4>1, <4>2 DEF Tiene
      <4>3. CASE k # h
        BY <1>5, <4>1, <4>3
      <4> QED BY <4>2, <4>3
    <3>3. \A m : gestion[g].fase = "publicar" /\ gestion[g].lugar = m
                   => /\ \A a \in Anuncios : anuncio'[a].lugar \subseteq anuncio[a].lugar \cup (Lugares \ {m})
                      /\ \A k \in HilosPub : k # g => ~Tiene(k, m)'
      BY <1>1, <3>2
    <3>4. \A m \in Lugares : Tiene(g, m) => lugar'[m].fila = lugar[m].fila /\ lugar'[m].punto = lugar[m].punto
      BY <1>4, <3>1
    <3>5. \A a \in Anuncios : anuncio'[a] = anuncio[a]
      BY <1>1
    <3> QED BY <3>1, <3>3, <3>4, <3>5, SigueGestionado
  <2> QED BY <2>1, <2>2
<1>11. Sueltos' \subseteq Sueltos
  <2>1. \A m : Publicado(m)' <=> Publicado(m)
    BY <1>1 DEF Publicado, Viva
  <2>2. Sueltos' \subseteq Lugares
    BY DEF Sueltos
  <2>3. Tiene(h, l)'
    BY <1>3, <1>5 DEF Tiene
  <2>4. \A m : ~Tiene(h, m)
    BY <1>1 DEF Tiene
  <2>5. ASSUME NEW m \in Sueltos' PROVE m \in Sueltos
    <3>1. m \in Lugares /\ m # l
      BY <2>2, <2>3, LosSueltos
    <3> QED BY <1>4, <1>5, <2>1, <2>4, <3>1, LosSueltos
  <2> QED BY <2>5
<1> QED BY <1>1, <1>6, <1>8, <1>10, <1>11, NingunoMasSuelto DEF IInvPub

LEMMA PasoCrearPublicacion ==
  ASSUME IInvPub, NEW h \in HilosPub, NEW a \in Anuncios, CrearPublicacion(h, a)
  PROVE  IInvPub'
<1>0. PICK p, l : p = gestion[h].punto /\ l = gestion[h].lugar
  OBVIOUS
<1> DEFINE fila == [fila |-> "viva", estado |-> "ACTIVA", lugar |-> {l}]
<1>1. /\ gestion[h].fase = "publicar" /\ anuncio[a] = SinAnuncio /\ anuncio' = [anuncio EXCEPT ![a] = fila]
      /\ puesto' = [puesto EXCEPT ![a] = {p}]
      /\ Gestiona(h, SinGestion) /\ UNCHANGED <<lugar, bajasPub>>
  BY <1>0 DEF CrearPublicacion
<1>2. TypeOKPub /\ p \in Puntos /\ l \in Lugares /\ Tiene(h, l)
  BY <1>0, <1>1, EsGestion DEF IInvPub, TypeOKPub, Tiene
<1>3. /\ anuncio' \in [Anuncios -> [fila : Fila, estado : {"ACTIVA", "PAUSADA"}, lugar : SUBSET Lugares]]
      /\ anuncio'[a].fila = "viva" /\ anuncio'[a].lugar = {l}
      /\ \A b \in Anuncios : b # a => anuncio'[b] = anuncio[b]
      /\ anuncio[a].fila = "libre"
      /\ puesto' \in [Anuncios -> SUBSET Puntos] /\ puesto'[a] = {p}
      /\ \A b \in Anuncios : b # a => puesto'[b] = puesto[b]
  BY <1>1, <1>2 DEF TypeOKPub, Fila, SinAnuncio
<1> HIDE DEF fila
<1>4. /\ gestion' \in [HilosPub -> Gestiones] /\ gestion'[h] = SinGestion /\ SinGestion.fase = "quieto"
      /\ \A g \in HilosPub : g # h => gestion'[g] = gestion[g] /\ \A m : Tiene(g, m)' <=> Tiene(g, m)
      /\ \A m : ~Tiene(h, m)'
  BY <1>1, <1>2, TrasGestionar, LasGestiones DEF Tiene
<1>5. TypeOKPub'
  BY <1>1, <1>2, <1>3, <1>4 DEF TypeOKPub
<1>6. /\ lugar[l].fila = "viva" /\ lugar[l].punto = {p}
      /\ \A g \in HilosPub : g # h => ~Tiene(g, l)
  BY <1>0, <1>1 DEF IInvPub, Gestionado
<1>7. ASSUME NEW b \in Anuncios PROVE Ubicado(b)'
  <2>1. CASE b = a
    BY <1>1, <1>2, <1>3, <1>6, <2>1 DEF Ubicado
  <2>2. CASE b # a
    BY <1>1, <1>3, <2>2, SMTT(30) DEF IInvPub, Ubicado, Viva
  <2> QED BY <2>1, <2>2
<1>8. ASSUME NEW g \in HilosPub PROVE Gestionado(g)'
  <2>1. CASE g = h
    BY <1>4, <2>1 DEF Gestionado
  <2>2. CASE g # h
    <3>1. gestion'[g] = gestion[g] /\ ~Tiene(g, l)
      BY <1>4, <1>6, <2>2
    <3>2. \A m : gestion[g].fase = "publicar" /\ gestion[g].lugar = m
                   => /\ \A b \in Anuncios : anuncio'[b].lugar \subseteq anuncio[b].lugar \cup (Lugares \ {m})
                      /\ \A k \in HilosPub : k # g => ~Tiene(k, m)'
      <4> SUFFICES ASSUME NEW m, gestion[g].fase = "publicar", gestion[g].lugar = m
                   PROVE  /\ \A b \in Anuncios : anuncio'[b].lugar \subseteq anuncio[b].lugar \cup (Lugares \ {m})
                          /\ \A k \in HilosPub : k # g => ~Tiene(k, m)'
        OBVIOUS
      <4>1. m # l
        BY <3>1 DEF Tiene
      <4>2. \A k \in HilosPub : k # g => ~Tiene(k, m)
        BY DEF IInvPub, Gestionado
      <4> QED BY <1>2, <1>3, <1>4, <4>1, <4>2
    <3>3. \A b \in Anuncios : anuncio[b].fila # "libre" => anuncio'[b].fila # "libre" /\ anuncio'[b].lugar \subseteq anuncio[b].lugar
      BY <1>3
    <3>4. \A m \in Lugares : lugar'[m] = lugar[m]
      BY <1>1
    <3> QED BY <3>1, <3>2, <3>3, <3>4, SigueGestionado
  <2> QED BY <2>1, <2>2
<1>9. Sueltos' \subseteq Sueltos
  <2>1. \A m : Publicado(m) \/ m = l => Publicado(m)'
    <3>1. \A b \in Anuncios : Viva(b) => b # a
      BY <1>3 DEF Viva
    <3> QED BY <1>3, <3>1 DEF Publicado, Viva
  <2>2. Sueltos' \subseteq Lugares
    BY DEF Sueltos
  <2>3. \A m : Tiene(h, m) => m = l
    BY <1>0 DEF Tiene
  <2> QED BY <1>1, <1>4, <2>1, <2>2, <2>3, LosSueltos
<1> QED BY <1>1, <1>5, <1>7, <1>8, <1>9, NingunoMasSuelto DEF IInvPub

\* The steps after which no publication and no request has more than before.
LEMMA PasoQueQuita ==
  ASSUME IInvPub, NEW h \in HilosPub, NEW t \in Gestiones, Gestiona(h, t),
         t.fase = "quieto" \/ (t.fase = "huerfana" /\ Tiene(h, t.lugar) /\ lugar'[t.lugar].fila # "libre"),
         puesto' = puesto,
         anuncio' \in [Anuncios -> [fila : Fila, estado : {"ACTIVA", "PAUSADA"}, lugar : SUBSET Lugares]],
         lugar' \in [Lugares -> [fila : Fila, punto : SUBSET Puntos]],
         \A a \in Anuncios : /\ anuncio[a].fila # "libre" => anuncio'[a].fila # "libre"
                             /\ anuncio'[a].lugar \subseteq anuncio[a].lugar
                             /\ Viva(a)' => Viva(a) /\ anuncio'[a].lugar = anuncio[a].lugar,
         \A l \in Lugares : /\ lugar'[l].punto = lugar[l].punto
                            /\ \/ lugar'[l].fila = lugar[l].fila
                               \/ /\ lugar'[l].fila # "libre" /\ ~Publicado(l)
                                  /\ \A g \in HilosPub \ {h} : ~(gestion[g].fase = "publicar" /\ gestion[g].lugar = l)
  PROVE  /\ \A a \in Anuncios : Ubicado(a)'
         /\ \A g \in HilosPub : Gestionado(g)'
         /\ bajasPub' \in Nat => TypeOKPub'
         /\ gestion'[h] = t /\ \A g \in HilosPub : g # h => gestion'[g] = gestion[g] /\ \A l : Tiene(g, l)' <=> Tiene(g, l)
<1>1. TypeOKPub
  BY DEF IInvPub
<1>2. /\ gestion' \in [HilosPub -> Gestiones] /\ gestion'[h] = t
      /\ \A g \in HilosPub : g # h => gestion'[g] = gestion[g] /\ \A l : Tiene(g, l)' <=> Tiene(g, l)
  BY <1>1, TrasGestionar
<1>3. ASSUME NEW a \in Anuncios PROVE Ubicado(a)'
  <2>1. ASSUME Viva(a)'
        PROVE  \E l \in Lugares, p \in Puntos :
                  /\ anuncio'[a].lugar = {l} /\ puesto'[a] = {p}
                  /\ lugar'[l].fila = "viva" /\ lugar'[l].punto = {p}
    <3>1. Viva(a) /\ anuncio'[a].lugar = anuncio[a].lugar
      BY <2>1
    <3>2. PICK l \in Lugares, p \in Puntos :
                  /\ anuncio[a].lugar = {l} /\ puesto[a] = {p}
                  /\ lugar[l].fila = "viva" /\ lugar[l].punto = {p}
      BY <3>1 DEF IInvPub, Ubicado
    <3>3. Publicado(l)
      BY <3>1, <3>2 DEF Publicado
    <3>4. lugar'[l].fila = "viva" /\ lugar'[l].punto = {p}
      BY <3>2, <3>3
    <3> QED BY <3>1, <3>2, <3>4
  <2>2. ASSUME NEW l \in anuncio'[a].lugar PROVE lugar'[l].fila # "libre"
    <3>1. l \in anuncio[a].lugar /\ l \in Lugares
      BY <1>1, <2>2 DEF TypeOKPub
    <3>2. lugar[l].fila # "libre"
      BY <3>1 DEF IInvPub, Ubicado
    <3> QED BY <3>1, <3>2
  <2> QED BY <2>1, <2>2 DEF Ubicado
<1>4. \A l : Tiene(h, l)' => t.fase = "huerfana" /\ l = t.lugar
  BY <1>2 DEF Tiene
<1>5. ASSUME NEW g \in HilosPub PROVE Gestionado(g)'
  <2>1. CASE g = h
    <3>1. gestion'[g] = t
      BY <1>2, <2>1
    <3> QED BY <3>1 DEF Gestionado
  <2>2. CASE g # h
    <3>1. gestion'[g] = gestion[g]
      BY <1>2, <2>2
    <3>2. ASSUME NEW m, gestion[g].fase = "publicar", gestion[g].lugar = m
          PROVE  /\ \A b \in Anuncios : anuncio'[b].lugar \subseteq anuncio[b].lugar \cup (Lugares \ {m})
                 /\ \A k \in HilosPub : k # g => ~Tiene(k, m)'
      <4>1. \A k \in HilosPub : k # g => ~Tiene(k, m)
        BY <3>2 DEF IInvPub, Gestionado
      <4>2. ASSUME NEW k \in HilosPub, k # g PROVE ~Tiene(k, m)'
        <5>1. CASE k = h
          BY <1>4, <2>2, <4>1, <5>1
        <5>2. CASE k # h
          BY <1>2, <4>1, <4>2, <5>2
        <5> QED BY <5>1, <5>2
      <4> QED BY <4>2
    <3>3. \A l \in Lugares : Tiene(g, l) => /\ lugar'[l].fila = lugar[l].fila \/ (gestion[g].fase # "publicar" /\ lugar'[l].fila # "libre")
                                            /\ lugar'[l].punto = lugar[l].punto
      BY <2>2 DEF Tiene
    <3> QED BY <3>1, <3>2, <3>3, SigueGestionado
  <2> QED BY <2>1, <2>2
<1> QED BY <1>1, <1>2, <1>3, <1>5 DEF TypeOKPub

LEMMA PasoActualizar ==
  ASSUME IInvPub, NEW h \in HilosPub, ActualizarPublicacion(h)
  PROVE  IInvPub'
<1>0. PICK a, e : a = gestion[h].anuncio /\ e = gestion[h].estado
  OBVIOUS
<1>1. /\ gestion[h].fase = "editar" /\ Gestiona(h, SinGestion)
      /\ anuncio' = IF Viva(a) THEN [anuncio EXCEPT ![a].estado = e] ELSE anuncio
      /\ UNCHANGED <<lugar, puesto, bajasPub>>
  BY <1>0 DEF ActualizarPublicacion
<1>2. TypeOKPub /\ a \in Anuncios /\ e \in {"ACTIVA", "PAUSADA"}
  BY <1>0, <1>1, EsGestion DEF IInvPub, TypeOKPub
<1>3. /\ anuncio' \in [Anuncios -> [fila : Fila, estado : {"ACTIVA", "PAUSADA"}, lugar : SUBSET Lugares]]
      /\ \A b \in Anuncios : anuncio'[b].fila = anuncio[b].fila /\ anuncio'[b].lugar = anuncio[b].lugar
  <2>1. CASE Viva(a)
    <3>1. anuncio' = [anuncio EXCEPT ![a] = [anuncio[a] EXCEPT !.estado = e]]
      BY <1>1, <2>1
    <3>2. /\ [anuncio[a] EXCEPT !.estado = e] \in [fila : Fila, estado : {"ACTIVA", "PAUSADA"}, lugar : SUBSET Lugares]
          /\ [anuncio[a] EXCEPT !.estado = e].fila = anuncio[a].fila
          /\ [anuncio[a] EXCEPT !.estado = e].lugar = anuncio[a].lugar
      BY <1>2 DEF TypeOKPub
    <3> QED BY <1>2, <3>1, <3>2 DEF TypeOKPub
  <2>2. CASE ~Viva(a)
    BY <1>1, <1>2, <2>2 DEF TypeOKPub
  <2> QED BY <2>1, <2>2
<1>4. lugar' \in [Lugares -> [fila : Fila, punto : SUBSET Puntos]] /\ bajasPub' \in Nat
  BY <1>1, <1>2 DEF TypeOKPub
<1>5. \A b \in Anuncios : Viva(b)' <=> Viva(b)
  BY <1>3 DEF Viva
<1>6. /\ \A b \in Anuncios : Ubicado(b)'
      /\ \A g \in HilosPub : Gestionado(g)'
      /\ TypeOKPub'
      /\ gestion'[h] = SinGestion /\ \A g \in HilosPub : g # h => gestion'[g] = gestion[g] /\ \A l : Tiene(g, l)' <=> Tiene(g, l)
  BY <1>1, <1>3, <1>4, <1>5, LasGestiones, PasoQueQuita
<1>7. Sueltos' \subseteq Sueltos
  <2>1. \A l : Publicado(l)' <=> Publicado(l)
    BY <1>3, <1>5 DEF Publicado
  <2>2. \A l : ~Tiene(h, l)
    BY <1>1 DEF Tiene
  <2>3. Sueltos' \subseteq Lugares
    BY DEF Sueltos
  <2> QED BY <1>1, <1>6, <2>1, <2>2, <2>3, LosSueltos
<1> QED BY <1>1, <1>6, <1>7, NingunoMasSuelto DEF IInvPub

LEMMA PasoBorrarPublicacion ==
  ASSUME IInvPub, NEW h \in HilosPub, BorrarPublicacion(h)
  PROVE  IInvPub'
<1>0. PICK a, l : a = gestion[h].anuncio /\ l = gestion[h].lugar
  OBVIOUS
<1> DEFINE t == [fase |-> "huerfana", lugar |-> l]
<1>1. /\ gestion[h].fase = "borrar" /\ Gestiona(h, t)
      /\ anuncio' = [anuncio EXCEPT ![a] = [anuncio[a] EXCEPT !.fila = "borrada"]]
      /\ UNCHANGED <<lugar, puesto, bajasPub>>
  BY <1>0 DEF BorrarPublicacion
<1>2. TypeOKPub /\ a \in Anuncios /\ l \in Lugares /\ Tiene(h, l)
  BY <1>0, <1>1, EsGestion DEF IInvPub, TypeOKPub, Tiene
<1>3. /\ anuncio' \in [Anuncios -> [fila : Fila, estado : {"ACTIVA", "PAUSADA"}, lugar : SUBSET Lugares]]
      /\ anuncio'[a].fila = "borrada" /\ anuncio'[a].lugar = anuncio[a].lugar
      /\ \A b \in Anuncios : b # a => anuncio'[b] = anuncio[b]
  <2>1. /\ [anuncio[a] EXCEPT !.fila = "borrada"] \in [fila : Fila, estado : {"ACTIVA", "PAUSADA"}, lugar : SUBSET Lugares]
        /\ [anuncio[a] EXCEPT !.fila = "borrada"].fila = "borrada"
        /\ [anuncio[a] EXCEPT !.fila = "borrada"].lugar = anuncio[a].lugar
    BY <1>2 DEF TypeOKPub, Fila
  <2> QED BY <1>1, <1>2, <2>1 DEF TypeOKPub
<1>4. lugar' \in [Lugares -> [fila : Fila, punto : SUBSET Puntos]] /\ bajasPub' \in Nat
  BY <1>1, <1>2 DEF TypeOKPub
<1>5. t \in Gestiones /\ t.fase = "huerfana" /\ t.lugar = l
  BY <1>2, LasGestiones
<1>6. lugar[l].fila # "libre" /\ anuncio[a].lugar \subseteq {l}
  BY <1>0, <1>1 DEF IInvPub, Gestionado
<1> HIDE DEF t
<1>7. \A b \in Anuncios : Viva(b)' <=> b # a /\ Viva(b)
  BY <1>3 DEF Viva
<1>8. \A b \in Anuncios : /\ anuncio[b].fila # "libre" => anuncio'[b].fila # "libre"
                          /\ anuncio'[b].lugar = anuncio[b].lugar
  BY <1>3
<1>9. /\ \A b \in Anuncios : Ubicado(b)'
      /\ \A g \in HilosPub : Gestionado(g)'
      /\ TypeOKPub'
      /\ gestion'[h] = t /\ \A g \in HilosPub : g # h => gestion'[g] = gestion[g] /\ \A m : Tiene(g, m)' <=> Tiene(g, m)
  <2>1. Tiene(h, t.lugar) /\ lugar'[t.lugar].fila # "libre"
    BY <1>1, <1>2, <1>5, <1>6
  <2> QED BY <1>1, <1>3, <1>4, <1>5, <1>7, <1>8, <2>1, PasoQueQuita
<1>10. Sueltos' \subseteq Sueltos
  <2>1. \A m : Publicado(m) /\ m # l => Publicado(m)'
    BY <1>6, <1>7, <1>8 DEF Publicado
  <2>2. \A m : Tiene(h, m) <=> m = l
    BY <1>0, <1>1 DEF Tiene
  <2>3. Tiene(h, l)'
    BY <1>5, <1>9 DEF Tiene
  <2>4. Sueltos' \subseteq Lugares
    BY DEF Sueltos
  <2>5. ASSUME NEW m \in Sueltos' PROVE m \in Sueltos
    <3>1. m \in Lugares /\ m # l /\ lugar'[m].fila = "viva" /\ ~Publicado(m)' /\ \A g \in HilosPub : ~Tiene(g, m)'
      BY <2>3, <2>4, LosSueltos
    <3> QED BY <1>1, <1>9, <2>1, <2>2, <3>1, LosSueltos
  <2> QED BY <2>5
<1> QED BY <1>1, <1>9, <1>10, NingunoMasSuelto DEF IInvPub

LEMMA PasoBorrarSiHuerfana ==
  ASSUME IInvPub, NEW h \in HilosPub, BorrarSiHuerfana(h)
  PROVE  IInvPub'
<1>0. PICK l : l = gestion[h].lugar
  OBVIOUS
<1>1. /\ gestion[h].fase = "huerfana" /\ Gestiona(h, SinGestion)
      /\ IF Publicado(l) THEN UNCHANGED <<anuncio, lugar>> ELSE BorraLugar(l)
      /\ UNCHANGED <<puesto, bajasPub>>
  BY <1>0 DEF BorrarSiHuerfana
<1>2. TypeOKPub /\ l \in Lugares /\ bajasPub' \in Nat
  BY <1>0, <1>1, EsGestion DEF IInvPub, TypeOKPub
<1>3. \A m : Tiene(h, m) <=> m = l
  BY <1>0, <1>1 DEF Tiene
<1>4. /\ anuncio' \in [Anuncios -> [fila : Fila, estado : {"ACTIVA", "PAUSADA"}, lugar : SUBSET Lugares]]
      /\ lugar' \in [Lugares -> [fila : Fila, punto : SUBSET Puntos]]
      /\ \A a \in Anuncios : /\ anuncio'[a].fila = anuncio[a].fila
                             /\ anuncio'[a].lugar = IF Publicado(l) THEN anuncio[a].lugar ELSE anuncio[a].lugar \ {l}
      /\ \A m \in Lugares : lugar'[m].punto = lugar[m].punto
      /\ \A m \in Lugares : m # l => lugar'[m].fila = lugar[m].fila
      /\ Publicado(l) => lugar'[l].fila = lugar[l].fila
      /\ ~Publicado(l) => lugar'[l].fila = "borrada"
  <2>1. CASE Publicado(l)
    BY <1>1, <1>2, <2>1 DEF TypeOKPub
  <2>2. CASE ~Publicado(l)
    <3>1. /\ lugar' = [lugar EXCEPT ![l].fila = "borrada"]
          /\ anuncio' = [a \in Anuncios |-> [anuncio[a] EXCEPT !.lugar = anuncio[a].lugar \ {l}]]
      BY <1>1, <2>2 DEF BorraLugar
    <3>2. \A a \in Anuncios :
            /\ [anuncio[a] EXCEPT !.lugar = anuncio[a].lugar \ {l}] \in [fila : Fila, estado : {"ACTIVA", "PAUSADA"}, lugar : SUBSET Lugares]
            /\ [anuncio[a] EXCEPT !.lugar = anuncio[a].lugar \ {l}].fila = anuncio[a].fila
            /\ [anuncio[a] EXCEPT !.lugar = anuncio[a].lugar \ {l}].lugar = anuncio[a].lugar \ {l}
      BY <1>2 DEF TypeOKPub
    <3>3. lugar' = [lugar EXCEPT ![l] = [lugar[l] EXCEPT !.fila = "borrada"]]
      BY <3>1
    <3>4. /\ [lugar[l] EXCEPT !.fila = "borrada"] \in [fila : Fila, punto : SUBSET Puntos]
          /\ [lugar[l] EXCEPT !.fila = "borrada"].fila = "borrada"
          /\ [lugar[l] EXCEPT !.fila = "borrada"].punto = lugar[l].punto
      BY <1>2 DEF TypeOKPub, Fila
    <3>5. /\ lugar' \in [Lugares -> [fila : Fila, punto : SUBSET Puntos]]
          /\ lugar'[l].fila = "borrada" /\ \A m \in Lugares : lugar'[m].punto = lugar[m].punto
          /\ \A m \in Lugares : m # l => lugar'[m].fila = lugar[m].fila
      BY <1>2, <3>3, <3>4 DEF TypeOKPub
    <3>6. /\ anuncio' \in [Anuncios -> [fila : Fila, estado : {"ACTIVA", "PAUSADA"}, lugar : SUBSET Lugares]]
          /\ \A a \in Anuncios : anuncio'[a].fila = anuncio[a].fila /\ anuncio'[a].lugar = anuncio[a].lugar \ {l}
      BY <3>1, <3>2
    <3> QED BY <2>2, <3>5, <3>6
  <2> QED BY <2>1, <2>2
<1>5. \A a \in Anuncios : Viva(a)' <=> Viva(a)
  BY <1>4 DEF Viva
<1>6. ASSUME NEW a \in Anuncios, Viva(a) PROVE anuncio'[a].lugar = anuncio[a].lugar
  <2>1. CASE Publicado(l)
    BY <1>4, <2>1
  <2>2. CASE ~Publicado(l)
    <3>1. l \notin anuncio[a].lugar
      BY <1>6, <2>2 DEF Publicado
    <3>2. \A S : l \notin S => S \ {l} = S
      OBVIOUS
    <3>3. anuncio'[a].lugar = anuncio[a].lugar \ {l}
      BY <1>4, <2>2
    <3> QED BY <3>1, <3>2, <3>3
  <2> QED BY <2>1, <2>2
<1>7. ASSUME NEW m \in Lugares
      PROVE  \/ lugar'[m].fila = lugar[m].fila
             \/ /\ lugar'[m].fila # "libre" /\ ~Publicado(m)
                /\ \A g \in HilosPub \ {h} : ~(gestion[g].fase = "publicar" /\ gestion[g].lugar = m)
  <2>1. CASE m # l \/ Publicado(l)
    BY <1>4, <2>1
  <2>2. CASE m = l /\ ~Publicado(l)
    <3>1. \A g \in HilosPub \ {h} : ~(gestion[g].fase = "publicar" /\ gestion[g].lugar = l)
      BY <1>3 DEF IInvPub, Gestionado
    <3> QED BY <1>4, <2>2, <3>1
  <2> QED BY <2>1, <2>2
<1>8. /\ \A a \in Anuncios : Ubicado(a)'
      /\ \A g \in HilosPub : Gestionado(g)'
      /\ TypeOKPub'
      /\ gestion'[h] = SinGestion /\ \A g \in HilosPub : g # h => gestion'[g] = gestion[g] /\ \A m : Tiene(g, m)' <=> Tiene(g, m)
  <2>1. \A a \in Anuncios : /\ anuncio[a].fila # "libre" => anuncio'[a].fila # "libre"
                            /\ anuncio'[a].lugar \subseteq anuncio[a].lugar
                            /\ Viva(a)' => Viva(a) /\ anuncio'[a].lugar = anuncio[a].lugar
    BY <1>4, <1>5, <1>6
  <2> QED BY <1>1, <1>2, <1>4, <1>7, <2>1, LasGestiones, PasoQueQuita
<1>9. Sueltos' \subseteq Sueltos
  <2>1. \A m : Publicado(m) => Publicado(m)'
    BY <1>5, <1>6 DEF Publicado
  <2>2. Sueltos' \subseteq Lugares
    BY DEF Sueltos
  <2>3. ASSUME NEW m \in Sueltos' PROVE m \in Sueltos
    <3>1. m \in Lugares /\ lugar'[m].fila = "viva" /\ ~Publicado(m)' /\ \A g \in HilosPub : ~Tiene(g, m)'
      BY <2>2, LosSueltos
    <3>2. m # l
      BY <1>4, <2>1, <3>1
    <3> QED BY <1>3, <1>4, <1>8, <2>1, <3>1, <3>2, LosSueltos
  <2> QED BY <2>3
<1> QED BY <1>1, <1>8, <1>9, NingunoMasSuelto DEF IInvPub

LEMMA PasoCaerGestion ==
  ASSUME IInvPub, NEW h \in HilosPub, CaerGestion(h)
  PROVE  IInvPub'
<1>0. PICK l : l = gestion[h].lugar
  OBVIOUS
<1>1. Gestiona(h, SinGestion) /\ bajasPub' = bajasPub + 1 /\ UNCHANGED <<anuncio, lugar, puesto>>
  BY DEF CaerGestion
<1>2. TypeOKPub /\ bajasPub' \in Nat
  BY <1>1 DEF IInvPub, TypeOKPub
<1>3. /\ \A a \in Anuncios : Ubicado(a)'
      /\ \A g \in HilosPub : Gestionado(g)'
      /\ TypeOKPub'
      /\ gestion'[h] = SinGestion /\ \A g \in HilosPub : g # h => gestion'[g] = gestion[g] /\ \A m : Tiene(g, m)' <=> Tiene(g, m)
  BY <1>1, <1>2, LasGestiones, PasoSinFilas
<1>4. Sueltos' \subseteq Sueltos \cup {l}
  <2>1. \A m : Publicado(m)' <=> Publicado(m)
    BY <1>1 DEF Publicado, Viva
  <2>2. \A m : Tiene(h, m) => m = l
    BY <1>0 DEF Tiene
  <2>3. Sueltos' \subseteq Lugares
    BY DEF Sueltos
  <2> QED BY <1>1, <1>3, <2>1, <2>2, <2>3, LosSueltos
<1> QED BY <1>1, <1>3, <1>4, UnoMasSuelto DEF IInvPub

LEMMA PasoCaerConElVendedor ==
  ASSUME IInvPub, NEW a \in Anuncios, CaerConElVendedor(a)
  PROVE  IInvPub'
<1>1. /\ Viva(a) /\ bajasPub' = bajasPub + 1 /\ UNCHANGED <<lugar, gestion, puesto>>
      /\ anuncio' = [anuncio EXCEPT ![a] = [anuncio[a] EXCEPT !.fila = "borrada"]]
  BY DEF CaerConElVendedor
<1>2. TypeOKPub /\ bajasPub' \in Nat
  BY <1>1 DEF IInvPub, TypeOKPub
<1>3. /\ anuncio' \in [Anuncios -> [fila : Fila, estado : {"ACTIVA", "PAUSADA"}, lugar : SUBSET Lugares]]
      /\ anuncio'[a].fila = "borrada" /\ anuncio'[a].lugar = anuncio[a].lugar
      /\ \A b \in Anuncios : b # a => anuncio'[b] = anuncio[b]
  <2>1. /\ [anuncio[a] EXCEPT !.fila = "borrada"] \in [fila : Fila, estado : {"ACTIVA", "PAUSADA"}, lugar : SUBSET Lugares]
        /\ [anuncio[a] EXCEPT !.fila = "borrada"].fila = "borrada"
        /\ [anuncio[a] EXCEPT !.fila = "borrada"].lugar = anuncio[a].lugar
    BY <1>2 DEF TypeOKPub, Fila
  <2> QED BY <1>1, <1>2, <2>1 DEF TypeOKPub
<1>4. \A b \in Anuncios : Viva(b)' <=> b # a /\ Viva(b)
  BY <1>3 DEF Viva
<1>5. \A b \in Anuncios : /\ anuncio[b].fila # "libre" => anuncio'[b].fila # "libre"
                          /\ anuncio'[b].lugar = anuncio[b].lugar
  BY <1>3
<1>6. TypeOKPub'
  BY <1>1, <1>2, <1>3 DEF TypeOKPub
<1>7. ASSUME NEW b \in Anuncios PROVE Ubicado(b)'
  <2>1. /\ Viva(b) => \E l \in Lugares, p \in Puntos :
                  /\ anuncio[b].lugar = {l} /\ puesto[b] = {p}
                  /\ lugar[l].fila = "viva" /\ lugar[l].punto = {p}
        /\ \A l \in anuncio[b].lugar : lugar[l].fila # "libre"
    BY DEF IInvPub, Ubicado
  <2> QED BY <1>1, <1>4, <1>5, <2>1 DEF Ubicado
<1>8. ASSUME NEW g \in HilosPub PROVE Gestionado(g)'
  <2>1. ASSUME NEW m, gestion[g].fase = "publicar", gestion[g].lugar = m
        PROVE  /\ \A b \in Anuncios : anuncio'[b].lugar \subseteq anuncio[b].lugar \cup (Lugares \ {m})
               /\ \A k \in HilosPub : k # g => ~Tiene(k, m)'
    <3>1. \A k \in HilosPub : k # g => ~Tiene(k, m)
      BY <2>1 DEF IInvPub, Gestionado
    <3> QED BY <1>1, <1>5, <3>1 DEF Tiene
  <2> QED BY <1>1, <1>5, <2>1, SigueGestionado
<1>9. PICK l \in Lugares : anuncio[a].lugar = {l}
  BY <1>1 DEF IInvPub, Ubicado
<1>10. Sueltos' \subseteq Sueltos \cup {l}
  <2>1. \A m : Publicado(m) /\ m # l => Publicado(m)'
    BY <1>4, <1>5, <1>9 DEF Publicado
  <2>2. Sueltos' \subseteq Lugares
    BY DEF Sueltos
  <2>3. \A g \in HilosPub : \A m : Tiene(g, m)' <=> Tiene(g, m)
    BY <1>1 DEF Tiene
  <2> QED BY <1>1, <2>1, <2>2, <2>3, LosSueltos
<1> QED BY <1>1, <1>6, <1>7, <1>8, <1>10, UnoMasSuelto DEF IInvPub

LEMMA InicioPub == InitPub => IInvPub
<1> SUFFICES ASSUME InitPub PROVE IInvPub
  OBVIOUS
<1>1. SinAnuncio.fila = "libre" /\ SinAnuncio.lugar = {} /\ SinLugar.fila = "libre"
  BY DEF SinAnuncio, SinLugar
<1>2. TypeOKPub
  BY LasGestiones DEF InitPub, TypeOKPub, SinAnuncio, SinLugar, Fila
<1>3. \A a \in Anuncios : Ubicado(a)
  BY <1>1 DEF InitPub, Ubicado, Viva
<1>4. \A h \in HilosPub : Gestionado(h)
  BY LasGestiones DEF InitPub, Gestionado
<1>5. SueltosAcotados
  <2>1. Sueltos = {} /\ bajasPub = 0
    BY <1>1 DEF InitPub, Sueltos
  <2>2. IsFiniteSet(Sueltos) /\ Cardinality(Sueltos) = 0
    BY <2>1, FS_EmptySet
  <2> QED BY <2>1, <2>2 DEF SueltosAcotados
<1> QED BY <1>2, <1>3, <1>4, <1>5 DEF IInvPub

LEMMA PasoPubTodo == IInvPub /\ [NextPub]_varsPub => IInvPub'
<1> SUFFICES ASSUME IInvPub, [NextPub]_varsPub PROVE IInvPub'
  OBVIOUS
<1>1. CASE UNCHANGED varsPub
  <2>1. UNCHANGED <<anuncio, lugar, gestion, puesto, bajasPub>>
    BY <1>1 DEF varsPub
  <2>2. TypeOKPub' /\ (\A a \in Anuncios : Ubicado(a)') /\ (\A h \in HilosPub : Gestionado(h)')
    <3>1. TypeOKPub'
      BY <2>1 DEF IInvPub, TypeOKPub
    <3>2. ASSUME NEW a \in Anuncios PROVE Ubicado(a)'
      BY <2>1 DEF IInvPub, Ubicado, Viva
    <3>3. ASSUME NEW h \in HilosPub PROVE Gestionado(h)'
      BY <2>1 DEF IInvPub, Gestionado, Tiene
    <3> QED BY <3>1, <3>2, <3>3
  <2>3. Sueltos' = Sueltos
    BY <2>1 DEF Sueltos, Publicado, Viva, EnCurso
  <2> QED BY <2>1, <2>2, <2>3, NingunoMasSuelto DEF IInvPub
<1>2. ASSUME NEW h \in HilosPub, PasoPub(h) PROVE IInvPub'
  BY <1>2, PasosDeHilo, PasoCrearLugar, PasoCrearPublicacion, PasoActualizar, PasoBorrarPublicacion,
     PasoBorrarSiHuerfana, PasoCaerGestion DEF PasoPub
<1>3. ASSUME NEW a \in Anuncios, CaerConElVendedor(a) PROVE IInvPub'
  BY <1>3, PasoCaerConElVendedor
<1> QED BY <1>1, <1>2, <1>3 DEF NextPub

\* What the search finds is what is within the radius of its place.
LEMMA CercaSiguenElRadio ==
  ASSUME IInvPub, NEW centro \in Puntos, NEW radio \in Int
  PROVE  Cercanas(centro, radio) =
         {a \in Anuncios :
            /\ anuncio[a].fila = "viva" /\ anuncio[a].estado = "ACTIVA"
            /\ \E p \in puesto[a] :
                 centro - p <= radio /\ p - centro <= radio
                 /\ centro - p <= RadioMaximo /\ p - centro <= RadioMaximo}
<1> DEFINE limite == IF radio < RadioMaximo THEN radio ELSE RadioMaximo
           Dentro(p) == centro - p <= radio /\ p - centro <= radio
                        /\ centro - p <= RadioMaximo /\ p - centro <= RadioMaximo
<1>1. \A p \in Puntos : Distancia(centro, p) <= limite <=> Dentro(p)
  BY DEF Distancia
<1>2. Cercanas(centro, radio) =
        {a \in ActivasConLugar : \E l \in anuncio[a].lugar : \E p \in lugar[l].punto : Distancia(centro, p) <= limite}
  BY DEF Cercanas
<1> HIDE DEF limite, Dentro
<1>3. ASSUME NEW a \in Anuncios, Viva(a)
      PROVE  /\ anuncio[a].lugar # {}
             /\ (\E l \in anuncio[a].lugar : \E p \in lugar[l].punto : Distancia(centro, p) <= limite)
                <=> \E p \in puesto[a] : Dentro(p)
  <2>1. PICK l \in Lugares, p \in Puntos :
                  /\ anuncio[a].lugar = {l} /\ puesto[a] = {p}
                  /\ lugar[l].fila = "viva" /\ lugar[l].punto = {p}
    BY <1>3 DEF IInvPub, Ubicado
  <2> QED BY <1>1, <2>1
<1>4. \A a : a \in ActivasConLugar <=> a \in Anuncios /\ Viva(a) /\ anuncio[a].estado = "ACTIVA"
  BY <1>3 DEF ActivasConLugar
<1>5. Cercanas(centro, radio) =
        {a \in Anuncios : /\ anuncio[a].fila = "viva" /\ anuncio[a].estado = "ACTIVA"
                          /\ \E p \in puesto[a] : Dentro(p)}
  BY <1>2, <1>3, <1>4 DEF Viva
<1> QED BY <1>5 DEF Dentro

LEMMA UbicadosTodos == IInvPub => AnunciosUbicados
<1> SUFFICES ASSUME IInvPub PROVE AnunciosUbicados
  OBVIOUS
<1>1. \A radio \in {0, RadioMaximo, RadioMaximo + 1} : radio \in Int
  OBVIOUS
<1>2. Cardinality({l \in Lugares : lugar[l].fila = "viva" /\ ~Publicado(l) /\ ~EnCurso(l)}) <= bajasPub
  BY DEF IInvPub, SueltosAcotados, Sueltos
<1> QED BY <1>1, <1>2, CercaSiguenElRadio DEF AnunciosUbicados

LEMMA InvariantePub == SpecPub => []IInvPub
BY InicioPub, PasoPubTodo, PTL DEF SpecPub

\* The type invariant of the publications and their places.
THEOREM TiposPub == SpecPub => []TypeOKPub
<1>1. IInvPub => TypeOKPub
  BY DEF IInvPub
<1> QED BY <1>1, InvariantePub, PTL

\* Every active publication is found where it was put and only there, and each
\* row of Ubicacion left to nobody is explained by a failure of its own.
THEOREM BienUbicados == SpecPub => []AnunciosUbicados
BY InvariantePub, UbicadosTodos, PTL

HIDE ConstantesPub

------------------------------------------------------------------------------
(* The weeks of the panel *)

USE ConstantesJornadas

\* The week of every moment begins on a Sunday at noon and holds the moment.
LEMMA Comienzo ==
  ASSUME NEW t \in Nat
  PROVE  /\ ComienzoDeSemana(t) \in Int /\ ComienzoDeSemana(t) <= t /\ t < ComienzoDeSemana(t) + 14
         /\ \E k \in Int : ComienzoDeSemana(t) = 14 * k + 1
         /\ ProximoPago(t) = ComienzoDeSemana(t) + 14 /\ ProximoPago(t) \in Nat /\ ProximoPago(t) % 14 = 1
<1> DEFINE d == 2 * ((t \div 2) - ((DiaDeLaSemana(t) + 1) % 7)) + 1
           j == (t \div 2) \div 7
<1>1. j \in Nat /\ d = 14 * j + 1
  BY DEF DiaDeLaSemana
<1>2. 14 * j <= t /\ t < 14 * j + 14
  BY DEF j
<1>3. ComienzoDeSemana(t) = IF d > t THEN d - 14 ELSE d
  BY DEF ComienzoDeSemana
<1> HIDE DEF d, j
<1> DEFINE k == IF d > t THEN j - 1 ELSE j
<1>4. k \in Int /\ k >= -1 /\ ComienzoDeSemana(t) = 14 * k + 1
  BY <1>1, <1>3
<1>5. 14 * k + 1 <= t /\ t < 14 * k + 15
  BY <1>1, <1>2
<1> HIDE DEF k
<1>6. ProximoPago(t) = 14 * (k + 1) + 1
  BY <1>4 DEF ProximoPago
<1>7. (14 * (k + 1) + 1) % 14 = 1
  BY <1>4
<1> QED BY <1>4, <1>5, <1>6, <1>7

\* Two moments of a week have the same week.
LEMMA MismaSemana ==
  ASSUME NEW f \in Nat, NEW t \in Nat, EnLaSemana(f, t)
  PROVE  ProximoPago(f) = ProximoPago(t)
<1>1. PICK k \in Int : ComienzoDeSemana(f) = 14 * k + 1
  BY Comienzo
<1>2. PICK j \in Int : ComienzoDeSemana(t) = 14 * j + 1
  BY Comienzo
<1>3. 14 * k + 1 <= f /\ f < 14 * k + 15 /\ 14 * j + 1 <= f /\ f < 14 * j + 15
  <2>1. ProximoPago(t) = ComienzoDeSemana(t) + 14
    BY Comienzo
  <2>2. ComienzoDeSemana(f) <= f /\ f < ComienzoDeSemana(f) + 14
    BY Comienzo
  <2> QED BY <1>1, <1>2, <2>1, <2>2 DEF EnLaSemana
<1>4. k = j
  BY <1>3
<1> QED BY <1>1, <1>2, <1>4, Comienzo

LEMMA SemanaActualOCerrada ==
  ASSUME NEW f \in Nat, NEW t \in Nat, f <= t
  PROVE  EnLaSemana(f, t) \/ ProximoPago(f) <= t
<1> SUFFICES ASSUME ~(ProximoPago(f) <= t) PROVE EnLaSemana(f, t)
  OBVIOUS
<1>1. ProximoPago(f) = ComienzoDeSemana(f) + 14 /\ ProximoPago(f) \in Nat /\ ComienzoDeSemana(f) <= f
      /\ ProximoPago(t) = ComienzoDeSemana(t) + 14 /\ ProximoPago(t) \in Nat /\ t < ComienzoDeSemana(t) + 14
      /\ ComienzoDeSemana(f) \in Int /\ ComienzoDeSemana(t) \in Int
  BY Comienzo
<1>2. EnLaSemana(t, f)
  BY <1>1 DEF EnLaSemana
<1>3. ProximoPago(t) = ProximoPago(f)
  BY <1>2, MismaSemana
<1> QED BY <1>1, <1>3 DEF EnLaSemana

------------------------------------------------------------------------------

\* The weeks in which an order is counted, or would be: that of its date, those
\* of the rows that a summary has read, and those that a summary has counted.
Semanas(o) ==
  {w \in Nat : \/ <<o, w>> \in contadas
               \/ \E f \in reparto[o].finalizado : w = ProximoPago(f)
               \/ \E r \in Repartidores : \E filas \in historial[r] : \E f \in Nat :
                    <<o, f>> \in filas /\ w = ProximoPago(f)}

FechasPasadas ==
  \A o \in Encargos : \A f \in reparto[o].finalizado : f \in Inicio .. instante

SemanasAcotadas ==
  \A o \in Encargos :
    /\ IsFiniteSet(Semanas(o)) /\ Cardinality(Semanas(o)) <= 1 + refechas
    /\ reparto[o].finalizado = {} /\ reparto[o].estado # "borrado" => Semanas(o) = {}

CierresEnDomingo == \A x \in contadas : x[2] % 14 = 1

IInvJornadas ==
  /\ TypeOKJornadas
  /\ DOMAIN historial = Repartidores
  /\ historial = [r \in Repartidores |-> historial[r]]
  /\ FechasPasadas
  /\ SemanasAcotadas
  /\ CierresEnDomingo

LEMMA EnNat == \A t \in Inicio .. MaxInstante : t \in Nat
OBVIOUS

\* What neither dates a delivery nor counts one keeps its weeks.
LEMMA SemanasQueSiguen ==
  ASSUME IInvJornadas, NEW q \in Encargos, Semanas(q)' \subseteq Semanas(q), refechas' = refechas,
         reparto'[q].finalizado = {} /\ reparto'[q].estado # "borrado"
           => Semanas(q)' = {} \/ (reparto[q].finalizado = {} /\ reparto[q].estado # "borrado")
  PROVE  /\ IsFiniteSet(Semanas(q)') /\ Cardinality(Semanas(q)') <= 1 + refechas'
         /\ reparto'[q].finalizado = {} /\ reparto'[q].estado # "borrado" => Semanas(q)' = {}
<1>1. /\ IsFiniteSet(Semanas(q)) /\ Cardinality(Semanas(q)) <= 1 + refechas
      /\ reparto[q].finalizado = {} /\ reparto[q].estado # "borrado" => Semanas(q) = {}
  BY DEF IInvJornadas, SemanasAcotadas
<1>2. Semanas(q)' \in SUBSET Semanas(q)
  OBVIOUS
<1>3. /\ IsFiniteSet(Semanas(q)') /\ Cardinality(Semanas(q)') \in Nat
      /\ Cardinality(Semanas(q)) \in Nat /\ Cardinality(Semanas(q)') <= Cardinality(Semanas(q))
  BY <1>1, <1>2, Parte
<1>4. refechas \in Nat
  BY DEF IInvJornadas, TypeOKJornadas
<1>5. Cardinality(Semanas(q)') <= 1 + refechas'
  BY <1>1, <1>3, <1>4
<1> QED BY <1>1, <1>3, <1>5

\* The steps of the offers leave the deliveries alone.
LEMMA PasoOferta ==
  ASSUME IInvJornadas, TypeOKJornadas', UNCHANGED <<instante, reparto, LosResumenes>>
  PROVE  IInvJornadas'
<1>1. UNCHANGED <<historial, contadas, refechas>>
  BY DEF LosResumenes
<1>2. \A o \in Encargos : Semanas(o)' = Semanas(o)
  BY <1>1 DEF Semanas
<1>3. SemanasAcotadas'
  BY <1>1, <1>2 DEF IInvJornadas, SemanasAcotadas
<1> QED BY <1>1, <1>3 DEF IInvJornadas, FechasPasadas, CierresEnDomingo

\* The steps that move a delivery and do not date it.
LEMMA PasoSinFecha ==
  ASSUME IInvJornadas, TypeOKJornadas', UNCHANGED <<instante, LosResumenes>>,
         \A o \in Encargos : \/ /\ reparto'[o].finalizado = reparto[o].finalizado
                                /\ reparto'[o].estado = "borrado" <=> reparto[o].estado = "borrado"
                             \/ reparto'[o].finalizado = {} /\ reparto'[o].estado = "borrado"
  PROVE  IInvJornadas'
<1>1. UNCHANGED <<historial, contadas, refechas>>
  BY DEF LosResumenes
<1>2. \A o \in Encargos : Semanas(o)' \subseteq Semanas(o)
  BY <1>1 DEF Semanas
<1>3. SemanasAcotadas'
  <2>1. ASSUME NEW q \in Encargos
        PROVE  /\ IsFiniteSet(Semanas(q)') /\ Cardinality(Semanas(q)') <= 1 + refechas'
               /\ reparto'[q].finalizado = {} /\ reparto'[q].estado # "borrado" => Semanas(q)' = {}
    BY <1>1, <1>2, SemanasQueSiguen
  <2> QED BY <2>1 DEF SemanasAcotadas
<1>4. FechasPasadas'
  BY DEF IInvJornadas, FechasPasadas
<1> QED BY <1>1, <1>3, <1>4 DEF IInvJornadas, CierresEnDomingo

LEMMA PasosDeOferta ==
  ASSUME IInvJornadas, NEW r \in Repartidores, Oferta(r)
  PROVE  IInvJornadas'
<1>1. TypeOKJornadas
  BY DEF IInvJornadas
<1>2. ASSUME NEW activo \in BOOLEAN, SetDisponibilidad(r, activo) PROVE IInvJornadas'
  <2>1. TypeOKJornadas'
    BY <1>1, <1>2 DEF TypeOKJornadas, SetDisponibilidad, LosResumenes
  <2> QED BY <1>2, <2>1, PasoOferta DEF SetDisponibilidad
<1>3. CASE UpdateUbicacion(r)
  <2>1. TypeOKJornadas'
    BY <1>1, <1>3 DEF TypeOKJornadas, UpdateUbicacion, LosResumenes
  <2> QED BY <1>3, <2>1, PasoOferta DEF UpdateUbicacion
<1>4. CASE IdsRechazados(r)
  <2>1. TypeOKJornadas'
    BY <1>1, <1>4 DEF TypeOKJornadas, IdsRechazados, LosResumenes
  <2> QED BY <1>4, <2>1, PasoOferta DEF IdsRechazados
<1>5. CASE ListPendingNear(r)
  <2>1. TypeOKJornadas'
    BY <1>1, <1>5 DEF TypeOKJornadas, ListPendingNear, LosResumenes
  <2> QED BY <1>5, <2>1, PasoOferta DEF ListPendingNear
<1>6. ASSUME NEW o \in Encargos, RechazarPedido(r, o) PROVE IInvJornadas'
  <2>1. TypeOKJornadas'
    <3>1. rechazos' = rechazos /\ rechazando' = rechazando \cup {<<o, r>>}
          /\ UNCHANGED <<instante, perfil, listando, ofertas, reparto, llegando, finalizando, historial, contadas, refechas>>
      BY <1>6 DEF RechazarPedido, LosResumenes
    <3>2. rechazos' \cup rechazando' \subseteq Encargos \X Repartidores
      BY <1>1, <3>1 DEF TypeOKJornadas
    <3> QED BY <1>1, <3>1, <3>2 DEF TypeOKJornadas
  <2> QED BY <1>6, <2>1, PasoOferta DEF RechazarPedido
<1>7. ASSUME NEW o \in Encargos, RegistrarRechazo(r, o) PROVE IInvJornadas'
  <2>1. TypeOKJornadas'
    BY <1>1, <1>7 DEF TypeOKJornadas, RegistrarRechazo, LosResumenes
  <2> QED BY <1>7, <2>1, PasoOferta DEF RegistrarRechazo
<1>8. ASSUME NEW o \in Encargos, TomarOferta(r, o) PROVE IInvJornadas'
  <2> DEFINE fila == [estado |-> "EN_CAMINO_ENTREGA", repartidor |-> r, finalizado |-> {}]
  <2>1. /\ reparto[o] = SinRepartidor /\ reparto' = [reparto EXCEPT ![o] = fila]
        /\ UNCHANGED <<instante, LasOfertas, llegando, finalizando, LosResumenes>>
    BY <1>8 DEF TomarOferta
  <2>2. fila \in EntregaFila /\ fila.finalizado = {} /\ fila.estado = "EN_CAMINO_ENTREGA"
    BY DEF EntregaFila, Recorrido
  <2> HIDE DEF fila
  <2>3. TypeOKJornadas'
    BY <1>1, <2>1, <2>2 DEF TypeOKJornadas, LasOfertas, LosResumenes
  <2>4. reparto[o].finalizado = {} /\ reparto[o].estado = "ACEPTADO"
    BY <2>1 DEF SinRepartidor
  <2>5. \A q \in Encargos : /\ reparto'[q].finalizado = reparto[q].finalizado
                            /\ reparto'[q].estado = "borrado" <=> reparto[q].estado = "borrado"
    BY <1>1, <2>1, <2>2, <2>4 DEF TypeOKJornadas
  <2> QED BY <2>1, <2>3, <2>5, PasoSinFecha
<1> QED BY <1>2, <1>3, <1>4, <1>5, <1>6, <1>7, <1>8 DEF Oferta

\* A save that writes the stage alone.
LEMMA PasoDeEtapa ==
  ASSUME IInvJornadas, NEW o \in Encargos, NEW e \in Recorrido \ {"borrado"},
         reparto' = IF reparto[o].estado = "borrado" THEN reparto ELSE [reparto EXCEPT ![o].estado = e],
         UNCHANGED <<instante, LasOfertas, LosResumenes>>,
         llegando' \in [Encargos -> Nat], finalizando' \in [Encargos -> Nat]
  PROVE  IInvJornadas'
<1>1. TypeOKJornadas
  BY DEF IInvJornadas
<1>2. /\ reparto' \in [Encargos -> EntregaFila]
      /\ \A q \in Encargos : /\ reparto'[q].finalizado = reparto[q].finalizado
                             /\ reparto'[q].estado = "borrado" <=> reparto[q].estado = "borrado"
  <2>1. CASE reparto[o].estado = "borrado"
    BY <1>1, <2>1 DEF TypeOKJornadas
  <2>2. CASE reparto[o].estado # "borrado"
    <3>1. [reparto[o] EXCEPT !.estado = e] \in EntregaFila /\ [reparto[o] EXCEPT !.estado = e].estado = e
          /\ [reparto[o] EXCEPT !.estado = e].finalizado = reparto[o].finalizado
      BY <1>1 DEF TypeOKJornadas, EntregaFila
    <3>2. reparto' = [reparto EXCEPT ![o] = [reparto[o] EXCEPT !.estado = e]]
      BY <2>2
    <3> QED BY <1>1, <2>2, <3>1, <3>2 DEF TypeOKJornadas
  <2> QED BY <2>1, <2>2
<1>3. TypeOKJornadas'
  BY <1>1, <1>2 DEF TypeOKJornadas, LasOfertas, LosResumenes
<1> QED BY <1>2, <1>3, PasoSinFecha

LEMMA PasosDeEntrega ==
  ASSUME IInvJornadas, NEW o \in Encargos,
         LeerEnCamino(o) \/ GuardarLlegada(o) \/ LeerLlegada(o) \/ BorrarEncargo(o)
  PROVE  IInvJornadas'
<1>1. TypeOKJornadas
  BY DEF IInvJornadas
<1>2. CASE LeerEnCamino(o) \/ LeerLlegada(o)
  <2>1. llegando' \in [Encargos -> Nat] /\ finalizando' \in [Encargos -> Nat]
    BY <1>1, <1>2 DEF LeerEnCamino, LeerLlegada, TypeOKJornadas
  <2>2. reparto' = reparto /\ UNCHANGED <<instante, LasOfertas, LosResumenes>>
    BY <1>2 DEF LeerEnCamino, LeerLlegada
  <2>3. TypeOKJornadas'
    BY <1>1, <2>1, <2>2 DEF TypeOKJornadas, LasOfertas, LosResumenes
  <2> QED BY <2>2, <2>3, PasoOferta
<1>3. CASE GuardarLlegada(o)
  <2>1. llegando' \in [Encargos -> Nat] /\ finalizando' \in [Encargos -> Nat]
    BY <1>1, <1>3 DEF GuardarLlegada, TypeOKJornadas
  <2> QED BY <1>3, <2>1, PasoDeEtapa DEF GuardarLlegada, Recorrido
<1>4. CASE BorrarEncargo(o)
  <2> DEFINE fila == [SinRepartidor EXCEPT !.estado = "borrado"]
  <2>1. fila \in EntregaFila /\ fila.finalizado = {} /\ fila.estado = "borrado"
    BY DEF SinRepartidor, EntregaFila, Recorrido
  <2>2. /\ reparto' = [reparto EXCEPT ![o] = fila] /\ rechazos' \subseteq rechazos
        /\ UNCHANGED <<instante, perfil, listando, ofertas, rechazando, llegando, finalizando, LosResumenes>>
    BY <1>4 DEF BorrarEncargo
  <2> HIDE DEF fila
  <2>3. TypeOKJornadas'
    BY <1>1, <2>1, <2>2 DEF TypeOKJornadas, LosResumenes
  <2>4. \A q \in Encargos : \/ reparto'[q] = reparto[q]
                            \/ reparto'[q].finalizado = {} /\ reparto'[q].estado = "borrado"
    BY <1>1, <2>1, <2>2 DEF TypeOKJornadas
  <2> QED BY <2>2, <2>3, <2>4, PasoSinFecha
<1> QED BY <1>2, <1>3, <1>4

LEMMA PasoMarkFinalizado ==
  ASSUME IInvJornadas, NEW o \in Encargos, MarkFinalizado(o)
  PROVE  IInvJornadas'
<1>1. TypeOKJornadas
  BY DEF IInvJornadas
<1>2. /\ finalizando' \in [Encargos -> Nat]
      /\ UNCHANGED <<instante, LasOfertas, llegando, historial, contadas>>
  BY <1>1 DEF MarkFinalizado, TypeOKJornadas
<1>3. CASE reparto[o].estado = "borrado"
  <2>1. UNCHANGED <<reparto, refechas>>
    BY <1>3 DEF MarkFinalizado
  <2>2. TypeOKJornadas'
    BY <1>1, <1>2, <2>1 DEF TypeOKJornadas, LasOfertas
  <2> QED BY <1>2, <2>1, <2>2, PasoOferta DEF LosResumenes
<1>4. CASE reparto[o].estado # "borrado"
  <2> DEFINE fila == [reparto[o] EXCEPT !.estado = "FINALIZADO", !.finalizado = {instante}]
  <2>1. /\ reparto' = [reparto EXCEPT ![o] = fila]
        /\ refechas' = IF reparto[o].finalizado = {} THEN refechas ELSE refechas + 1
    <3>1. /\ reparto' = [reparto EXCEPT ![o].estado = "FINALIZADO", ![o].finalizado = {instante}]
          /\ refechas' = IF reparto[o].finalizado = {} THEN refechas ELSE refechas + 1
      BY <1>4 DEF MarkFinalizado
    <3> QED BY <1>1, <3>1 DEF TypeOKJornadas, EntregaFila
  <2>2. instante \in Nat /\ instante \in Inicio .. instante /\ instante \in Inicio .. MaxInstante
    BY <1>1 DEF TypeOKJornadas
  <2>3. fila \in EntregaFila /\ fila.finalizado = {instante} /\ fila.estado = "FINALIZADO"
    BY <1>1, <2>2 DEF TypeOKJornadas, EntregaFila, Recorrido
  <2> HIDE DEF fila
  <2>4. /\ reparto' \in [Encargos -> EntregaFila] /\ reparto'[o].finalizado = {instante}
        /\ reparto'[o].estado = "FINALIZADO" /\ \A q \in Encargos : q # o => reparto'[q] = reparto[q]
    BY <1>1, <2>1, <2>3 DEF TypeOKJornadas
  <2>5. refechas' \in Nat /\ refechas \in Nat /\ refechas' >= refechas
    BY <1>1, <2>1 DEF TypeOKJornadas
  <2>6. TypeOKJornadas'
    BY <1>1, <1>2, <2>4, <2>5 DEF TypeOKJornadas, LasOfertas
  <2>7. FechasPasadas'
    BY <1>2, <2>2, <2>4 DEF IInvJornadas, FechasPasadas
  <2>8. ASSUME NEW q \in Encargos
        PROVE  /\ IsFiniteSet(Semanas(q)') /\ Cardinality(Semanas(q)') <= 1 + refechas'
               /\ reparto'[q].finalizado = {} /\ reparto'[q].estado # "borrado" => Semanas(q)' = {}
    <3>1. /\ IsFiniteSet(Semanas(q)) /\ Cardinality(Semanas(q)) <= 1 + refechas /\ Cardinality(Semanas(q)) \in Nat
          /\ reparto[q].finalizado = {} /\ reparto[q].estado # "borrado" => Semanas(q) = {}
      BY FS_CardinalityType DEF IInvJornadas, SemanasAcotadas
    <3>2. CASE q # o
      <4>1. Semanas(q)' = Semanas(q)
        BY <1>2, <2>4, <3>2 DEF Semanas
      <4> QED BY <2>4, <2>5, <3>1, <3>2, <4>1
    <3>3. CASE q = o
      <4>1. Semanas(o)' \subseteq Semanas(o) \cup {ProximoPago(instante)}
        BY <1>2, <2>4 DEF Semanas
      <4>2. CASE reparto[o].finalizado = {}
        <5>1. Semanas(o) = {} /\ Cardinality(Semanas(o)) = 0
          BY <1>4, <3>1, <3>3, <4>2, FS_EmptySet
        <5>2. /\ IsFiniteSet(Semanas(o)') /\ Cardinality(Semanas(o)') \in Nat
              /\ Cardinality(Semanas(o)') <= Cardinality(Semanas(o)) + 1
          BY <3>1, <3>3, <4>1, ConUnaMas
        <5>3. Cardinality(Semanas(o)') <= 1 + refechas'
          BY <2>5, <5>1, <5>2
        <5> QED BY <2>4, <3>3, <5>2, <5>3
      <4>3. CASE reparto[o].finalizado # {}
        <5>1. refechas' = refechas + 1
          BY <2>1, <4>3
        <5>2. /\ IsFiniteSet(Semanas(o)') /\ Cardinality(Semanas(o)') \in Nat
              /\ Cardinality(Semanas(o)') <= Cardinality(Semanas(o)) + 1
          BY <3>1, <3>3, <4>1, ConUnaMas
        <5>3. Cardinality(Semanas(o)') <= 1 + refechas'
          BY <2>5, <3>1, <3>3, <5>1, <5>2
        <5> QED BY <2>4, <3>3, <5>2, <5>3
      <4> QED BY <4>2, <4>3
    <3> QED BY <3>2, <3>3
  <2>9. SemanasAcotadas'
    BY <2>8 DEF SemanasAcotadas
  <2> QED BY <1>2, <2>6, <2>7, <2>9 DEF IInvJornadas, CierresEnDomingo
<1> QED BY <1>3, <1>4

LEMMA PasoListHistorial ==
  ASSUME IInvJornadas, NEW r \in Repartidores, ListHistorial(r)
  PROVE  IInvJornadas'
<1> DEFINE leidas == {x \in Encargos \X (Inicio .. instante) :
                        Suya(x[1], r) /\ Terminada(x[1]) /\ x[2] \in reparto[x[1]].finalizado}
<1>1. /\ historial' = [historial EXCEPT ![r] = {leidas}]
      /\ UNCHANGED <<instante, LasOfertas, reparto, llegando, finalizando, contadas, refechas>>
  BY DEF ListHistorial
<1>2. leidas \subseteq Encargos \X (Inicio .. instante)
      /\ \A q, f : <<q, f>> \in leidas => f \in reparto[q].finalizado
  OBVIOUS
<1> HIDE DEF leidas
<1>3. TypeOKJornadas /\ DOMAIN historial = Repartidores
  BY DEF IInvJornadas
<1>4. /\ historial'[r] = {leidas} /\ DOMAIN historial' = Repartidores
      /\ historial' = [s \in Repartidores |-> historial'[s]]
      /\ \A s \in Repartidores : s # r => historial'[s] = historial[s]
  BY <1>1, <1>3
<1>5. TypeOKJornadas'
  <2>1. \A s \in Repartidores : \A filas \in historial'[s] : filas \subseteq Encargos \X (Inicio .. instante)
    BY <1>2, <1>3, <1>4 DEF TypeOKJornadas
  <2> QED BY <1>1, <1>3, <2>1 DEF TypeOKJornadas, LasOfertas
<1>6. ASSUME NEW q \in Encargos PROVE Semanas(q)' \subseteq Semanas(q)
  <2>1. ASSUME NEW w \in Nat, NEW s \in Repartidores, NEW filas \in historial'[s], NEW f \in Nat,
               <<q, f>> \in filas, w = ProximoPago(f)
        PROVE  w \in Semanas(q)
    <3>1. CASE s = r
      <4>1. f \in reparto[q].finalizado
        BY <1>2, <1>4, <2>1, <3>1
      <4> QED BY <2>1, <4>1 DEF Semanas
    <3>2. CASE s # r
      BY <1>4, <2>1, <3>2 DEF Semanas
    <3> QED BY <3>1, <3>2
  <2>2. ASSUME NEW w \in Nat, NEW f \in reparto'[q].finalizado, w = ProximoPago(f) PROVE w \in Semanas(q)
    BY <1>1, <2>2 DEF Semanas
  <2>3. ASSUME NEW w \in Nat, <<q, w>> \in contadas' PROVE w \in Semanas(q)
    BY <1>1, <2>3 DEF Semanas
  <2> QED BY <2>1, <2>2, <2>3 DEF Semanas
<1>7. SemanasAcotadas'
  <2>1. ASSUME NEW q \in Encargos
        PROVE  /\ IsFiniteSet(Semanas(q)') /\ Cardinality(Semanas(q)') <= 1 + refechas'
               /\ reparto'[q].finalizado = {} /\ reparto'[q].estado # "borrado" => Semanas(q)' = {}
    BY <1>1, <1>6, SemanasQueSiguen
  <2> QED BY <2>1 DEF SemanasAcotadas
<1> QED BY <1>1, <1>4, <1>5, <1>7 DEF IInvJornadas, FechasPasadas, CierresEnDomingo

LEMMA PasoResumen ==
  ASSUME IInvJornadas, NEW r \in Repartidores, Resumen(r)
  PROVE  IInvJornadas'
<1>1. PICK finalizadas \in historial[r] :
        contadas' = contadas \cup {<<x[1], ProximoPago(instante)>> : x \in {x \in finalizadas : EnLaSemana(x[2], instante)}}
  BY DEF Resumen
<1>2. /\ historial' = [historial EXCEPT ![r] = {}]
      /\ UNCHANGED <<instante, LasOfertas, reparto, llegando, finalizando, refechas>>
  BY DEF Resumen
<1>3. TypeOKJornadas /\ DOMAIN historial = Repartidores /\ instante \in Nat
  <2>1. TypeOKJornadas /\ DOMAIN historial = Repartidores
    BY DEF IInvJornadas
  <2>2. instante \in Inicio .. MaxInstante
    BY <2>1 DEF TypeOKJornadas
  <2> QED BY <2>1, <2>2, EnNat
<1>4. /\ historial'[r] = {} /\ DOMAIN historial' = Repartidores
      /\ historial' = [s \in Repartidores |-> historial'[s]]
      /\ \A s \in Repartidores : s # r => historial'[s] = historial[s]
  BY <1>2, <1>3
<1>5. finalizadas \subseteq Encargos \X (Inicio .. instante)
  BY <1>3 DEF TypeOKJornadas
<1>6. ProximoPago(instante) \in Nat /\ ProximoPago(instante) % 14 = 1
  BY <1>3, Comienzo
<1>7. \A y \in contadas' : \/ y \in contadas
                           \/ \E f \in Nat : /\ y[1] \in Encargos /\ <<y[1], f>> \in finalizadas /\ EnLaSemana(f, instante)
                                             /\ y = <<y[1], ProximoPago(instante)>> /\ y[2] = ProximoPago(instante)
  <2> SUFFICES ASSUME NEW y \in contadas', y \notin contadas
               PROVE  \E f \in Nat : /\ y[1] \in Encargos /\ <<y[1], f>> \in finalizadas /\ EnLaSemana(f, instante)
                                     /\ y = <<y[1], ProximoPago(instante)>> /\ y[2] = ProximoPago(instante)
    OBVIOUS
  <2>1. PICK x \in finalizadas : EnLaSemana(x[2], instante) /\ y = <<x[1], ProximoPago(instante)>>
    BY <1>1
  <2>2. x \in Encargos \X (Inicio .. instante) /\ x = <<x[1], x[2]>> /\ x[2] \in Nat /\ x[1] \in Encargos
    BY <1>3, <1>5
  <2> QED BY <2>1, <2>2
<1>8. contadas' \subseteq Encargos \X Nat
  <2>1. contadas \subseteq Encargos \X Nat
    BY <1>3 DEF TypeOKJornadas
  <2>2. ASSUME NEW y \in contadas', y \notin contadas PROVE y \in Encargos \X Nat
    <3>1. y[1] \in Encargos /\ y = <<y[1], ProximoPago(instante)>>
      BY <1>7, <2>2
    <3> QED BY <1>6, <3>1
  <2> QED BY <2>1, <2>2
<1>9. TypeOKJornadas'
  <2>1. \A s \in Repartidores : \A filas \in historial'[s] : filas \subseteq Encargos \X (Inicio .. instante)
    BY <1>3, <1>4 DEF TypeOKJornadas
  <2> QED BY <1>2, <1>3, <1>8, <2>1 DEF TypeOKJornadas, LasOfertas
<1>10. CierresEnDomingo'
  BY <1>6, <1>7 DEF IInvJornadas, CierresEnDomingo
<1>11. ASSUME NEW q \in Encargos PROVE Semanas(q)' \subseteq Semanas(q)
  <2>1. ASSUME NEW w \in Nat, <<q, w>> \in contadas' PROVE w \in Semanas(q)
    <3>1. CASE <<q, w>> \in contadas
      BY <3>1 DEF Semanas
    <3>2. CASE <<q, w>> \notin contadas
      <4>1. PICK f \in Nat : <<q, f>> \in finalizadas /\ EnLaSemana(f, instante) /\ w = ProximoPago(instante)
        BY <1>7, <2>1, <3>2
      <4>2. w = ProximoPago(f)
        BY <1>3, <4>1, MismaSemana
      <4> QED BY <4>1, <4>2 DEF Semanas
    <3> QED BY <3>1, <3>2
  <2>2. ASSUME NEW w \in Nat, NEW s \in Repartidores, NEW filas \in historial'[s], NEW f \in Nat,
               <<q, f>> \in filas, w = ProximoPago(f)
        PROVE  w \in Semanas(q)
    BY <1>4, <2>2 DEF Semanas
  <2>3. ASSUME NEW w \in Nat, NEW f \in reparto'[q].finalizado, w = ProximoPago(f) PROVE w \in Semanas(q)
    BY <1>2, <2>3 DEF Semanas
  <2> QED BY <2>1, <2>2, <2>3 DEF Semanas
<1>12. SemanasAcotadas'
  <2>1. ASSUME NEW q \in Encargos
        PROVE  /\ IsFiniteSet(Semanas(q)') /\ Cardinality(Semanas(q)') <= 1 + refechas'
               /\ reparto'[q].finalizado = {} /\ reparto'[q].estado # "borrado" => Semanas(q)' = {}
    BY <1>2, <1>11, SemanasQueSiguen
  <2> QED BY <2>1 DEF SemanasAcotadas
<1> QED BY <1>2, <1>4, <1>9, <1>10, <1>12 DEF IInvJornadas, FechasPasadas

LEMMA PasoMedioDia ==
  ASSUME IInvJornadas, PasaMedioDia
  PROVE  IInvJornadas'
<1>1. /\ instante' = instante + 1 /\ instante < MaxInstante
      /\ UNCHANGED <<LasOfertas, reparto, llegando, finalizando, LosResumenes>>
  BY DEF PasaMedioDia
<1>2. instante \in Inicio .. MaxInstante /\ Inicio .. instante \subseteq Inicio .. instante'
  BY <1>1 DEF IInvJornadas, TypeOKJornadas
<1>3. instante' \in Inicio .. MaxInstante
  BY <1>1, <1>2
<1>4. UNCHANGED <<historial, contadas, refechas, perfil, rechazos, listando, ofertas, rechazando, reparto, llegando, finalizando>>
  BY <1>1 DEF LosResumenes, LasOfertas
<1>5. TypeOKJornadas'
  <2>1. \A s \in Repartidores : \A filas \in historial[s] : filas \subseteq Encargos \X (Inicio .. instante')
    BY <1>2 DEF IInvJornadas, TypeOKJornadas
  <2> QED BY <1>3, <1>4, <2>1 DEF IInvJornadas, TypeOKJornadas
<1>6. FechasPasadas'
  BY <1>2, <1>4 DEF IInvJornadas, FechasPasadas
<1>7. SemanasAcotadas'
  <2>1. \A o \in Encargos : Semanas(o)' = Semanas(o)
    BY <1>4 DEF Semanas
  <2> QED BY <1>4, <2>1 DEF IInvJornadas, SemanasAcotadas
<1> QED BY <1>4, <1>5, <1>6, <1>7 DEF IInvJornadas, CierresEnDomingo

LEMMA InicioJornadas == InitJornadas => IInvJornadas
<1> SUFFICES ASSUME InitJornadas PROVE IInvJornadas
  OBVIOUS
<1>1. SinRepartidor \in EntregaFila /\ SinRepartidor.finalizado = {}
  BY DEF SinRepartidor, EntregaFila, Recorrido
<1>2. DOMAIN historial = Repartidores /\ historial = [r \in Repartidores |-> historial[r]]
      /\ \A r \in Repartidores : historial[r] = {}
  BY DEF InitJornadas
<1>3. TypeOKJornadas
  BY <1>1, <1>2 DEF InitJornadas, TypeOKJornadas
<1>4. \A o \in Encargos : Semanas(o) = {}
  BY <1>1, <1>2 DEF InitJornadas, Semanas
<1>5. SemanasAcotadas
  <2>1. IsFiniteSet({}) /\ Cardinality({}) = 0
    BY FS_EmptySet
  <2>2. refechas = 0
    BY DEF InitJornadas
  <2>3. \A o \in Encargos : IsFiniteSet(Semanas(o)) /\ Cardinality(Semanas(o)) = 0
    BY <1>4, <2>1
  <2> QED BY <1>4, <2>2, <2>3 DEF SemanasAcotadas
<1>6. FechasPasadas
  BY <1>1 DEF InitJornadas, FechasPasadas
<1>7. CierresEnDomingo
  BY DEF InitJornadas, CierresEnDomingo
<1> QED BY <1>2, <1>3, <1>5, <1>6, <1>7 DEF IInvJornadas

LEMMA PasoJornadas == IInvJornadas /\ [NextJornadas]_varsJornadas => IInvJornadas'
<1> SUFFICES ASSUME IInvJornadas, [NextJornadas]_varsJornadas PROVE IInvJornadas'
  OBVIOUS
<1>1. CASE UNCHANGED varsJornadas
  <2>1. UNCHANGED <<instante, perfil, rechazos, listando, ofertas, rechazando, reparto, llegando, finalizando, historial, contadas, refechas>>
    BY <1>1 DEF varsJornadas
  <2>2. TypeOKJornadas'
    BY <2>1 DEF IInvJornadas, TypeOKJornadas
  <2> QED BY <2>1, <2>2, PasoOferta DEF LosResumenes
<1>2. ASSUME NEW r \in Repartidores, Oferta(r) \/ ListHistorial(r) \/ Resumen(r) PROVE IInvJornadas'
  BY <1>2, PasosDeOferta, PasoListHistorial, PasoResumen
<1>3. ASSUME NEW o \in Encargos,
             LeerEnCamino(o) \/ GuardarLlegada(o) \/ LeerLlegada(o) \/ MarkFinalizado(o) \/ BorrarEncargo(o)
      PROVE  IInvJornadas'
  BY <1>3, PasosDeEntrega, PasoMarkFinalizado
<1>4. CASE PasaMedioDia
  BY <1>4, PasoMedioDia
<1> QED BY <1>1, <1>2, <1>3, <1>4 DEF NextJornadas

LEMMA UnPagoPorSemana == IInvJornadas => PagoDeUnaSemana
<1> SUFFICES ASSUME IInvJornadas PROVE PagoDeUnaSemana
  OBVIOUS
<1>1. instante \in Nat /\ Inicio \in Nat
  BY DEF IInvJornadas, TypeOKJornadas
<1>2. \A o \in Encargos : \A f \in reparto[o].finalizado : EnLaSemana(f, instante) \/ ProximoPago(f) <= instante
  <2> SUFFICES ASSUME NEW o \in Encargos, NEW f \in reparto[o].finalizado
               PROVE  EnLaSemana(f, instante) \/ ProximoPago(f) <= instante
    OBVIOUS
  <2>1. f \in Nat /\ f <= instante
    BY <1>1 DEF IInvJornadas, FechasPasadas
  <2> QED BY <1>1, <2>1, SemanaActualOCerrada
<1>3. ASSUME NEW o \in Encargos PROVE Cardinality({x \in contadas : x[1] = o}) <= 1 + refechas
  <2> DEFINE S == {x \in contadas : x[1] = o}
             f == [x \in S |-> x[2]]
  <2>1. \A x \in S : x = <<o, x[2]>> /\ x[2] \in Nat
    BY DEF IInvJornadas, TypeOKJornadas
  <2>2. f \in [S -> Semanas(o)]
    BY <2>1 DEF Semanas
  <2>3. \A x, y \in S : f[x] = f[y] => x = y
    BY <2>1
  <2>4. IsFiniteSet(Semanas(o)) /\ Cardinality(Semanas(o)) <= 1 + refechas
    BY DEF IInvJornadas, SemanasAcotadas
  <2> HIDE DEF f, S
  <2>5. Cardinality(S) \in Nat /\ Cardinality(Semanas(o)) \in Nat /\ Cardinality(S) <= Cardinality(Semanas(o))
    BY <2>2, <2>3, <2>4, UnoAUno
  <2>6. refechas \in Nat
    BY DEF IInvJornadas, TypeOKJornadas
  <2>7. Cardinality(S) <= 1 + refechas
    BY <2>4, <2>5, <2>6
  <2> QED BY <2>7 DEF S
<1> QED BY <1>2, <1>3 DEF PagoDeUnaSemana, IInvJornadas, CierresEnDomingo

LEMMA SiempreJornadas == SpecJornadas => []IInvJornadas
BY InicioJornadas, PasoJornadas, PTL DEF SpecJornadas

\* The type invariant of the courier's day.
THEOREM TiposJornadas == SpecJornadas => []TypeOKJornadas
<1>1. IInvJornadas => TypeOKJornadas
  BY DEF IInvJornadas
<1> QED BY <1>1, SiempreJornadas, PTL

\* Every delivery is paid in one week and only in one, but for each time that
\* overlapping requests dated it again.
THEOREM PagadoUnaVez == SpecJornadas => []PagoDeUnaSemana
BY SiempreJornadas, UnPagoPorSemana, PTL

HIDE ConstantesJornadas

------------------------------------------------------------------------------
(* The payments *)

USE ConstantesPagos

------------------------------------------------------------------------------
(* The inductive invariant *)

Cobrado(p, o) == pago[p] # SinCobro /\ pago[p].fase = "AUTORIZADO" /\ pago[p].orden = o

\* A payment that a request works on is stored, authorized while its
\* transaction is not opened, and not announced yet.
TrabajoNuevo ==
  \A c \in Cobradores, p \in Cobros : Trabaja(c, p) =>
    /\ pago[p] # SinCobro
    /\ tarea[p] = "no hay"
    /\ cobrador[c].fase \in {"mirar", "abrir"} => pago[p].fase = "AUTORIZADO"

UnCobrador ==
  \A c, d \in Cobradores, p \in Cobros : Trabaja(c, p) /\ Trabaja(d, p) => c = d

\* Each notice but one has its retry, and that one too before it is stored.
AvisosContados ==
  \A p \in Cobros :
    /\ avisosPago[p] <= 1 + reintentos[p]
    /\ tarea[p] \in {"no hay", "en cola", "guardar"} => avisosPago[p] <= reintentos[p]
    /\ pago[p] = SinCobro => tarea[p] = "no hay"

\* While nothing has failed, the request that opened a transaction announces
\* its payment, and each task stores one notice.
Anunciara(p) ==
  \/ tarea[p] # "no hay"
  \/ \E c \in Cobradores : cobrador[c].fase = "encolar" /\ cobrador[c].cobro = p

SinTropiezos ==
  tropiezos = 0 =>
    /\ truncos = {}
    /\ \A p \in Cobros :
         /\ tarea[p] \notin {"fallida", "perdida"}
         /\ reintentos[p] = 0
         /\ tarea[p] \in {"empujar", "hecha"} => avisosPago[p] = 1
    /\ \A o \in transaccion : \E p \in Cobros : Cobrado(p, o) /\ Anunciara(p)

IInvPagos ==
  TypeOKPagos /\ TrabajoNuevo /\ UnCobrador /\ CobroConTransaccion /\ AvisosContados /\ SinTropiezos

------------------------------------------------------------------------------
(* Lemmas *)

LEMMA Tareas ==
  /\ Inactivo \in Cobrando
  /\ \A o \in Ordenes, a \in BOOLEAN : [fase |-> "crear", orden |-> o, authorized |-> a] \in Cobrando
  /\ \A f \in {"mirar", "abrir", "encolar"}, p \in Cobros : [fase |-> f, cobro |-> p] \in Cobrando
BY DEF Cobrando, Inactivo

LEMMA EsCrear ==
  ASSUME NEW t \in Cobrando, t.fase = "crear"
  PROVE  t.orden \in Ordenes /\ t.authorized \in BOOLEAN
BY DEF Cobrando

LEMMA EsTrabajo ==
  ASSUME NEW t \in Cobrando, t.fase \in {"mirar", "abrir", "encolar"}
  PROVE  /\ t.cobro \in Cobros
         /\ \A f \in {"mirar", "abrir", "encolar"} : [t EXCEPT !.fase = f] = [fase |-> f, cobro |-> t.cobro]
BY DEF Cobrando

LEMMA EsPago ==
  ASSUME NEW x \in Pagado, x # SinCobro
  PROVE  x.orden \in Ordenes /\ x.fase \in {"AUTORIZADO", "FALLIDO"}
BY DEF Pagado, SinCobro

\* A request that becomes idle, or creates its row, works on no payment.
LEMMA Desocupa ==
  ASSUME TypeOKPagos, NEW c \in Cobradores, NEW t \in Cobrando, t.fase \in {"inactivo", "crear"},
         Hace(c, t)
  PROVE  /\ cobrador' \in [Cobradores -> Cobrando]
         /\ cobrador'[c] = t
         /\ \A d \in Cobradores \ {c} : cobrador'[d] = cobrador[d]
         /\ \A d \in Cobradores, p \in Cobros : Trabaja(d, p)' => d # c /\ Trabaja(d, p)
BY DEF TypeOKPagos, Hace, Trabaja

\* A request that goes on works on the same payment.
LEMMA SigueCobrando ==
  ASSUME TypeOKPagos, NEW c \in Cobradores, NEW f \in {"mirar", "abrir", "encolar"},
         cobrador[c].fase \in {"mirar", "abrir", "encolar"}, Avanza(c, f)
  PROVE  /\ cobrador' \in [Cobradores -> Cobrando]
         /\ cobrador'[c] = [fase |-> f, cobro |-> cobrador[c].cobro]
         /\ cobrador[c].cobro \in Cobros
         /\ \A d \in Cobradores \ {c} : cobrador'[d] = cobrador[d]
         /\ \A d \in Cobradores, p \in Cobros : Trabaja(d, p)' <=> Trabaja(d, p)
<1>1. cobrador[c] \in Cobrando
  BY DEF TypeOKPagos
<1>2. cobrador[c].cobro \in Cobros
      /\ [cobrador[c] EXCEPT !.fase = f] = [fase |-> f, cobro |-> cobrador[c].cobro]
  BY <1>1, EsTrabajo
<1>3. cobrador' = [cobrador EXCEPT ![c] = [fase |-> f, cobro |-> cobrador[c].cobro]]
  BY <1>2 DEF Avanza, Hace
<1>4. [fase |-> f, cobro |-> cobrador[c].cobro] \in Cobrando
  BY <1>2, Tareas
<1> QED BY <1>2, <1>3, <1>4 DEF TypeOKPagos, Trabaja

\* A transaction that some payment announces stays so when the stored payments
\* and the tasks stay and a request leaves its last phase for its task.
LEMMA SigueAnunciada ==
  ASSUME IInvPagos, tropiezos = 0, NEW o \in transaccion,
         \A p \in Cobros : pago[p] # SinCobro => pago'[p] = pago[p],
         \A p \in Cobros : tarea[p] # "no hay" => tarea'[p] # "no hay",
         \A d \in Cobradores : cobrador[d].fase = "encolar" =>
           cobrador'[d] = cobrador[d] \/ tarea'[cobrador[d].cobro] # "no hay"
  PROVE  \E p \in Cobros : (Cobrado(p, o) /\ Anunciara(p))'
<1>1. PICK p \in Cobros : Cobrado(p, o) /\ Anunciara(p)
  BY DEF IInvPagos, SinTropiezos
<1>2. Cobrado(p, o)'
  BY <1>1 DEF Cobrado
<1>3. CASE tarea[p] # "no hay"
  BY <1>2, <1>3 DEF Anunciara
<1>4. CASE \E d \in Cobradores : cobrador[d].fase = "encolar" /\ cobrador[d].cobro = p
  <2>1. PICK d \in Cobradores : cobrador[d].fase = "encolar" /\ cobrador[d].cobro = p
    BY <1>4
  <2>2. Anunciara(p)'
    BY <2>1 DEF Anunciara
  <2> QED BY <1>2, <2>2
<1> QED BY <1>1, <1>3, <1>4 DEF Anunciara

------------------------------------------------------------------------------
(* The steps of a request *)

LEMMA PasoRegistrar ==
  ASSUME IInvPagos, NEW c \in Cobradores, NEW o \in Ordenes, NEW a \in BOOLEAN, RegistrarPago(c, o, a)
  PROVE  IInvPagos'
<1> DEFINE t == [fase |-> "crear", orden |-> o, authorized |-> a]
<1>1. t \in Cobrando /\ t.fase = "crear"
  BY Tareas
<1>2. TypeOKPagos /\ Hace(c, t)
  BY DEF IInvPagos, RegistrarPago
<1>3. /\ cobrador' \in [Cobradores -> Cobrando]
      /\ cobrador'[c] = t
      /\ \A d \in Cobradores \ {c} : cobrador'[d] = cobrador[d]
      /\ \A d \in Cobradores, p \in Cobros : Trabaja(d, p)' => d # c /\ Trabaja(d, p)
  <2> HIDE DEF t
  <2> QED BY <1>1, <1>2, Desocupa
<1>4. cobrador[c].fase = "inactivo" /\ UNCHANGED <<ordenes, pago, transaccion, tarea, avisosPago, reintentos, truncos, tropiezos>>
  BY DEF RegistrarPago, Avisado, Inactivo
<1> HIDE DEF t
<1>5. TypeOKPagos'
  BY <1>2, <1>3, <1>4 DEF TypeOKPagos
<1>6. TrabajoNuevo' /\ UnCobrador'
  BY <1>3, <1>4 DEF IInvPagos, TrabajoNuevo, UnCobrador
<1>7. CobroConTransaccion'
  BY <1>3, <1>4 DEF IInvPagos, CobroConTransaccion, EnTabla
<1>8. AvisosContados'
  BY <1>4 DEF IInvPagos, AvisosContados
<1>9. SinTropiezos'
  <2>1. \A x \in transaccion : tropiezos = 0 => \E p \in Cobros : (Cobrado(p, x) /\ Anunciara(p))'
    BY <1>3, <1>4, SigueAnunciada
  <2> QED BY <1>4, <2>1 DEF IInvPagos, SinTropiezos
<1> QED BY <1>5, <1>6, <1>7, <1>8, <1>9 DEF IInvPagos

LEMMA PasoCrear ==
  ASSUME IInvPagos, NEW c \in Cobradores, CrearPago(c)
  PROVE  IInvPagos'
<1> DEFINE t == cobrador[c]
<1>1. TypeOKPagos /\ t \in Cobrando /\ t.fase = "crear"
  BY DEF IInvPagos, CrearPago, TypeOKPagos
<1>2. t.orden \in Ordenes /\ t.authorized \in BOOLEAN
  BY <1>1, EsCrear
<1>3. UNCHANGED <<ordenes, transaccion, tarea, avisosPago, reintentos, truncos, tropiezos>>
  BY DEF CrearPago, Avisado
<1>4. CASE t.orden \notin ordenes
  <2>1. Hace(c, Inactivo) /\ UNCHANGED pago
    BY <1>4 DEF CrearPago
  <2>2. Inactivo \in Cobrando /\ Inactivo.fase = "inactivo"
    BY Tareas DEF Inactivo
  <2>3. /\ cobrador' \in [Cobradores -> Cobrando]
        /\ cobrador'[c] = Inactivo
        /\ \A d \in Cobradores \ {c} : cobrador'[d] = cobrador[d]
        /\ \A d \in Cobradores, p \in Cobros : Trabaja(d, p)' => d # c /\ Trabaja(d, p)
    BY <1>1, <2>1, <2>2, Desocupa
  <2>4. TypeOKPagos'
    BY <1>1, <1>3, <2>1, <2>3 DEF TypeOKPagos
  <2>5. TrabajoNuevo' /\ UnCobrador'
    BY <1>3, <2>1, <2>3 DEF IInvPagos, TrabajoNuevo, UnCobrador
  <2>6. CobroConTransaccion'
    BY <1>1, <1>3, <2>1, <2>3 DEF IInvPagos, CobroConTransaccion, EnTabla
  <2>7. AvisosContados'
    BY <1>3, <2>1 DEF IInvPagos, AvisosContados
  <2>8. SinTropiezos'
    <3>1. \A x \in transaccion : tropiezos = 0 => \E p \in Cobros : (Cobrado(p, x) /\ Anunciara(p))'
      BY <1>1, <1>3, <2>1, <2>3, SigueAnunciada
    <3> QED BY <1>3, <2>1, <3>1 DEF IInvPagos, SinTropiezos
  <2> QED BY <2>4, <2>5, <2>6, <2>7, <2>8 DEF IInvPagos
<1>5. CASE t.orden \in ordenes
  <2> DEFINE x == [fase |-> IF t.authorized THEN "AUTORIZADO" ELSE "FALLIDO", orden |-> t.orden]
             f == IF t.authorized THEN "mirar" ELSE "encolar"
  <2>1. PICK p \in Cobros : pago[p] = SinCobro /\ pago' = [pago EXCEPT ![p] = x]
                            /\ Hace(c, [fase |-> f, cobro |-> p])
    BY <1>5 DEF CrearPago
  <2>2. x \in Pagado /\ x # SinCobro /\ (f = "mirar" => x.fase = "AUTORIZADO")
        /\ (x.fase = "AUTORIZADO" => f = "mirar")
    BY <1>2 DEF Pagado, SinCobro
  <2>3. f \in {"mirar", "encolar"} /\ [fase |-> f, cobro |-> p] \in Cobrando
    BY Tareas
  <2>4. \A d \in Cobradores : ~Trabaja(d, p)
    BY <2>1 DEF IInvPagos, TrabajoNuevo
  <2> HIDE DEF x, f
  <2>5. /\ cobrador' = [cobrador EXCEPT ![c] = [fase |-> f, cobro |-> p]]
        /\ cobrador'[c] = [fase |-> f, cobro |-> p]
        /\ \A d \in Cobradores \ {c} : cobrador'[d] = cobrador[d]
        /\ pago'[p] = x /\ \A q \in Cobros \ {p} : pago'[q] = pago[q]
    BY <1>1, <2>1 DEF Hace, TypeOKPagos
  <2>6. TypeOKPagos'
    BY <1>1, <1>3, <2>1, <2>2, <2>3, <2>5 DEF TypeOKPagos
  <2>7. \A d \in Cobradores, q \in Cobros : Trabaja(d, q)' <=> (d = c /\ q = p) \/ (d # c /\ Trabaja(d, q))
    BY <2>3, <2>5 DEF Trabaja
  <2>8. tarea[p] = "no hay"
    BY <2>1 DEF IInvPagos, AvisosContados
  <2>9. TrabajoNuevo'
    <3> SUFFICES ASSUME NEW d \in Cobradores, NEW q \in Cobros, Trabaja(d, q)'
                 PROVE  /\ pago'[q] # SinCobro
                        /\ tarea'[q] = "no hay"
                        /\ cobrador'[d].fase \in {"mirar", "abrir"} => pago'[q].fase = "AUTORIZADO"
      BY DEF TrabajoNuevo
    <3>1. CASE d = c /\ q = p
      <4>1. cobrador'[d].fase = f /\ pago'[q] = x
        BY <3>1, <2>5
      <4>2. f # "abrir"
        BY <2>3
      <4> QED BY <4>1, <4>2, <3>1, <1>3, <2>2, <2>8
    <3>2. CASE d # c /\ q # p /\ Trabaja(d, q)
      <4>1. cobrador'[d] = cobrador[d] /\ pago'[q] = pago[q] /\ tarea' = tarea
        BY <3>2, <1>3, <2>5
      <4> QED BY <4>1, <3>2 DEF IInvPagos, TrabajoNuevo
    <3> QED BY <3>1, <3>2, <2>4, <2>7
  <2>10. UnCobrador'
    BY <2>4, <2>7 DEF IInvPagos, UnCobrador
  <2>11. CobroConTransaccion'
    <3> SUFFICES ASSUME NEW q \in Cobros, EnTabla(q)', pago'[q].fase = "AUTORIZADO",
                        pago'[q].orden \notin transaccion', q \notin truncos'
                 PROVE  \E d \in Cobradores : cobrador'[d].fase \in {"mirar", "abrir"} /\ cobrador'[d].cobro = q
      BY DEF CobroConTransaccion
    <3>1. CASE q = p
      BY <3>1, <2>2, <2>5
    <3>2. CASE q # p
      <4>1. \E d \in Cobradores : cobrador[d].fase \in {"mirar", "abrir"} /\ cobrador[d].cobro = q
        BY <3>2, <1>3, <2>5 DEF IInvPagos, CobroConTransaccion, EnTabla
      <4> QED BY <4>1, <1>1, <2>5
    <3> QED BY <3>1, <3>2
  <2>12. AvisosContados'
    BY <1>3, <2>2, <2>5, <2>8 DEF IInvPagos, AvisosContados
  <2>13. SinTropiezos'
    <3>1. \A y \in transaccion : tropiezos = 0 => \E q \in Cobros : (Cobrado(q, y) /\ Anunciara(q))'
      BY <1>1, <1>3, <2>1, <2>5, SigueAnunciada
    <3> QED BY <1>3, <3>1 DEF IInvPagos, SinTropiezos
  <2> QED BY <2>6, <2>9, <2>10, <2>11, <2>12, <2>13 DEF IInvPagos
<1> QED BY <1>4, <1>5

LEMMA PasoMirarTransaccion ==
  ASSUME IInvPagos, NEW c \in Cobradores, MirarTransaccion(c)
  PROVE  IInvPagos'
<1> DEFINE p == cobrador[c].cobro
           f == IF pago[p].orden \in transaccion THEN "encolar" ELSE "abrir"
<1>1. TypeOKPagos /\ cobrador[c].fase = "mirar" /\ Avanza(c, f)
      /\ UNCHANGED <<ordenes, pago, transaccion, tarea, avisosPago, reintentos, truncos, tropiezos>>
  BY DEF IInvPagos, MirarTransaccion, Avisado
<1>2. f \in {"encolar", "abrir"} /\ (f = "encolar" => pago[p].orden \in transaccion)
  OBVIOUS
<1> HIDE DEF f
<1>3. /\ cobrador' \in [Cobradores -> Cobrando]
      /\ cobrador'[c] = [fase |-> f, cobro |-> p]
      /\ p \in Cobros
      /\ \A d \in Cobradores \ {c} : cobrador'[d] = cobrador[d]
      /\ \A d \in Cobradores, q \in Cobros : Trabaja(d, q)' <=> Trabaja(d, q)
  BY <1>1, <1>2, SigueCobrando
<1>4. TypeOKPagos'
  BY <1>1, <1>3 DEF TypeOKPagos
<1>5. TrabajoNuevo'
  <2> SUFFICES ASSUME NEW d \in Cobradores, NEW q \in Cobros, Trabaja(d, q)
               PROVE  /\ pago[q] # SinCobro
                      /\ tarea[q] = "no hay"
                      /\ cobrador'[d].fase \in {"mirar", "abrir"} => pago[q].fase = "AUTORIZADO"
    BY <1>1, <1>3 DEF TrabajoNuevo
  <2>1. pago[q] # SinCobro /\ tarea[q] = "no hay"
        /\ (cobrador[d].fase \in {"mirar", "abrir"} => pago[q].fase = "AUTORIZADO")
    BY DEF IInvPagos, TrabajoNuevo
  <2>2. cobrador'[d] = cobrador[d] \/ cobrador[d].fase = "mirar"
    BY <1>1, <1>3
  <2> QED BY <2>1, <2>2
<1>6. UnCobrador'
  BY <1>3 DEF IInvPagos, UnCobrador
<1>7. CobroConTransaccion'
  <2> SUFFICES ASSUME NEW q \in Cobros, EnTabla(q), pago[q].fase = "AUTORIZADO",
                      pago[q].orden \notin transaccion, q \notin truncos
               PROVE  \E d \in Cobradores : cobrador'[d].fase \in {"mirar", "abrir"} /\ cobrador'[d].cobro = q
    BY <1>1 DEF CobroConTransaccion, EnTabla
  <2>1. PICK d \in Cobradores : cobrador[d].fase \in {"mirar", "abrir"} /\ cobrador[d].cobro = q
    BY DEF IInvPagos, CobroConTransaccion
  <2>2. CASE d = c
    BY <2>1, <2>2, <1>2, <1>3
  <2>3. CASE d # c
    BY <2>1, <2>3, <1>3
  <2> QED BY <2>2, <2>3
<1>8. AvisosContados'
  BY <1>1 DEF IInvPagos, AvisosContados
<1>9. SinTropiezos'
  <2>1. \A x \in transaccion : tropiezos = 0 => \E q \in Cobros : (Cobrado(q, x) /\ Anunciara(q))'
    BY <1>1, <1>3, SigueAnunciada
  <2> QED BY <1>1, <2>1 DEF IInvPagos, SinTropiezos
<1> QED BY <1>4, <1>5, <1>6, <1>7, <1>8, <1>9 DEF IInvPagos

\* A request that stops working on its payment p, which is not at risk.
LEMMA PasoSoltar ==
  ASSUME IInvPagos, NEW c \in Cobradores, Hace(c, Inactivo),
         cobrador[c].fase \in {"crear", "mirar", "abrir", "encolar"},
         UNCHANGED <<ordenes, pago, transaccion>>, truncos \subseteq truncos',
         cobrador[c].fase \in {"mirar", "abrir"} =>
           LET p == cobrador[c].cobro
           IN EnTabla(p) => pago[p].orden \in transaccion \/ p \in truncos'
  PROVE  /\ cobrador' \in [Cobradores -> Cobrando]
         /\ UnCobrador'
         /\ CobroConTransaccion'
         /\ \A d \in Cobradores : d = c \/ cobrador'[d] = cobrador[d]
         /\ \A d \in Cobradores, p \in Cobros : Trabaja(d, p)' => d # c /\ Trabaja(d, p)
<1>1. TypeOKPagos /\ Inactivo \in Cobrando /\ Inactivo.fase = "inactivo"
  BY Tareas DEF Inactivo, IInvPagos
<1>2. /\ cobrador' \in [Cobradores -> Cobrando]
      /\ cobrador'[c] = Inactivo
      /\ \A d \in Cobradores \ {c} : cobrador'[d] = cobrador[d]
      /\ \A d \in Cobradores, p \in Cobros : Trabaja(d, p)' => d # c /\ Trabaja(d, p)
  BY <1>1, Desocupa
<1>3. UnCobrador'
  BY <1>2 DEF IInvPagos, UnCobrador
<1>4. CobroConTransaccion'
  <2> SUFFICES ASSUME NEW q \in Cobros, EnTabla(q), pago[q].fase = "AUTORIZADO",
                      pago[q].orden \notin transaccion, q \notin truncos'
               PROVE  \E d \in Cobradores : cobrador'[d].fase \in {"mirar", "abrir"} /\ cobrador'[d].cobro = q
    BY DEF CobroConTransaccion, EnTabla
  <2>1. PICK d \in Cobradores : cobrador[d].fase \in {"mirar", "abrir"} /\ cobrador[d].cobro = q
    BY DEF IInvPagos, CobroConTransaccion
  <2>2. d # c
    BY <2>1
  <2> QED BY <2>1, <2>2, <1>2
<1> QED BY <1>2, <1>3, <1>4

LEMMA PasoAbrir ==
  ASSUME IInvPagos, NEW c \in Cobradores, AbrirTransaccion(c)
  PROVE  IInvPagos'
<1> DEFINE p == cobrador[c].cobro
           o == pago[p].orden
<1>1. TypeOKPagos /\ cobrador[c].fase = "abrir"
      /\ UNCHANGED <<ordenes, pago, tarea, avisosPago, reintentos, truncos, tropiezos>>
  BY DEF IInvPagos, AbrirTransaccion, Avisado
<1>2. p \in Cobros /\ Trabaja(c, p)
  BY <1>1, EsTrabajo DEF TypeOKPagos, Trabaja
<1>3. pago[p] # SinCobro /\ pago[p].fase = "AUTORIZADO" /\ Cobrado(p, o)
  BY <1>1, <1>2 DEF IInvPagos, TrabajoNuevo, Cobrado
<1>4. CASE o \in ordenes \ transaccion
  <2>1. transaccion' = transaccion \cup {o} /\ Avanza(c, "encolar")
    BY <1>4 DEF AbrirTransaccion
  <2>2. /\ cobrador' \in [Cobradores -> Cobrando]
        /\ cobrador'[c] = [fase |-> "encolar", cobro |-> p]
        /\ \A d \in Cobradores \ {c} : cobrador'[d] = cobrador[d]
        /\ \A d \in Cobradores, q \in Cobros : Trabaja(d, q)' <=> Trabaja(d, q)
    BY <1>1, <2>1, SigueCobrando
  <2>3. o \in Ordenes
    BY <1>1, <1>4 DEF TypeOKPagos
  <2>4. TypeOKPagos'
    BY <1>1, <2>1, <2>2, <2>3 DEF TypeOKPagos
  <2>5. TrabajoNuevo'
    <3> SUFFICES ASSUME NEW d \in Cobradores, NEW q \in Cobros, Trabaja(d, q)
                 PROVE  /\ pago[q] # SinCobro
                        /\ tarea[q] = "no hay"
                        /\ cobrador'[d].fase \in {"mirar", "abrir"} => pago[q].fase = "AUTORIZADO"
      BY <1>1, <2>2 DEF TrabajoNuevo
    <3>1. pago[q] # SinCobro /\ tarea[q] = "no hay"
          /\ (cobrador[d].fase \in {"mirar", "abrir"} => pago[q].fase = "AUTORIZADO")
      BY DEF IInvPagos, TrabajoNuevo
    <3>2. cobrador'[d] = cobrador[d] \/ cobrador'[d].fase = "encolar"
      BY <2>2
    <3> QED BY <3>1, <3>2
  <2>6. UnCobrador'
    BY <2>2 DEF IInvPagos, UnCobrador
  <2>7. CobroConTransaccion'
    <3> SUFFICES ASSUME NEW q \in Cobros, EnTabla(q), pago[q].fase = "AUTORIZADO",
                        pago[q].orden \notin transaccion', q \notin truncos
                 PROVE  \E d \in Cobradores : cobrador'[d].fase \in {"mirar", "abrir"} /\ cobrador'[d].cobro = q
      BY <1>1 DEF CobroConTransaccion, EnTabla
    <3>1. PICK d \in Cobradores : cobrador[d].fase \in {"mirar", "abrir"} /\ cobrador[d].cobro = q
      BY <2>1 DEF IInvPagos, CobroConTransaccion
    <3>2. d # c
      BY <3>1, <2>1
    <3> QED BY <3>1, <3>2, <2>2
  <2>8. AvisosContados'
    BY <1>1 DEF IInvPagos, AvisosContados
  <2>9. SinTropiezos'
    <3>1. \A x \in transaccion : tropiezos = 0 => \E q \in Cobros : (Cobrado(q, x) /\ Anunciara(q))'
      BY <1>1, <2>2, SigueAnunciada
    <3>2. PICK q \in Cobros : q = p
      BY <1>2
    <3>3. Anunciara(q)'
      <4>1. cobrador'[c].fase = "encolar" /\ cobrador'[c].cobro = q
        BY <2>2, <3>2
      <4> QED BY <4>1 DEF Anunciara
    <3>4. \A x \in transaccion' : tropiezos = 0 => \E r \in Cobros : (Cobrado(r, x) /\ Anunciara(r))'
      <4> SUFFICES ASSUME NEW x \in transaccion', tropiezos = 0
                   PROVE  \E r \in Cobros : (Cobrado(r, x) /\ Anunciara(r))'
        OBVIOUS
      <4>1. CASE x \in transaccion
        BY <4>1, <3>1
      <4>2. CASE x = o
        <5>1. Cobrado(q, x)'
          BY <4>2, <1>1, <1>3, <3>2 DEF Cobrado
        <5> QED BY <5>1, <3>3
      <4> QED BY <4>1, <4>2, <2>1
    <3> QED BY <1>1, <3>4 DEF IInvPagos, SinTropiezos
  <2> QED BY <2>4, <2>5, <2>6, <2>7, <2>8, <2>9 DEF IInvPagos
<1>5. CASE o \notin ordenes \ transaccion
  <2>1. Hace(c, Inactivo) /\ UNCHANGED transaccion
    BY <1>5 DEF AbrirTransaccion
  <2>2. EnTabla(p) => o \in transaccion
    BY <1>5 DEF EnTabla
  <2>3. /\ cobrador' \in [Cobradores -> Cobrando]
        /\ UnCobrador'
        /\ CobroConTransaccion'
        /\ \A d \in Cobradores : d = c \/ cobrador'[d] = cobrador[d]
        /\ \A d \in Cobradores, q \in Cobros : Trabaja(d, q)' => d # c /\ Trabaja(d, q)
    BY <1>1, <2>1, <2>2, PasoSoltar
  <2>4. TypeOKPagos'
    BY <1>1, <2>1, <2>3 DEF TypeOKPagos
  <2>5. TrabajoNuevo'
    BY <1>1, <2>3 DEF IInvPagos, TrabajoNuevo
  <2>6. AvisosContados'
    BY <1>1 DEF IInvPagos, AvisosContados
  <2>7. SinTropiezos'
    <3>1. \A x \in transaccion : tropiezos = 0 => \E q \in Cobros : (Cobrado(q, x) /\ Anunciara(q))'
      BY <1>1, <2>3, SigueAnunciada
    <3> QED BY <1>1, <2>1, <3>1 DEF IInvPagos, SinTropiezos
  <2> QED BY <2>3, <2>4, <2>5, <2>6, <2>7 DEF IInvPagos
<1> QED BY <1>4, <1>5

LEMMA PasoEncolar ==
  ASSUME IInvPagos, NEW c \in Cobradores, NEW llega \in BOOLEAN, EncolarAviso(c, llega)
  PROVE  IInvPagos'
<1>1. TypeOKPagos /\ cobrador[c].fase = "encolar" /\ Hace(c, Inactivo)
      /\ UNCHANGED <<ordenes, pago, transaccion, avisosPago, reintentos, truncos>>
  BY DEF IInvPagos, EncolarAviso
<1>2. PICK p \in Cobros : p = cobrador[c].cobro
  BY <1>1, EsTrabajo DEF TypeOKPagos
<1>3. Trabaja(c, p) /\ pago[p] # SinCobro /\ tarea[p] = "no hay"
  BY <1>1, <1>2 DEF IInvPagos, TrabajoNuevo, Trabaja
<1>4. /\ cobrador' \in [Cobradores -> Cobrando]
      /\ UnCobrador'
      /\ CobroConTransaccion'
      /\ \A d \in Cobradores : d = c \/ cobrador'[d] = cobrador[d]
      /\ \A d \in Cobradores, q \in Cobros : Trabaja(d, q)' => d # c /\ Trabaja(d, q)
  BY <1>1, PasoSoltar
<1>5. CASE llega
  <2>1. tarea' = [tarea EXCEPT ![p] = "en cola"] /\ tropiezos' = tropiezos
    BY <1>2, <1>5 DEF EncolarAviso
  <2>2. tarea'[p] = "en cola" /\ \A q \in Cobros : q = p \/ tarea'[q] = tarea[q]
    BY <1>1, <2>1 DEF TypeOKPagos
  <2>3. TypeOKPagos'
    BY <1>1, <1>4, <2>1 DEF TypeOKPagos, FasesTarea
  <2>4. TrabajoNuevo'
    <3> SUFFICES ASSUME NEW d \in Cobradores, NEW q \in Cobros, Trabaja(d, q)'
                 PROVE  /\ pago[q] # SinCobro
                        /\ tarea'[q] = "no hay"
                        /\ cobrador'[d].fase \in {"mirar", "abrir"} => pago[q].fase = "AUTORIZADO"
      BY <1>1 DEF TrabajoNuevo
    <3>1. d # c /\ Trabaja(d, q) /\ cobrador'[d] = cobrador[d]
      BY <1>4
    <3>2. q # p
      BY <3>1, <1>3 DEF IInvPagos, UnCobrador
    <3> QED BY <3>1, <3>2, <2>2 DEF IInvPagos, TrabajoNuevo
  <2>5. AvisosContados'
    <3> SUFFICES ASSUME NEW q \in Cobros
                 PROVE  /\ avisosPago[q] <= 1 + reintentos[q]
                        /\ tarea'[q] \in {"no hay", "en cola", "guardar"} => avisosPago[q] <= reintentos[q]
                        /\ pago[q] = SinCobro => tarea'[q] = "no hay"
      BY <1>1 DEF AvisosContados
    <3> QED BY <1>3, <2>2 DEF IInvPagos, AvisosContados
  <2>6. SinTropiezos'
    <3>1. \A x \in transaccion : tropiezos = 0 => \E q \in Cobros : (Cobrado(q, x) /\ Anunciara(q))'
      BY <1>1, <1>2, <1>4, <2>2, SigueAnunciada
    <3>2. tropiezos = 0 => \A q \in Cobros :
            /\ tarea'[q] \notin {"fallida", "perdida"}
            /\ reintentos[q] = 0
            /\ tarea'[q] \in {"empujar", "hecha"} => avisosPago[q] = 1
      BY <2>2 DEF IInvPagos, SinTropiezos
    <3> QED BY <1>1, <2>1, <3>1, <3>2 DEF IInvPagos, SinTropiezos
  <2> QED BY <1>4, <2>3, <2>4, <2>5, <2>6 DEF IInvPagos
<1>6. CASE ~llega
  <2>1. tarea' = tarea /\ tropiezos' = tropiezos + 1
    BY <1>6 DEF EncolarAviso, Tropieza
  <2>2. TypeOKPagos'
    BY <1>1, <1>4, <2>1 DEF TypeOKPagos
  <2>3. TrabajoNuevo'
    BY <1>1, <1>4, <2>1 DEF IInvPagos, TrabajoNuevo
  <2>4. AvisosContados'
    BY <1>1, <2>1 DEF IInvPagos, AvisosContados
  <2>5. SinTropiezos'
    BY <1>1, <2>1 DEF SinTropiezos, TypeOKPagos
  <2> QED BY <1>4, <2>2, <2>3, <2>4, <2>5 DEF IInvPagos
<1> QED BY <1>5, <1>6

LEMMA PasoCaer ==
  ASSUME IInvPagos, NEW c \in Cobradores, CaeCobrador(c)
  PROVE  IInvPagos'
<1>1. TypeOKPagos /\ cobrador[c] # Inactivo /\ Hace(c, Inactivo) /\ tropiezos' = tropiezos + 1
      /\ UNCHANGED <<ordenes, pago, transaccion, tarea, avisosPago, reintentos>>
      /\ truncos' = IF cobrador[c].fase = "crear" THEN truncos ELSE truncos \cup {cobrador[c].cobro}
  BY DEF IInvPagos, CaeCobrador, Tropieza, Avisado
<1>2. cobrador[c].fase \in {"crear", "mirar", "abrir", "encolar"}
  BY <1>1 DEF TypeOKPagos, Cobrando, Inactivo
<1>3. truncos' \subseteq Cobros
  <2>1. CASE cobrador[c].fase = "crear"
    BY <1>1, <2>1 DEF TypeOKPagos
  <2>2. CASE cobrador[c].fase # "crear"
    <3>1. cobrador[c].cobro \in Cobros
      BY <1>1, <1>2, <2>2, EsTrabajo DEF TypeOKPagos
    <3> QED BY <1>1, <2>2, <3>1 DEF TypeOKPagos
  <2> QED BY <2>1, <2>2
<1>4. /\ cobrador' \in [Cobradores -> Cobrando]
      /\ UnCobrador'
      /\ CobroConTransaccion'
      /\ \A d \in Cobradores : d = c \/ cobrador'[d] = cobrador[d]
      /\ \A d \in Cobradores, q \in Cobros : Trabaja(d, q)' => d # c /\ Trabaja(d, q)
  BY <1>1, <1>2, PasoSoltar
<1>5. TypeOKPagos'
  BY <1>1, <1>3, <1>4 DEF TypeOKPagos
<1>6. TrabajoNuevo'
  BY <1>1, <1>4 DEF IInvPagos, TrabajoNuevo
<1>7. AvisosContados'
  BY <1>1 DEF IInvPagos, AvisosContados
<1>8. SinTropiezos'
  BY <1>1 DEF SinTropiezos, TypeOKPagos
<1> QED BY <1>4, <1>5, <1>6, <1>7, <1>8 DEF IInvPagos

LEMMA PasoBorrar ==
  ASSUME IInvPagos, NEW o \in Ordenes, BorrarOrden(o)
  PROVE  IInvPagos'
<1>1. TypeOKPagos /\ ordenes' = ordenes \ {o} /\ transaccion' = transaccion \ {o}
      /\ UNCHANGED <<pago, cobrador, tarea, avisosPago, reintentos, truncos, tropiezos>>
  BY DEF IInvPagos, BorrarOrden, Avisado
<1>2. TypeOKPagos'
  BY <1>1 DEF TypeOKPagos
<1>3. TrabajoNuevo' /\ UnCobrador'
  BY <1>1 DEF IInvPagos, TrabajoNuevo, UnCobrador, Trabaja
<1>4. CobroConTransaccion'
  BY <1>1 DEF IInvPagos, CobroConTransaccion, EnTabla
<1>5. AvisosContados'
  BY <1>1 DEF IInvPagos, AvisosContados
<1>6. SinTropiezos'
  <2>1. \A x \in transaccion : tropiezos = 0 => \E q \in Cobros : (Cobrado(q, x) /\ Anunciara(q))'
    BY <1>1, SigueAnunciada
  <2> QED BY <1>1, <2>1 DEF IInvPagos, SinTropiezos
<1> QED BY <1>2, <1>3, <1>4, <1>5, <1>6 DEF IInvPagos

------------------------------------------------------------------------------
(* The steps of a task *)

\* What a task does, once queued, touches no request.
LEMMA PasoDeTarea ==
  ASSUME IInvPagos, NEW p \in Cobros, NEW g \in FasesTarea \ {"no hay"}, SoloTarea,
         tarea[p] # "no hay", tarea' = [tarea EXCEPT ![p] = g]
  PROVE  /\ tarea' \in [Cobros -> FasesTarea]
         /\ tarea'[p] = g /\ \A q \in Cobros : q = p \/ tarea'[q] = tarea[q]
         /\ pago[p] # SinCobro
         /\ TrabajoNuevo' /\ UnCobrador' /\ CobroConTransaccion'
         /\ \A x \in transaccion : tropiezos = 0 => \E q \in Cobros : (Cobrado(q, x) /\ Anunciara(q))'
<1>1. TypeOKPagos /\ UNCHANGED <<ordenes, pago, transaccion, cobrador, truncos>>
  BY DEF IInvPagos, SoloTarea
<1>2. /\ tarea' \in [Cobros -> FasesTarea]
      /\ tarea'[p] = g /\ \A q \in Cobros : q = p \/ tarea'[q] = tarea[q]
  BY <1>1 DEF TypeOKPagos
<1>3. pago[p] # SinCobro /\ \A c \in Cobradores : ~Trabaja(c, p)
  BY DEF IInvPagos, AvisosContados, TrabajoNuevo
<1>4. TrabajoNuevo'
  <2> SUFFICES ASSUME NEW c \in Cobradores, NEW q \in Cobros, Trabaja(c, q)
               PROVE  /\ pago[q] # SinCobro
                      /\ tarea'[q] = "no hay"
                      /\ cobrador[c].fase \in {"mirar", "abrir"} => pago[q].fase = "AUTORIZADO"
    BY <1>1 DEF TrabajoNuevo, Trabaja
  <2>1. q # p
    BY <1>3
  <2> QED BY <2>1, <1>2 DEF IInvPagos, TrabajoNuevo
<1>5. UnCobrador' /\ CobroConTransaccion'
  BY <1>1 DEF IInvPagos, UnCobrador, CobroConTransaccion, Trabaja, EnTabla
<1>6. \A x \in transaccion : tropiezos = 0 => \E q \in Cobros : (Cobrado(q, x) /\ Anunciara(q))'
  BY <1>1, <1>2, SigueAnunciada
<1> QED BY <1>2, <1>3, <1>4, <1>5, <1>6

LEMMA PasoTareaConserva ==
  ASSUME IInvPagos, NEW p \in Cobros, PasoTarea(p)
  PROVE  IInvPagos'
<1>1. TypeOKPagos
  BY DEF IInvPagos
<1>2. CASE EmpezarTarea(p)
  <2> DEFINE g == "guardar"
  <2>1. /\ tarea' \in [Cobros -> FasesTarea]
        /\ tarea'[p] = g /\ \A q \in Cobros : q = p \/ tarea'[q] = tarea[q]
        /\ pago[p] # SinCobro
        /\ TrabajoNuevo' /\ UnCobrador' /\ CobroConTransaccion'
        /\ \A x \in transaccion : tropiezos = 0 => \E q \in Cobros : (Cobrado(q, x) /\ Anunciara(q))'
    BY <1>2, PasoDeTarea DEF EmpezarTarea, FasesTarea
  <2>2. tarea[p] = "en cola"
        /\ UNCHANGED <<avisosPago, reintentos, tropiezos, ordenes, pago, transaccion, cobrador, truncos>>
    BY <1>2 DEF EmpezarTarea, SoloTarea
  <2>3. TypeOKPagos'
    BY <1>1, <2>1, <2>2 DEF TypeOKPagos
  <2>4. AvisosContados'
    BY <2>1, <2>2 DEF IInvPagos, AvisosContados
  <2>5. SinTropiezos'
    BY <2>1, <2>2 DEF IInvPagos, SinTropiezos
  <2> QED BY <2>1, <2>3, <2>4, <2>5 DEF IInvPagos
<1>3. CASE GuardarAviso(p)
  <2>1. /\ tarea' \in [Cobros -> FasesTarea]
        /\ tarea'[p] = "empujar" /\ \A q \in Cobros : q = p \/ tarea'[q] = tarea[q]
        /\ pago[p] # SinCobro
        /\ TrabajoNuevo' /\ UnCobrador' /\ CobroConTransaccion'
        /\ \A x \in transaccion : tropiezos = 0 => \E q \in Cobros : (Cobrado(q, x) /\ Anunciara(q))'
    BY <1>3, PasoDeTarea DEF GuardarAviso, FasesTarea
  <2>2. tarea[p] = "guardar" /\ avisosPago' = [avisosPago EXCEPT ![p] = @ + 1]
        /\ UNCHANGED <<reintentos, tropiezos, ordenes, pago, transaccion, cobrador, truncos>>
    BY <1>3 DEF GuardarAviso, SoloTarea
  <2>3. avisosPago' \in [Cobros -> Nat] /\ avisosPago'[p] = avisosPago[p] + 1
        /\ \A q \in Cobros : q = p \/ avisosPago'[q] = avisosPago[q]
    BY <1>1, <2>2 DEF TypeOKPagos
  <2>4. TypeOKPagos'
    BY <1>1, <2>1, <2>2, <2>3 DEF TypeOKPagos
  <2>5. avisosPago[p] <= reintentos[p] /\ avisosPago[p] \in Nat /\ reintentos[p] \in Nat
    <3>1. avisosPago[p] <= reintentos[p]
      BY <2>2 DEF IInvPagos, AvisosContados
    <3>2. avisosPago[p] \in Nat /\ reintentos[p] \in 0 .. MaxReintentos
      BY <1>1 DEF TypeOKPagos
    <3> QED BY <3>1, <3>2
  <2>6. AvisosContados'
    <3> SUFFICES ASSUME NEW q \in Cobros
                 PROVE  /\ avisosPago'[q] <= 1 + reintentos'[q]
                        /\ tarea'[q] \in {"no hay", "en cola", "guardar"} => avisosPago'[q] <= reintentos'[q]
                        /\ pago'[q] = SinCobro => tarea'[q] = "no hay"
      BY DEF AvisosContados
    <3>1. CASE q = p
      <4>1. avisosPago'[q] <= 1 + reintentos'[q]
        BY <3>1, <2>2, <2>3, <2>5
      <4> QED BY <4>1, <3>1, <2>1, <2>2
    <3>2. CASE q # p
      BY <3>2, <2>1, <2>2, <2>3 DEF IInvPagos, AvisosContados
    <3> QED BY <3>1, <3>2
  <2>7. SinTropiezos'
    BY <2>1, <2>2, <2>3, <2>5 DEF IInvPagos, SinTropiezos
  <2> QED BY <2>1, <2>4, <2>6, <2>7 DEF IInvPagos
<1>4. CASE EmpujarAviso(p)
  <2>1. /\ tarea' \in [Cobros -> FasesTarea]
        /\ tarea'[p] = "hecha" /\ \A q \in Cobros : q = p \/ tarea'[q] = tarea[q]
        /\ pago[p] # SinCobro
        /\ TrabajoNuevo' /\ UnCobrador' /\ CobroConTransaccion'
        /\ \A x \in transaccion : tropiezos = 0 => \E q \in Cobros : (Cobrado(q, x) /\ Anunciara(q))'
    BY <1>4, PasoDeTarea DEF EmpujarAviso, FasesTarea
  <2>2. tarea[p] = "empujar"
        /\ UNCHANGED <<avisosPago, reintentos, tropiezos, ordenes, pago, transaccion, cobrador, truncos>>
    BY <1>4 DEF EmpujarAviso, SoloTarea
  <2>3. TypeOKPagos'
    BY <1>1, <2>1, <2>2 DEF TypeOKPagos
  <2>4. AvisosContados'
    BY <2>1, <2>2 DEF IInvPagos, AvisosContados
  <2>5. SinTropiezos'
    BY <2>1, <2>2 DEF IInvPagos, SinTropiezos
  <2> QED BY <2>1, <2>3, <2>4, <2>5 DEF IInvPagos
<1>5. CASE Reintentar(p)
  <2>1. tarea[p] \in {"guardar", "empujar"} /\ tropiezos' = tropiezos + 1
        /\ UNCHANGED <<avisosPago, ordenes, pago, transaccion, cobrador, truncos>> /\ SoloTarea
    BY <1>5 DEF Reintentar, SoloTarea, Tropieza
  <2>2. SinTropiezos'
    BY <1>1, <2>1 DEF SinTropiezos, TypeOKPagos
  <2>3. avisosPago[p] <= 1 + reintentos[p] /\ avisosPago[p] \in Nat /\ reintentos[p] \in 0 .. MaxReintentos
    BY <1>1 DEF IInvPagos, AvisosContados, TypeOKPagos
  <2>4. CASE reintentos[p] < MaxReintentos
    <3>1. reintentos' = [reintentos EXCEPT ![p] = @ + 1] /\ tarea' = [tarea EXCEPT ![p] = "en cola"]
      BY <1>5, <2>4 DEF Reintentar
    <3>2. /\ tarea' \in [Cobros -> FasesTarea]
          /\ tarea'[p] = "en cola" /\ \A q \in Cobros : q = p \/ tarea'[q] = tarea[q]
          /\ pago[p] # SinCobro
          /\ TrabajoNuevo' /\ UnCobrador' /\ CobroConTransaccion'
      BY <2>1, <3>1, PasoDeTarea DEF FasesTarea
    <3>3. reintentos' \in [Cobros -> 0 .. MaxReintentos] /\ reintentos'[p] = reintentos[p] + 1
          /\ \A q \in Cobros : q = p \/ reintentos'[q] = reintentos[q]
      <4>1. reintentos \in [Cobros -> 0 .. MaxReintentos]
        BY <1>1 DEF TypeOKPagos
      <4>2. reintentos[p] + 1 \in 0 .. MaxReintentos
        BY <2>3, <2>4
      <4> QED BY <3>1, <4>1, <4>2
    <3>4. TypeOKPagos'
      <4>1. tropiezos' \in Nat
        BY <1>1, <2>1 DEF TypeOKPagos
      <4> QED BY <1>1, <2>1, <3>2, <3>3, <4>1 DEF TypeOKPagos
    <3>5. AvisosContados'
      <4> SUFFICES ASSUME NEW q \in Cobros
                   PROVE  /\ avisosPago'[q] <= 1 + reintentos'[q]
                          /\ tarea'[q] \in {"no hay", "en cola", "guardar"} => avisosPago'[q] <= reintentos'[q]
                          /\ pago'[q] = SinCobro => tarea'[q] = "no hay"
        BY DEF AvisosContados
      <4>1. CASE q = p
        <5>1. avisosPago'[q] <= reintentos'[q] /\ avisosPago'[q] <= 1 + reintentos'[q]
          BY <4>1, <2>1, <2>3, <3>3
        <5> QED BY <5>1, <4>1, <2>1, <3>2
      <4>2. CASE q # p
        BY <4>2, <2>1, <3>2, <3>3 DEF IInvPagos, AvisosContados
      <4> QED BY <4>1, <4>2
    <3> QED BY <2>2, <3>2, <3>4, <3>5 DEF IInvPagos
  <2>5. CASE ~(reintentos[p] < MaxReintentos)
    <3>1. reintentos' = reintentos /\ tarea' = [tarea EXCEPT ![p] = "fallida"]
      BY <1>5, <2>5 DEF Reintentar
    <3>2. /\ tarea' \in [Cobros -> FasesTarea]
          /\ tarea'[p] = "fallida" /\ \A q \in Cobros : q = p \/ tarea'[q] = tarea[q]
          /\ pago[p] # SinCobro
          /\ TrabajoNuevo' /\ UnCobrador' /\ CobroConTransaccion'
      BY <2>1, <3>1, PasoDeTarea DEF FasesTarea
    <3>3. TypeOKPagos'
      BY <1>1, <2>1, <3>1, <3>2 DEF TypeOKPagos
    <3>4. AvisosContados'
      BY <2>1, <3>1, <3>2 DEF IInvPagos, AvisosContados
    <3> QED BY <2>2, <3>2, <3>3, <3>4 DEF IInvPagos
  <2> QED BY <2>4, <2>5
<1>6. CASE CaeCelery(p)
  <2>1. tarea[p] \in {"guardar", "empujar"} /\ tropiezos' = tropiezos + 1 /\ SoloTarea
        /\ UNCHANGED <<avisosPago, reintentos, ordenes, pago, transaccion, cobrador, truncos>>
        /\ tarea' = [tarea EXCEPT ![p] = "perdida"]
    BY <1>6 DEF CaeCelery, SoloTarea, Tropieza
  <2>2. /\ tarea' \in [Cobros -> FasesTarea]
        /\ tarea'[p] = "perdida" /\ \A q \in Cobros : q = p \/ tarea'[q] = tarea[q]
        /\ pago[p] # SinCobro
        /\ TrabajoNuevo' /\ UnCobrador' /\ CobroConTransaccion'
    BY <2>1, PasoDeTarea DEF FasesTarea
  <2>3. TypeOKPagos'
    BY <1>1, <2>1, <2>2 DEF TypeOKPagos
  <2>4. AvisosContados'
    BY <2>1, <2>2 DEF IInvPagos, AvisosContados
  <2>5. SinTropiezos'
    BY <1>1, <2>1 DEF SinTropiezos, TypeOKPagos
  <2> QED BY <2>2, <2>3, <2>4, <2>5 DEF IInvPagos
<1> QED BY <1>2, <1>3, <1>4, <1>5, <1>6 DEF PasoTarea

------------------------------------------------------------------------------
(* Theorems *)

\* Requests, deletions and tasks keep the inductive invariant: each payment has
\* one request at most, announced only when that request has left it.
THEOREM InvariantePagos == SpecPagos => []IInvPagos
<1>1. InitPagos => IInvPagos
  <2> SUFFICES ASSUME InitPagos PROVE IInvPagos
    OBVIOUS
  <2>1. \A c \in Cobradores : cobrador[c] = Inactivo /\ cobrador[c].fase = "inactivo"
    BY DEF InitPagos, Inactivo
  <2>2. TypeOKPagos
    <3>1. SinCobro \in Pagado /\ "no hay" \in FasesTarea /\ 0 \in 0 .. MaxReintentos
      BY DEF SinCobro, Pagado, FasesTarea
    <3> QED BY <3>1, Tareas DEF InitPagos, TypeOKPagos
  <2>3. TrabajoNuevo /\ UnCobrador
    BY <2>1 DEF TrabajoNuevo, UnCobrador, Trabaja
  <2>4. CobroConTransaccion
    BY DEF InitPagos, CobroConTransaccion, EnTabla
  <2>5. AvisosContados
    <3>1. \A p \in Cobros : avisosPago[p] = 0 /\ reintentos[p] = 0 /\ tarea[p] = "no hay"
      BY DEF InitPagos
    <3>2. 0 <= 1 + 0 /\ 0 <= 0
      OBVIOUS
    <3> QED BY <3>1, <3>2, Zenon DEF AvisosContados
  <2>6. SinTropiezos
    BY DEF InitPagos, SinTropiezos
  <2> QED BY <2>2, <2>3, <2>4, <2>5, <2>6 DEF IInvPagos
<1>2. IInvPagos /\ [NextPagos]_varsPagos => IInvPagos'
  <2> SUFFICES ASSUME IInvPagos, [NextPagos]_varsPagos PROVE IInvPagos'
    OBVIOUS
  <2>1. CASE \E c \in Cobradores : PasoCobrador(c)
    BY <2>1, PasoRegistrar, PasoCrear, PasoMirarTransaccion, PasoAbrir, PasoEncolar, PasoCaer DEF PasoCobrador
  <2>2. CASE \E p \in Cobros : PasoTarea(p)
    BY <2>2, PasoTareaConserva
  <2>3. CASE \E o \in Ordenes : BorrarOrden(o)
    BY <2>3, PasoBorrar
  <2>4. CASE UNCHANGED varsPagos
    <3>1. UNCHANGED <<ordenes, pago, transaccion, cobrador, tarea, avisosPago, reintentos, truncos, tropiezos>>
      BY <2>4 DEF varsPagos
    <3>2. TypeOKPagos'
      BY <3>1 DEF IInvPagos, TypeOKPagos
    <3>3. TrabajoNuevo' /\ UnCobrador'
      BY <3>1 DEF IInvPagos, TrabajoNuevo, UnCobrador, Trabaja
    <3>4. CobroConTransaccion' /\ AvisosContados'
      BY <3>1 DEF IInvPagos, CobroConTransaccion, AvisosContados, EnTabla
    <3>5. SinTropiezos'
      <4>1. \A x \in transaccion : tropiezos = 0 => \E p \in Cobros : (Cobrado(p, x) /\ Anunciara(p))'
        BY <3>1, SigueAnunciada
      <4> QED BY <3>1, <4>1 DEF IInvPagos, SinTropiezos
    <3> QED BY <3>2, <3>3, <3>4, <3>5 DEF IInvPagos
  <2> QED BY <2>1, <2>2, <2>3, <2>4 DEF NextPagos
<1> QED BY <1>1, <1>2, PTL DEF SpecPagos

\* Every charge, request and task is at one of its stages, and none is retried
\* more often than autoretry allows.
THEOREM TiposPagos == SpecPagos => []TypeOKPagos
<1>1. IInvPagos => TypeOKPagos
  BY DEF IInvPagos
<1> QED BY <1>1, InvariantePagos, PTL

\* No order is left charged without its transaction but by a request that is
\* still at work or has died: the loser of the race for it may fail.
THEOREM ConTransaccion == SpecPagos => []CobroConTransaccion
<1>1. IInvPagos => CobroConTransaccion
  BY DEF IInvPagos
<1> QED BY <1>1, InvariantePagos, PTL

\* A buyer hears of a payment no more than once and once for each retry, and,
\* when nothing fails, of one of the charges of an order at least.
THEOREM Avisos == SpecPagos => []AvisosDePago
<1>1. IInvPagos => AvisosDePago
  <2> SUFFICES ASSUME IInvPagos PROVE AvisosDePago
    OBVIOUS
  <2>1. \A p \in Cobros : avisosPago[p] <= 1 + reintentos[p]
    BY DEF IInvPagos, AvisosContados
  <2>2. ASSUME tropiezos = 0, NEW o \in ordenes, NEW r \in Cobros, Cobrado(r, o),
               \A p \in Cobros : Cobrado(p, o) => Reposa(p)
        PROVE  \E p \in Cobros : Cobrado(p, o) /\ avisosPago[p] = 1
    <3>1. \A c \in Cobradores : cobrador[c].fase \in {"mirar", "abrir"} => cobrador[c].cobro # r
      BY <2>2 DEF Reposa, Trabaja
    <3>2. o \in transaccion
      BY <2>2, <3>1 DEF IInvPagos, CobroConTransaccion, SinTropiezos, Cobrado, EnTabla
    <3>3. PICK p \in Cobros : Cobrado(p, o) /\ Anunciara(p)
      BY <2>2, <3>2 DEF IInvPagos, SinTropiezos
    <3>4. tarea[p] = "hecha"
      BY <2>2, <3>3 DEF IInvPagos, SinTropiezos, Reposa, Trabaja, Anunciara
    <3> QED BY <2>2, <3>3, <3>4 DEF IInvPagos, SinTropiezos
  <2>3. tropiezos = 0 =>
          \A o \in ordenes :
            LET cobrados == {p \in Cobros : pago[p] # SinCobro /\ pago[p].orden = o
                                             /\ pago[p].fase = "AUTORIZADO"}
            IN cobrados # {} /\ (\A p \in cobrados : Reposa(p))
                 => \E p \in cobrados : avisosPago[p] = 1
    <3> SUFFICES ASSUME tropiezos = 0, NEW o \in ordenes,
                        NEW r \in {p \in Cobros : Cobrado(p, o)},
                        \A p \in {p \in Cobros : Cobrado(p, o)} : Reposa(p)
                 PROVE  \E p \in {p \in Cobros : Cobrado(p, o)} : avisosPago[p] = 1
      BY DEF Cobrado
    <3> QED BY <2>2
  <2> QED BY <2>1, <2>3 DEF AvisosDePago
<1> QED BY <1>1, InvariantePagos, PTL
==============================================================================
