---------------------------- MODULE Publicaciones ----------------------------
(***************************************************************************)
(* CatalogService: a publication and the row of Ubicacion that its seller  *)
(* put it at, created and deleted by separate statements, and the search   *)
(* of what is near.  Stock, price and orders are in Pedidos, the cached    *)
(* listing in Catalogo; an address is its place, in kilometres on a line.  *)
(***************************************************************************)
EXTENDS Integers, FiniteSets

CONSTANTS
  Anuncios,     \* identifiers of publications
  Lugares,      \* identifiers of rows of Ubicacion
  Puntos,       \* places
  RadioMaximo,  \* 5.0 kilometres
  HilosPub,     \* threads
  MaxBajasPub   \* bound on the threads that die and on the rows that go with their seller

ASSUME ConstantesPub == Puntos \subseteq Int /\ RadioMaximo \in Nat /\ MaxBajasPub \in Nat

VARIABLES
  anuncio,  \* the rows of Publicacion
  lugar,    \* the rows of Ubicacion
  gestion,  \* what each thread is doing
  puesto,   \* where its seller put each publication
  bajasPub  \* rows of Ubicacion that a failure has left to nobody

varsPub == <<anuncio, lugar, gestion, puesto, bajasPub>>

------------------------------------------------------------------------------

SinGestion == [fase |-> "quieto"]
Gestiones ==
  [fase : {"quieto"}]
  \cup [fase : {"ubicar"}, punto : Puntos]
  \cup [fase : {"publicar"}, punto : Puntos, lugar : Lugares]
  \cup [fase : {"editar"}, anuncio : Anuncios, estado : {"ACTIVA", "PAUSADA"}]
  \cup [fase : {"borrar"}, anuncio : Anuncios, lugar : Lugares]
  \cup [fase : {"huerfana"}, lugar : Lugares]

Gestiona(h, g) == gestion' = [gestion EXCEPT ![h] = g]

\* Serial identifiers are not used again.
Fila == {"libre", "viva", "borrada"}
Viva(a) == anuncio[a].fila = "viva"
SinAnuncio == [fila |-> "libre", estado |-> "ACTIVA", lugar |-> {}]
SinLugar == [fila |-> "libre", punto |-> {}]

\* ubicacion.publicaciones.exists()
Publicado(l) == \E a \in Anuncios : Viva(a) /\ l \in anuncio[a].lugar

\* DELETE FROM Ubicacion, ON DELETE SET NULL
BorraLugar(l) ==
  /\ lugar' = [lugar EXCEPT ![l].fila = "borrada"]
  /\ anuncio' = [a \in Anuncios |-> [anuncio[a] EXCEPT !.lugar = @ \ {l}]]

------------------------------------------------------------------------------
(* list_publicaciones_cercanas *)

Distancia(p, q) == IF p < q THEN q - p ELSE p - q

\* list_active_with_location
ActivasConLugar ==
  {a \in Anuncios : Viva(a) /\ anuncio[a].estado = "ACTIVA" /\ anuncio[a].lugar # {}}

\* Those within the radius; their order is left out.
Cercanas(centro, radio) ==
  LET limite == IF radio < RadioMaximo THEN radio ELSE RadioMaximo
  IN {a \in ActivasConLugar :
        \E l \in anuncio[a].lugar : \E p \in lugar[l].punto : Distancia(centro, p) <= limite}

------------------------------------------------------------------------------
(* create_publicacion *)

\* _resolve_location_for_publicacion: the coordinates sent, or those of the geocoder.
ResolverLugar(h, p) ==
  /\ gestion[h] = SinGestion
  /\ Gestiona(h, [fase |-> "ubicar", punto |-> p])
  /\ UNCHANGED <<anuncio, lugar, puesto, bajasPub>>

CrearLugar(h, l) ==
  /\ gestion[h].fase = "ubicar"
  /\ lugar[l] = SinLugar
  /\ lugar' = [lugar EXCEPT ![l] = [fila |-> "viva", punto |-> {gestion[h].punto}]]
  /\ Gestiona(h, [fase |-> "publicar", punto |-> gestion[h].punto, lugar |-> l])
  /\ UNCHANGED <<anuncio, puesto, bajasPub>>

CrearPublicacion(h, a) ==
  /\ gestion[h].fase = "publicar"
  /\ anuncio[a] = SinAnuncio
  /\ anuncio' = [anuncio EXCEPT ![a] = [fila |-> "viva", estado |-> "ACTIVA", lugar |-> {gestion[h].lugar}]]
  /\ puesto' = [puesto EXCEPT ![a] = {gestion[h].punto}]
  /\ Gestiona(h, SinGestion)
  /\ UNCHANGED <<lugar, bajasPub>>

------------------------------------------------------------------------------
(* update_publicacion, whose other fields Pedidos has; the address has no update *)

LeerParaEditar(h, a, estado) ==
  /\ gestion[h] = SinGestion
  /\ Viva(a)
  /\ Gestiona(h, [fase |-> "editar", anuncio |-> a, estado |-> estado])
  /\ UNCHANGED <<anuncio, lugar, puesto, bajasPub>>

\* save(update_fields): DatabaseError if the row is gone.
ActualizarPublicacion(h) ==
  /\ gestion[h].fase = "editar"
  /\ anuncio' = IF Viva(gestion[h].anuncio)
                  THEN [anuncio EXCEPT ![gestion[h].anuncio].estado = gestion[h].estado]
                  ELSE anuncio
  /\ Gestiona(h, SinGestion)
  /\ UNCHANGED <<lugar, puesto, bajasPub>>

------------------------------------------------------------------------------
(* delete_publicacion *)

LeerParaBorrar(h, a) ==
  /\ gestion[h] = SinGestion
  /\ Viva(a)
  /\ \E l \in anuncio[a].lugar : Gestiona(h, [fase |-> "borrar", anuncio |-> a, lugar |-> l])
  /\ UNCHANGED <<anuncio, lugar, puesto, bajasPub>>

\* Mutant: the row is deleted with nothing done about its place.
BorrarSinLugar(h) ==
  /\ gestion[h].fase = "borrar"
  /\ anuncio' = [anuncio EXCEPT ![gestion[h].anuncio] = [@ EXCEPT !.fila = "borrada"]]
  /\ Gestiona(h, SinGestion)
  /\ UNCHANGED <<lugar, puesto, bajasPub>>

BorrarPublicacion(h) ==
  /\ gestion[h].fase = "borrar"
  /\ anuncio' = [anuncio EXCEPT ![gestion[h].anuncio] = [@ EXCEPT !.fila = "borrada"]]
  /\ Gestiona(h, [fase |-> "huerfana", lugar |-> gestion[h].lugar])
  /\ UNCHANGED <<lugar, puesto, bajasPub>>

\* delete_if_orphan
BorrarSiHuerfana(h) ==
  /\ gestion[h].fase = "huerfana"
  /\ IF Publicado(gestion[h].lugar) THEN UNCHANGED <<anuncio, lugar>> ELSE BorraLugar(gestion[h].lugar)
  /\ Gestiona(h, SinGestion)
  /\ UNCHANGED <<puesto, bajasPub>>

------------------------------------------------------------------------------
(* What leaves rows of Ubicacion behind *)

\* The worker is killed, or a statement fails, as when the seller is gone.
CaerGestion(h) ==
  /\ gestion[h] # SinGestion
  /\ bajasPub < MaxBajasPub
  /\ bajasPub' = bajasPub + 1
  /\ Gestiona(h, SinGestion)
  /\ UNCHANGED <<anuncio, lugar, puesto>>

\* The seller's account is deleted: Publicacion goes in cascade, Ubicacion stays.
CaerConElVendedor(a) ==
  /\ Viva(a)
  /\ bajasPub < MaxBajasPub
  /\ bajasPub' = bajasPub + 1
  /\ anuncio' = [anuncio EXCEPT ![a].fila = "borrada"]
  /\ UNCHANGED <<lugar, gestion, puesto>>

------------------------------------------------------------------------------

InitPub ==
  /\ anuncio = [a \in Anuncios |-> SinAnuncio]
  /\ lugar = [l \in Lugares |-> SinLugar]
  /\ gestion = [h \in HilosPub |-> SinGestion]
  /\ puesto = [a \in Anuncios |-> {}]
  /\ bajasPub = 0

PasoPub(h) ==
  \/ \E p \in Puntos : ResolverLugar(h, p)
  \/ \E l \in Lugares : CrearLugar(h, l)
  \/ \E a \in Anuncios :
       \/ CrearPublicacion(h, a)
       \/ LeerParaBorrar(h, a)
       \/ \E estado \in {"ACTIVA", "PAUSADA"} : LeerParaEditar(h, a, estado)
  \/ ActualizarPublicacion(h)
  \/ BorrarPublicacion(h)
  \/ BorrarSiHuerfana(h)
  \/ CaerGestion(h)

NextPub == (\E h \in HilosPub : PasoPub(h)) \/ (\E a \in Anuncios : CaerConElVendedor(a))

SpecPub == InitPub /\ [][NextPub]_varsPub

------------------------------------------------------------------------------
(* Properties *)

TypeOKPub ==
  /\ anuncio \in [Anuncios -> [fila : Fila, estado : {"ACTIVA", "PAUSADA"}, lugar : SUBSET Lugares]]
  /\ lugar \in [Lugares -> [fila : Fila, punto : SUBSET Puntos]]
  /\ gestion \in [HilosPub -> Gestiones]
  /\ puesto \in [Anuncios -> SUBSET Puntos]
  /\ bajasPub \in Nat

\* A thread that is to give this row a publication, or to delete it.
EnCurso(l) ==
  \E h \in HilosPub : gestion[h].fase \in {"publicar", "borrar", "huerfana"} /\ gestion[h].lugar = l

\* Every active publication is found from every place within the radius of where
\* its seller put it, and only from there, however creations, edits and repeated
\* deletions interleave; and each row of Ubicacion that no publication has and no
\* request will remove is explained by a failure of its own.
AnunciosUbicados ==
  /\ \A centro \in Puntos, radio \in {0, RadioMaximo, RadioMaximo + 1} :
       Cercanas(centro, radio) =
         {a \in Anuncios :
            /\ anuncio[a].fila = "viva" /\ anuncio[a].estado = "ACTIVA"
            /\ \E p \in puesto[a] :
                 centro - p <= radio /\ p - centro <= radio
                 /\ centro - p <= RadioMaximo /\ p - centro <= RadioMaximo}
  /\ Cardinality({l \in Lugares : lugar[l].fila = "viva" /\ ~Publicado(l) /\ ~EnCurso(l)}) <= bajasPub
=============================================================================
