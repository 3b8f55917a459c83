---------------------------- MODULE Direcciones -----------------------------
(***************************************************************************)
(* The saved addresses of an account: DireccionGuardadaListCreateAPIView   *)
(* and DireccionGuardadaDetailAPIView.  At most one should be the default  *)
(* one.  Clearing the others and storing the row are two statements, and a *)
(* PATCH writes back every field of the row that it read.                  *)
(***************************************************************************)
EXTENDS Integers, FiniteSets

CONSTANTS
  HilosDir,  \* threads that serve one account
  Filas,     \* identifiers of its addresses
  MaxCruces  \* bound on the writes that cross one another

ASSUME ConstantesDirecciones == IsFiniteSet(Filas) /\ 0 \notin Filas /\ MaxCruces \in Nat

VARIABLES
  filas,           \* the addresses of the account
  predeterminadas, \* those with es_predeterminada
  usadas,          \* identifiers given out, for none is given twice
  edicion,         \* what each thread is doing
  cruzada,         \* threads during whose request another has stored a default
  cruces           \* crossed writes of a default

varsDirecciones == <<filas, predeterminadas, usadas, edicion, cruzada, cruces>>

------------------------------------------------------------------------------

SinEdicion == [fase |-> "no hay"]

\* fila: the row that is patched, or 0; pide: es_predeterminada in the request;
\* era: es_predeterminada in the row as it was read.
Edicion ==
  [fase : {"no hay"}]
  \cup [fase : {"limpiar", "guardar"}, fila : Filas \cup {0}, pide : BOOLEAN, era : BOOLEAN]

Edita(h, e) == edicion' = [edicion EXCEPT ![h] = e]

------------------------------------------------------------------------------

\* POST: without es_predeterminada the row is created at once.
CrearDireccion(h, pide) ==
  /\ edicion[h] = SinEdicion
  /\ Edita(h, [fase |-> IF pide THEN "limpiar" ELSE "guardar", fila |-> 0, pide |-> pide, era |-> FALSE])
  /\ cruzada' = cruzada \ {h}
  /\ UNCHANGED <<filas, predeterminadas, usadas, cruces>>

\* PATCH: the row is read; with no such row, a 404.
LeerDireccion(h, f, pide) ==
  /\ edicion[h] = SinEdicion
  /\ f \in filas
  /\ Edita(h, [fase |-> IF pide THEN "limpiar" ELSE "guardar", fila |-> f, pide |-> pide,
               era |-> f \in predeterminadas])
  /\ cruzada' = cruzada \ {h}
  /\ UNCHANGED <<filas, predeterminadas, usadas, cruces>>

\* Mutant: the other addresses are not cleared.
LimpiarNada(h) ==
  /\ edicion[h].fase = "limpiar"
  /\ Edita(h, [edicion[h] EXCEPT !.fase = "guardar"])
  /\ cruzada' = cruzada \ {h}
  /\ UNCHANGED <<filas, predeterminadas, usadas, cruces>>

\* update(es_predeterminada=False), but not on the row that is patched
LimpiarOtras(h) ==
  /\ edicion[h].fase = "limpiar"
  /\ predeterminadas' = predeterminadas \cap {edicion[h].fila}
  /\ Edita(h, [edicion[h] EXCEPT !.fase = "guardar"])
  /\ cruzada' = cruzada \ {h}
  /\ UNCHANGED <<filas, usadas, cruces>>

\* A request stores row f, as the default one or not.
Guarda(h, f, pred) ==
  /\ pred /\ h \in cruzada => cruces < MaxCruces
  /\ filas' = filas \cup {f}
  /\ predeterminadas' = IF pred THEN predeterminadas \cup {f} ELSE predeterminadas \ {f}
  /\ usadas' = usadas \cup {f}
  /\ cruces' = IF pred /\ h \in cruzada THEN cruces + 1 ELSE cruces
  /\ cruzada' = IF pred THEN {g \in HilosDir \ {h} : edicion[g] # SinEdicion} ELSE cruzada \ {h}
  /\ Edita(h, SinEdicion)

\* DireccionGuardada.objects.create
InsertarDireccion(h) ==
  /\ edicion[h].fase = "guardar"
  /\ edicion[h].fila = 0
  /\ \E f \in Filas \ usadas : Guarda(h, f, edicion[h].pide)

\* serializer.save(): every field, those of the request and those that were
\* read; a row deleted meanwhile is inserted again.
ActualizarDireccion(h) ==
  /\ edicion[h].fase = "guardar"
  /\ edicion[h].fila # 0
  /\ \E pred \in {edicion[h].pide \/ edicion[h].era, edicion[h].pide} :
       Guarda(h, edicion[h].fila, pred)

BorrarDireccion(f) ==
  /\ f \in filas
  /\ filas' = filas \ {f}
  /\ predeterminadas' = predeterminadas \ {f}
  /\ UNCHANGED <<usadas, edicion, cruzada, cruces>>

\* A request that dies between its two statements leaves no default address.
CaeEdicion(h) ==
  /\ edicion[h] # SinEdicion
  /\ Edita(h, SinEdicion)
  /\ cruzada' = cruzada \ {h}
  /\ UNCHANGED <<filas, predeterminadas, usadas, cruces>>

------------------------------------------------------------------------------

InitDirecciones ==
  /\ filas = {}
  /\ predeterminadas = {}
  /\ usadas = {}
  /\ edicion = [h \in HilosDir |-> SinEdicion]
  /\ cruzada = {}
  /\ cruces = 0

PasoDirecciones(h) ==
  \/ \E pide \in BOOLEAN : CrearDireccion(h, pide)
  \/ \E f \in Filas : \E pide \in BOOLEAN : LeerDireccion(h, f, pide)
  \/ LimpiarOtras(h)
  \/ InsertarDireccion(h)
  \/ ActualizarDireccion(h)
  \/ CaeEdicion(h)

NextDirecciones ==
  \/ \E h \in HilosDir : PasoDirecciones(h)
  \/ \E f \in Filas : BorrarDireccion(f)

SpecDirecciones == InitDirecciones /\ [][NextDirecciones]_varsDirecciones

------------------------------------------------------------------------------
(* Properties *)

TypeOKDirecciones ==
  /\ filas \subseteq Filas
  /\ predeterminadas \subseteq filas
  /\ usadas \subseteq Filas
  /\ edicion \in [HilosDir -> Edicion]
  /\ cruzada \subseteq HilosDir
  /\ cruces \in Nat

\* One address is the default one, and each one more is paid for by a request
\* that stored a default address after another had done so since it cleared them
\* or, clearing none, read its row.  A PATCH of something else, which writes the
\* old mark back, breaks this no more than a POST does.
PredeterminadaUnica == Cardinality(predeterminadas) <= 1 + cruces
=============================================================================
