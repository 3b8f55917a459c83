----------------------- MODULE Calificaciones_proofs -------------------------
(***************************************************************************)
(* Theorems about module Calificaciones, for every value of its constants. *)
(* What a summary amounts to is left aside: only which list it is made of. *)
(***************************************************************************)
EXTENDS Calificaciones, Conteo, SequenceTheorems

USE ConstantesCalificaciones

------------------------------------------------------------------------------
(* The inductive invariant *)

Resumenes == {Resumen(lista) : lista \in Seq(Calificacion)}

\* What a request holds, without the arithmetic of a summary.
PeticionLista ==
  {Libre}
  \cup [fase : {"crear", "creada"}, pedido : PedidoIds, puntos : Puntuaciones]
  \cup [fase : {"marcar", "listar", "avisar"}, pedido : PedidoIds]
  \cup [fase : {"guardar"}, pedido : PedidoIds, resumen : Resumenes]

TardiasValidas == \A t \in tardias : t.pedido \in PedidoIds /\ t.puntos \in Puntuaciones

TiposLista ==
  /\ calificaciones \in [Vendedores -> Seq(Calificacion)]
  /\ TardiasValidas
  /\ calificado \cup avisados \subseteq PedidoIds
  /\ reputacion \in [Vendedores -> {SinReputacion} \cup Resumenes]
  /\ hilo \in [Hilos -> PeticionLista]

\* Past create_rating the rating is in the list of its seller.
HilosGuardados ==
  \A h \in Hilos : hilo[h].fase \in {"creada", "marcar", "listar", "guardar", "avisar"} =>
    Guardada(hilo[h].pedido)

\* The summary that a thread is about to save is that of a prefix of the list.
HilosDeUnaLista ==
  \A h \in Hilos : hilo[h].fase = "guardar" =>
    DeUnaLista(Vendedor[hilo[h].pedido], hilo[h].resumen)

IInv ==
  /\ TiposLista
  /\ CalificadoGuardado
  /\ HilosGuardados
  /\ HilosDeUnaLista
  /\ ReputacionDeUnaLista

------------------------------------------------------------------------------
(* Lists only grow *)

LEMMA AppendConserva ==
  ASSUME NEW S, NEW s \in Seq(S), NEW e \in S, NEW n \in 1..Len(s)
  PROVE  n \in 1..Len(Append(s, e)) /\ Append(s, e)[n] = s[n]
OBVIOUS

LEMMA PrefijoQueda ==
  ASSUME NEW S, NEW s \in Seq(S), NEW e \in S, NEW n \in 1..Len(s)
  PROVE  SubSeq(Append(s, e), 1, n) = SubSeq(s, 1, n)
<1>1. Append(s, e) \in Seq(S) /\ Len(Append(s, e)) = Len(s) + 1
  OBVIOUS
<1>2. \A i \in 1..n : Append(s, e)[i] = s[i]
  OBVIOUS
<1>3. SubSeq(s, 1, n) = [i \in 1..n |-> s[i]]
  BY SMT
<1>4. SubSeq(Append(s, e), 1, n) = [i \in 1..n |-> Append(s, e)[i]]
  BY <1>1, SMT
<1> QED BY <1>2, <1>3, <1>4

\* An insert stores the rating, keeps those that were there and the summaries
\* made of them.
LEMMA InsertaCrece ==
  ASSUME TiposLista, NEW o \in PedidoIds, NEW p \in Puntuaciones, Inserta(o, p)
  PROVE  /\ calificaciones' \in [Vendedores -> Seq(Calificacion)]
         /\ Guardada(o)'
         /\ \A x \in PedidoIds : Guardada(x) => Guardada(x)'
         /\ \A v \in Vendedores : \A r : DeUnaLista(v, r) => DeUnaLista(v, r)'
<1> DEFINE e == [pedido |-> o, puntos |-> p]
           w == Vendedor[o]
<1>1. w \in Vendedores /\ e \in Calificacion
  BY DEF Calificacion
<1>2. calificaciones' = [calificaciones EXCEPT ![w] = Append(calificaciones[w], e)]
  BY DEF Inserta
<1>3. \A v \in Vendedores : calificaciones[v] \in Seq(Calificacion)
  BY DEF TiposLista
<1>4. \A v \in Vendedores :
        calificaciones'[v] = IF v = w THEN Append(calificaciones[v], e) ELSE calificaciones[v]
  BY <1>1, <1>2 DEF TiposLista
<1> HIDE DEF e, w
<1>5. calificaciones' \in [Vendedores -> Seq(Calificacion)]
  BY <1>1, <1>2, <1>3 DEF TiposLista
<1>6. Guardada(o)'
  <2>1. calificaciones'[w] = Append(calificaciones[w], e)
    BY <1>1, <1>4
  <2>2. /\ Len(calificaciones[w]) + 1 \in 1..Len(calificaciones'[w])
        /\ calificaciones'[w][Len(calificaciones[w]) + 1] = e
    BY <1>1, <1>3, <2>1
  <2> QED BY <2>2 DEF Guardada, e, w
<1>7. ASSUME NEW x \in PedidoIds, Guardada(x)
      PROVE  Guardada(x)'
  <2>1. Vendedor[x] \in Vendedores
    OBVIOUS
  <2>2. PICK n \in 1..Len(calificaciones[Vendedor[x]]) :
          calificaciones[Vendedor[x]][n].pedido = x
    BY <1>7 DEF Guardada
  <2>3. /\ n \in 1..Len(calificaciones'[Vendedor[x]])
        /\ calificaciones'[Vendedor[x]][n] = calificaciones[Vendedor[x]][n]
    <3>1. CASE Vendedor[x] = w
      <4>1. calificaciones'[w] = Append(calificaciones[w], e)
        BY <1>1, <1>4
      <4>2. n \in 1..Len(calificaciones[w]) /\ calificaciones[w] \in Seq(Calificacion)
        BY <1>1, <1>3, <2>2, <3>1
      <4> QED BY <1>1, <3>1, <4>1, <4>2, AppendConserva
    <3>2. CASE Vendedor[x] # w
      BY <1>4, <2>1, <2>2, <3>2
    <3> QED BY <3>1, <3>2
  <2> QED BY <2>2, <2>3 DEF Guardada
<1>8. ASSUME NEW v \in Vendedores, NEW r, DeUnaLista(v, r)
      PROVE  DeUnaLista(v, r)'
  <2>1. PICK n \in 1..Len(calificaciones[v]) : r = Resumen(SubSeq(calificaciones[v], 1, n))
    BY <1>8 DEF DeUnaLista
  <2>2. /\ n \in 1..Len(calificaciones'[v])
        /\ SubSeq(calificaciones'[v], 1, n) = SubSeq(calificaciones[v], 1, n)
    <3>1. CASE v = w
      <4>1. calificaciones'[w] = Append(calificaciones[w], e)
        BY <1>1, <1>4
      <4>2. n \in 1..Len(calificaciones[w]) /\ calificaciones[w] \in Seq(Calificacion)
        BY <1>1, <1>3, <2>1, <3>1
      <4>3. n \in 1..Len(calificaciones'[w])
        BY <1>1, <4>1, <4>2, AppendConserva
      <4>4. SubSeq(calificaciones'[w], 1, n) = SubSeq(calificaciones[w], 1, n)
        BY <1>1, <4>1, <4>2, PrefijoQueda
      <4> QED BY <3>1, <4>3, <4>4
    <3>2. CASE v # w
      BY <1>4, <3>2
    <3> QED BY <3>1, <3>2
  <2> QED BY <2>1, <2>2 DEF DeUnaLista
<1> QED BY <1>5, <1>6, <1>7, <1>8

\* Without an insert nothing about the lists changes.
LEMMA ListasQuietas ==
  ASSUME UNCHANGED calificaciones
  PROVE  /\ \A x \in PedidoIds : Guardada(x) => Guardada(x)'
         /\ \A v \in Vendedores : \A r : DeUnaLista(v, r) => DeUnaLista(v, r)'
BY DEF Guardada, DeUnaLista

------------------------------------------------------------------------------
(* What a thread holds *)

LEMMA FaseLista ==
  ASSUME TiposLista, NEW h \in Hilos
  PROVE  /\ Libre.fase = "libre"
         /\ hilo[h].fase # "libre" => hilo[h].pedido \in PedidoIds
         /\ hilo[h].fase \in {"crear", "creada"} =>
              hilo[h] \in [fase : {"crear", "creada"}, pedido : PedidoIds, puntos : Puntuaciones]
         /\ hilo[h].fase = "guardar" => hilo[h].resumen \in Resumenes
<1>1. hilo[h] \in PeticionLista
  BY DEF TiposLista
<1> QED BY <1>1 DEF PeticionLista, Libre

\* A thread that goes free, or goes on with the rating stored, keeps what is
\* said of the threads.
LEMMA HiloSigue ==
  ASSUME IInv, NEW h \in Hilos, NEW x \in PeticionLista,
         hilo' = [hilo EXCEPT ![h] = x],
         \A y \in PedidoIds : Guardada(y) => Guardada(y)',
         \A v \in Vendedores : \A r : DeUnaLista(v, r) => DeUnaLista(v, r)',
         x.fase \in {"creada", "marcar", "listar", "guardar", "avisar"} => Guardada(x.pedido)',
         x.fase = "guardar" => DeUnaLista(Vendedor[x.pedido], x.resumen)'
  PROVE  /\ hilo' \in [Hilos -> PeticionLista]
         /\ HilosGuardados'
         /\ HilosDeUnaLista'
<1>1. hilo' \in [Hilos -> PeticionLista]
  BY DEF IInv, TiposLista
<1>2. \A g \in Hilos : hilo'[g] = IF g = h THEN x ELSE hilo[g]
  BY DEF IInv, TiposLista
<1>3. \A g \in Hilos : hilo[g].fase # "libre" => hilo[g].pedido \in PedidoIds
  BY FaseLista DEF IInv
<1>4. HilosGuardados'
  <2> SUFFICES ASSUME NEW g \in Hilos,
                      (hilo[g].fase)' \in {"creada", "marcar", "listar", "guardar", "avisar"}
               PROVE  Guardada(hilo[g].pedido)'
    BY DEF HilosGuardados
  <2>1. CASE g = h
    BY <1>2, <2>1 DEF Guardada
  <2>2. CASE g # h
    BY <1>2, <1>3, <2>2 DEF IInv, HilosGuardados, Guardada
  <2> QED BY <2>1, <2>2
<1>5. HilosDeUnaLista'
  <2> SUFFICES ASSUME NEW g \in Hilos, (hilo[g].fase)' = "guardar"
               PROVE  DeUnaLista(Vendedor[hilo[g].pedido], hilo[g].resumen)'
    BY DEF HilosDeUnaLista
  <2>1. CASE g = h
    BY <1>2, <2>1 DEF DeUnaLista
  <2>2. CASE g # h
    <3>1. hilo'[g] = hilo[g] /\ hilo[g].fase = "guardar"
      BY <1>2, <2>2
    <3>2. Vendedor[hilo[g].pedido] \in Vendedores
      BY <1>3, <3>1
    <3>3. DeUnaLista(Vendedor[hilo[g].pedido], hilo[g].resumen)
      BY <3>1 DEF IInv, HilosDeUnaLista
    <3>4. \A v \in Vendedores : \A r : DeUnaLista(v, r) =>
            \E n \in 1..Len(calificaciones'[v]) : r = Resumen(SubSeq(calificaciones'[v], 1, n))
      BY DEF DeUnaLista
    <3>5. \E n \in 1..Len(calificaciones'[Vendedor[hilo[g].pedido]]) :
            hilo[g].resumen = Resumen(SubSeq(calificaciones'[Vendedor[hilo[g].pedido]], 1, n))
      BY <3>2, <3>3, <3>4
    <3> QED BY <3>1, <3>5 DEF DeUnaLista
  <2> QED BY <2>1, <2>2
<1> QED BY <1>1, <1>4, <1>5

\* So do steps that leave the threads alone.
LEMMA HilosQuietos ==
  ASSUME IInv, UNCHANGED hilo,
         \A y \in PedidoIds : Guardada(y) => Guardada(y)',
         \A v \in Vendedores : \A r : DeUnaLista(v, r) => DeUnaLista(v, r)'
  PROVE  HilosGuardados' /\ HilosDeUnaLista'
<1>1. \A g \in Hilos : hilo[g].fase # "libre" => hilo[g].pedido \in PedidoIds
  BY FaseLista DEF IInv
<1>2. HilosGuardados'
  BY <1>1 DEF IInv, HilosGuardados
<1>3. HilosDeUnaLista'
  BY <1>1 DEF IInv, HilosDeUnaLista
<1> QED BY <1>2, <1>3

\* What is shown stays true while lists grow.
LEMMA ReputacionQueda ==
  ASSUME IInv, UNCHANGED reputacion,
         \A v \in Vendedores : \A r : DeUnaLista(v, r) => DeUnaLista(v, r)'
  PROVE  ReputacionDeUnaLista'
BY DEF IInv, ReputacionDeUnaLista

\* So do marks and notices, which only go to stored ratings.
LEMMA MarcasQuietas ==
  ASSUME IInv, UNCHANGED <<calificado, avisados>>,
         \A y \in PedidoIds : Guardada(y) => Guardada(y)'
  PROVE  CalificadoGuardado'
BY DEF IInv, TiposLista, CalificadoGuardado

LEMMA MarcasQuedan ==
  ASSUME IInv, NEW o \in PedidoIds, Guardada(o),
         calificado' \cup avisados' \subseteq calificado \cup avisados \cup {o}
  PROVE  UNCHANGED calificaciones => CalificadoGuardado'
BY DEF IInv, CalificadoGuardado, Guardada

------------------------------------------------------------------------------
(* The steps *)

\* A thread that took a step without an insert and without touching what others
\* read keeps everything; the callers say what else changed.
LEMMA SoloHilo ==
  ASSUME IInv, NEW h \in Hilos, NEW x \in PeticionLista,
         hilo' = [hilo EXCEPT ![h] = x],
         UNCHANGED <<calificado, calificaciones, reputacion, avisados>>,
         TardiasValidas',
         x.fase \in {"creada", "marcar", "listar", "guardar", "avisar"} => Guardada(x.pedido),
         x.fase = "guardar" => DeUnaLista(Vendedor[x.pedido], x.resumen)
  PROVE  IInv'
<1>1. /\ \A y \in PedidoIds : Guardada(y) => Guardada(y)'
      /\ \A v \in Vendedores : \A r : DeUnaLista(v, r) => DeUnaLista(v, r)'
  BY ListasQuietas
<1>2. /\ x.fase \in {"creada", "marcar", "listar", "guardar", "avisar"} => Guardada(x.pedido)'
      /\ x.fase = "guardar" => DeUnaLista(Vendedor[x.pedido], x.resumen)'
  BY DEF Guardada, DeUnaLista
<1>3. hilo' \in [Hilos -> PeticionLista] /\ HilosGuardados' /\ HilosDeUnaLista'
  BY <1>1, <1>2, HiloSigue
<1>4. TiposLista'
  BY <1>3 DEF IInv, TiposLista
<1>5. CalificadoGuardado'
  BY DEF IInv, CalificadoGuardado, Guardada
<1>6. ReputacionDeUnaLista'
  BY <1>1, ReputacionQueda
<1> QED BY <1>3, <1>4, <1>5, <1>6 DEF IInv

LEMMA LibreEsPeticion == Libre \in PeticionLista /\ Libre.fase = "libre"
BY DEF Libre, PeticionLista

LEMMA PasoRateOrder ==
  ASSUME IInv, NEW h \in Hilos, NEW o \in PedidoIds, NEW p \in Puntuaciones, RateOrder(h, o, p)
  PROVE  IInv'
<1> DEFINE x == [fase |-> "crear", pedido |-> o, puntos |-> p]
<1>1. x \in PeticionLista /\ x.fase = "crear"
  BY DEF PeticionLista
<1>2. hilo' = [hilo EXCEPT ![h] = x]
  BY DEF RateOrder
<1>3. UNCHANGED <<calificado, calificaciones, reputacion, avisados>> /\ TardiasValidas'
  BY DEF RateOrder, IInv, TiposLista, TardiasValidas
<1> HIDE DEF x
<1> QED BY <1>1, <1>2, <1>3, SoloHilo

LEMMA PasoCreateRating ==
  ASSUME IInv, NEW h \in Hilos, CreateRating(h)
  PROVE  IInv'
<1>1. hilo[h] \in [fase : {"crear", "creada"}, pedido : PedidoIds, puntos : Puntuaciones]
  BY FaseLista DEF CreateRating, IInv
<1>2. PICK o \in PedidoIds, p \in Puntuaciones, x \in PeticionLista :
        /\ x = [hilo[h] EXCEPT !.fase = "creada"]
        /\ x.fase = "creada"
        /\ x.pedido = o
        /\ Inserta(o, p)
  <2> DEFINE x == [hilo[h] EXCEPT !.fase = "creada"]
  <2>1. x \in PeticionLista /\ x.fase = "creada" /\ x.pedido = hilo[h].pedido
    BY <1>1 DEF PeticionLista
  <2>2. /\ Inserta(hilo[h].pedido, hilo[h].puntos)
        /\ hilo[h].pedido \in PedidoIds
        /\ hilo[h].puntos \in Puntuaciones
    BY <1>1 DEF CreateRating
  <2> QED BY <2>1, <2>2 DEF Inserta
<1>3. /\ hilo' = [hilo EXCEPT ![h] = x]
      /\ UNCHANGED <<calificado, tardias, reputacion, avisados>>
  BY <1>2 DEF CreateRating
<1>4. /\ calificaciones' \in [Vendedores -> Seq(Calificacion)]
      /\ Guardada(o)'
      /\ \A y \in PedidoIds : Guardada(y) => Guardada(y)'
      /\ \A v \in Vendedores : \A r : DeUnaLista(v, r) => DeUnaLista(v, r)'
  BY <1>2, InsertaCrece DEF IInv
<1>5. Guardada(x.pedido)'
  BY <1>2, <1>4 DEF Guardada
<1>6. hilo' \in [Hilos -> PeticionLista] /\ HilosGuardados' /\ HilosDeUnaLista'
  BY <1>2, <1>3, <1>4, <1>5, HiloSigue
<1>7. TiposLista'
  BY <1>3, <1>4, <1>6 DEF IInv, TiposLista, TardiasValidas
<1>8. CalificadoGuardado'
  BY <1>3, <1>4, MarcasQuietas
<1>9. ReputacionDeUnaLista'
  BY <1>3, <1>4, ReputacionQueda
<1> QED BY <1>6, <1>7, <1>8, <1>9 DEF IInv

LEMMA PasoCreateRatingTarde ==
  ASSUME IInv, NEW t \in tardias, CreateRatingTarde(t)
  PROVE  IInv'
<1>1. PICK o \in PedidoIds, p \in Puntuaciones : Inserta(o, p)
  <2>1. t.pedido \in PedidoIds /\ t.puntos \in Puntuaciones
    BY DEF IInv, TiposLista, TardiasValidas
  <2> QED BY <2>1 DEF CreateRatingTarde
<1>2. /\ tardias' \subseteq tardias
      /\ UNCHANGED <<calificado, reputacion, hilo, avisados>>
  BY DEF CreateRatingTarde
<1>3. /\ calificaciones' \in [Vendedores -> Seq(Calificacion)]
      /\ \A y \in PedidoIds : Guardada(y) => Guardada(y)'
      /\ \A v \in Vendedores : \A r : DeUnaLista(v, r) => DeUnaLista(v, r)'
  BY <1>1, InsertaCrece DEF IInv
<1>4. TiposLista'
  BY <1>2, <1>3 DEF IInv, TiposLista, TardiasValidas
<1>5. HilosGuardados' /\ HilosDeUnaLista'
  BY <1>2, <1>3, HilosQuietos
<1>6. CalificadoGuardado'
  BY <1>2, <1>3, MarcasQuietas
<1>7. ReputacionDeUnaLista'
  BY <1>2, <1>3, ReputacionQueda
<1> QED BY <1>4, <1>5, <1>6, <1>7 DEF IInv

LEMMA PasoSinMarca ==
  ASSUME IInv, NEW h \in Hilos, RatingCreated(h) \/ RatingFails(h) \/ Caer(h)
  PROVE  IInv'
<1>1. CASE RatingCreated(h)
  <2>1. hilo[h].pedido \in PedidoIds /\ Guardada(hilo[h].pedido)
    BY <1>1, FaseLista DEF RatingCreated, IInv, HilosGuardados
  <2>2. PICK x \in PeticionLista :
          /\ x.fase = "marcar"
          /\ Guardada(x.pedido)
          /\ hilo' = [hilo EXCEPT ![h] = x]
    BY <1>1, <2>1 DEF RatingCreated, Pasa, PeticionLista
  <2>3. UNCHANGED <<calificado, calificaciones, reputacion, avisados>> /\ TardiasValidas'
    BY <1>1 DEF RatingCreated, IInv, TiposLista, TardiasValidas
  <2> QED BY <2>2, <2>3, SoloHilo
<1>2. CASE RatingFails(h)
  <2>1. hilo[h] \in [fase : {"crear", "creada"}, pedido : PedidoIds, puntos : Puntuaciones]
    BY <1>2, FaseLista DEF RatingFails, IInv
  <2>2. TardiasValidas'
    <3>1. hilo[h].pedido \in PedidoIds /\ hilo[h].puntos \in Puntuaciones
      BY <2>1
    <3> QED BY <1>2, <3>1 DEF RatingFails, IInv, TiposLista, TardiasValidas
  <2>3. /\ hilo' = [hilo EXCEPT ![h] = Libre]
        /\ UNCHANGED <<calificado, calificaciones, reputacion, avisados>>
    BY <1>2 DEF RatingFails, Termina
  <2> QED BY <2>2, <2>3, LibreEsPeticion, SoloHilo
<1>3. CASE Caer(h)
  <2>1. /\ hilo' = [hilo EXCEPT ![h] = Libre]
        /\ UNCHANGED <<calificado, calificaciones, reputacion, avisados>>
        /\ TardiasValidas'
    BY <1>3 DEF Caer, Termina, IInv, TiposLista, TardiasValidas
  <2> QED BY <2>1, LibreEsPeticion, SoloHilo
<1> QED BY <1>1, <1>2, <1>3

LEMMA PasoMarkCalificado ==
  ASSUME IInv, NEW h \in Hilos, MarkCalificado(h)
  PROVE  IInv'
<1>1. hilo[h].pedido \in PedidoIds /\ Guardada(hilo[h].pedido)
  BY FaseLista DEF MarkCalificado, IInv, HilosGuardados
<1>2. PICK o \in PedidoIds, x \in PeticionLista :
        /\ o = hilo[h].pedido
        /\ Guardada(o)
        /\ x.fase \in {"libre", "listar"}
        /\ x.fase = "listar" => x.pedido = o
        /\ hilo' = [hilo EXCEPT ![h] = x]
  <2>1. CASE estado[hilo[h].pedido] = "BORRADO"
    BY <1>1, <2>1, LibreEsPeticion DEF MarkCalificado, Termina
  <2>2. CASE estado[hilo[h].pedido] # "BORRADO"
    <3> DEFINE x == [fase |-> "listar", pedido |-> hilo[h].pedido]
    <3>1. x \in PeticionLista /\ x.fase = "listar" /\ x.pedido = hilo[h].pedido
      BY <1>1 DEF PeticionLista
    <3>2. hilo' = [hilo EXCEPT ![h] = x]
      BY <2>2 DEF MarkCalificado, Pasa
    <3> QED BY <1>1, <3>1, <3>2
  <2> QED BY <2>1, <2>2
<1>3. /\ calificado' \subseteq calificado \cup {o}
      /\ UNCHANGED <<calificaciones, tardias, reputacion, avisados>>
  BY <1>2 DEF MarkCalificado
<1>4. /\ \A y \in PedidoIds : Guardada(y) => Guardada(y)'
      /\ \A v \in Vendedores : \A r : DeUnaLista(v, r) => DeUnaLista(v, r)'
  BY <1>3, ListasQuietas
<1>5. x.fase = "listar" => Guardada(x.pedido)'
  BY <1>2, <1>4 DEF Guardada
<1>6. hilo' \in [Hilos -> PeticionLista] /\ HilosGuardados' /\ HilosDeUnaLista'
  BY <1>2, <1>4, <1>5, HiloSigue
<1>7. TiposLista'
  BY <1>2, <1>3, <1>6 DEF IInv, TiposLista, TardiasValidas
<1>8. CalificadoGuardado'
  BY <1>2, <1>3, MarcasQuedan
<1>9. ReputacionDeUnaLista'
  BY <1>3, <1>4, ReputacionQueda
<1> QED BY <1>6, <1>7, <1>8, <1>9 DEF IInv

\* The summary is that of the whole list, which holds the rating just stored.
LEMMA PasoListRatings ==
  ASSUME IInv, NEW h \in Hilos, ListRatings(h)
  PROVE  IInv'
<1>1. PICK o \in PedidoIds : o = hilo[h].pedido /\ Guardada(o)
  BY FaseLista DEF ListRatings, IInv, HilosGuardados
<1>2. UNCHANGED <<calificado, calificaciones, reputacion, avisados>> /\ TardiasValidas'
  BY DEF ListRatings, IInv, TiposLista, TardiasValidas
<1>3. CASE Pasa(h, "avisar")
  <2>1. PICK x \in PeticionLista :
          x.fase = "avisar" /\ x.pedido = o /\ hilo' = [hilo EXCEPT ![h] = x]
    BY <1>1, <1>3 DEF Pasa, PeticionLista
  <2>2. Guardada(x.pedido)
    BY <1>1, <2>1
  <2> QED BY <1>2, <2>1, <2>2, SoloHilo
<1>4. CASE hilo' = [hilo EXCEPT ![h] =
             [fase |-> "guardar", pedido |-> o, resumen |-> Resumen(calificaciones[Vendedor[o]])]]
  <2> DEFINE lista == calificaciones[Vendedor[o]]
  <2>1. Vendedor[o] \in Vendedores /\ lista \in Seq(Calificacion)
    BY DEF IInv, TiposLista
  <2>2. Resumen(lista) \in Resumenes
    BY <2>1 DEF Resumenes
  <2>3. PICK x \in PeticionLista :
          /\ x = [fase |-> "guardar", pedido |-> o, resumen |-> Resumen(lista)]
          /\ hilo' = [hilo EXCEPT ![h] = x]
    BY <1>4, <2>2 DEF PeticionLista
  <2>4. Len(lista) \in 1..Len(lista)
    BY <1>1, <2>1 DEF Guardada
  <2>5. SubSeq(lista, 1, Len(lista)) = lista
    BY <2>1, SubSeqFull
  <2>6. DeUnaLista(Vendedor[o], Resumen(lista))
    BY <2>4, <2>5 DEF DeUnaLista
  <2>7. x.fase = "guardar" /\ x.pedido = o /\ x.resumen = Resumen(lista)
    BY <2>3
  <2>8. Guardada(x.pedido) /\ DeUnaLista(Vendedor[x.pedido], x.resumen)
    BY <1>1, <2>6, <2>7
  <2> QED BY <1>2, <2>3, <2>8, SoloHilo
<1> QED BY <1>1, <1>3, <1>4 DEF ListRatings

LEMMA PasoRefreshReputacion ==
  ASSUME IInv, NEW h \in Hilos, RefreshReputacion(h)
  PROVE  IInv'
<1>1. PICK o \in PedidoIds, r \in Resumenes :
        /\ o = hilo[h].pedido
        /\ r = hilo[h].resumen
        /\ Guardada(o)
        /\ DeUnaLista(Vendedor[o], r)
  BY FaseLista DEF RefreshReputacion, IInv, HilosGuardados, HilosDeUnaLista
<1>2. PICK x \in PeticionLista :
        x.fase = "avisar" /\ x.pedido = o /\ hilo' = [hilo EXCEPT ![h] = x]
  BY <1>1 DEF RefreshReputacion, Pasa, PeticionLista
<1>3. /\ reputacion' = [reputacion EXCEPT ![Vendedor[o]] = r]
      /\ UNCHANGED <<calificado, calificaciones, tardias, avisados>>
  BY <1>1 DEF RefreshReputacion
<1>4. /\ \A y \in PedidoIds : Guardada(y) => Guardada(y)'
      /\ \A v \in Vendedores : \A s : DeUnaLista(v, s) => DeUnaLista(v, s)'
  BY <1>3, ListasQuietas
<1>5. Guardada(x.pedido)'
  BY <1>1, <1>2, <1>4 DEF Guardada
<1>6. hilo' \in [Hilos -> PeticionLista] /\ HilosGuardados' /\ HilosDeUnaLista'
  BY <1>2, <1>4, <1>5, HiloSigue
<1>7. TiposLista'
  BY <1>3, <1>6 DEF IInv, TiposLista, TardiasValidas
<1>8. CalificadoGuardado'
  BY <1>3, <1>4, MarcasQuietas
<1>9. ReputacionDeUnaLista'
  <2> SUFFICES ASSUME NEW v \in Vendedores
               PROVE  reputacion'[v] = SinReputacion \/ DeUnaLista(v, reputacion[v])'
    BY DEF ReputacionDeUnaLista
  <2>1. CASE v = Vendedor[o]
    <3>1. reputacion'[v] = r
      BY <1>3, <2>1 DEF IInv, TiposLista
    <3>2. DeUnaLista(v, r)
      BY <1>1, <2>1
    <3> QED BY <1>3, <3>1, <3>2 DEF DeUnaLista
  <2>2. CASE v # Vendedor[o]
    <3>1. reputacion'[v] = reputacion[v]
      BY <1>3, <2>2 DEF IInv, TiposLista
    <3> QED BY <1>3, <3>1 DEF IInv, ReputacionDeUnaLista, DeUnaLista
  <2> QED BY <2>1, <2>2
<1> QED BY <1>6, <1>7, <1>8, <1>9 DEF IInv

LEMMA PasoEnviar ==
  ASSUME IInv, NEW h \in Hilos, Enviar(h)
  PROVE  IInv'
<1>1. PICK o \in PedidoIds : o = hilo[h].pedido /\ Guardada(o)
  BY FaseLista DEF Enviar, IInv, HilosGuardados
<1>2. /\ avisados' = avisados \cup {o}
      /\ hilo' = [hilo EXCEPT ![h] = Libre]
      /\ UNCHANGED <<calificado, calificaciones, tardias, reputacion>>
  BY <1>1 DEF Enviar, Termina
<1>3. /\ \A y \in PedidoIds : Guardada(y) => Guardada(y)'
      /\ \A v \in Vendedores : \A r : DeUnaLista(v, r) => DeUnaLista(v, r)'
  BY <1>2, ListasQuietas
<1>4. hilo' \in [Hilos -> PeticionLista] /\ HilosGuardados' /\ HilosDeUnaLista'
  BY <1>2, <1>3, LibreEsPeticion, HiloSigue
<1>5. TiposLista'
  BY <1>2, <1>4 DEF IInv, TiposLista, TardiasValidas
<1>6. CalificadoGuardado'
  BY <1>1, <1>2, MarcasQuedan
<1>7. ReputacionDeUnaLista'
  BY <1>2, <1>3, ReputacionQueda
<1> QED BY <1>4, <1>5, <1>6, <1>7 DEF IInv

\* Steps of the order's own life; stuttering too.
LEMMA PasoAjeno ==
  ASSUME IInv,
         calificado' \subseteq calificado,
         UNCHANGED <<calificaciones, tardias, reputacion, hilo, avisados>>
  PROVE  IInv'
<1>1. /\ \A y \in PedidoIds : Guardada(y) => Guardada(y)'
      /\ \A v \in Vendedores : \A r : DeUnaLista(v, r) => DeUnaLista(v, r)'
  BY ListasQuietas
<1>2. TiposLista'
  BY DEF IInv, TiposLista, TardiasValidas
<1>3. CalificadoGuardado'
  BY <1>1 DEF IInv, TiposLista, CalificadoGuardado
<1>4. HilosGuardados' /\ HilosDeUnaLista'
  BY <1>1, HilosQuietos
<1>5. ReputacionDeUnaLista'
  BY <1>1, ReputacionQueda
<1> QED BY <1>2, <1>3, <1>4, <1>5 DEF IInv

LEMMA Inicio == Init => IInv
<1> SUFFICES ASSUME Init PROVE IInv
  OBVIOUS
<1>1. TiposLista
  BY LibreEsPeticion DEF Init, TiposLista, TardiasValidas
<1>2. CalificadoGuardado
  BY DEF Init, CalificadoGuardado
<1>3. \A h \in Hilos : hilo[h].fase = "libre"
  BY LibreEsPeticion DEF Init
<1>4. HilosGuardados /\ HilosDeUnaLista
  BY <1>3 DEF HilosGuardados, HilosDeUnaLista
<1>5. ReputacionDeUnaLista
  BY DEF Init, ReputacionDeUnaLista
<1> QED BY <1>1, <1>2, <1>4, <1>5 DEF IInv

LEMMA Paso == IInv /\ [Next]_vars => IInv'
<1> SUFFICES ASSUME IInv, [Next]_vars PROVE IInv'
  OBVIOUS
<1>1. ASSUME NEW o \in PedidoIds, Vida(o) PROVE IInv'
  BY <1>1, PasoAjeno DEF Vida
<1>2. ASSUME NEW h \in Hilos, NEW o \in PedidoIds, NEW p \in Puntuaciones, RateOrder(h, o, p)
      PROVE  IInv'
  BY <1>2, PasoRateOrder
<1>3. ASSUME NEW h \in Hilos, Avance(h) PROVE IInv'
  BY <1>3, PasoCreateRating, PasoSinMarca, PasoMarkCalificado, PasoListRatings,
     PasoRefreshReputacion, PasoEnviar DEF Avance
<1>4. ASSUME NEW h \in Hilos, RatingFails(h) \/ Caer(h) PROVE IInv'
  BY <1>4, PasoSinMarca
<1>5. ASSUME NEW t \in tardias, CreateRatingTarde(t) PROVE IInv'
  BY <1>5, PasoCreateRatingTarde
<1>6. CASE UNCHANGED vars
  BY <1>6, PasoAjeno DEF vars
<1> QED BY <1>1, <1>2, <1>3, <1>4, <1>5, <1>6 DEF Next

\* The inductive invariant holds in every behaviour.
THEOREM InvarianteCalificaciones == Spec => []IInv
BY Inicio, Paso, PTL DEF Spec

\* No order counts as rated, and no seller is told, before support-service has
\* stored a rating of it: rate_order lets the exception of create_rating through.
THEOREM Guardado == Spec => []CalificadoGuardado
<1>1. IInv => CalificadoGuardado
  BY DEF IInv
<1> QED BY <1>1, InvarianteCalificaciones, PTL

\* The average and the total that _refresh_reputacion shows are those of one list
\* of the seller's ratings, never a mixture of two, however requests overlap.
THEOREM DeUna == Spec => []ReputacionDeUnaLista
<1>1. IInv => ReputacionDeUnaLista
  BY DEF IInv
<1> QED BY <1>1, InvarianteCalificaciones, PTL

------------------------------------------------------------------------------
(* How many ratings an order may have *)

Creando == {h \in Hilos : hilo[h].fase = "crear"}
EnCurso == {"crear", "creada", "marcar"}

\* The orders that a request has not failed for: being rated, rated, or deleted
\* with a rating.
Atendido(o) ==
  \/ o \in calificado
  \/ estado[o] = "BORRADO" /\ Guardada(o)
  \/ \E h \in Hilos : hilo[h].fase \in EnCurso /\ hilo[h].pedido = o
Atendidos == {o \in PedidoIds : Atendido(o)}

Cuantas == MapThenSumSet(LAMBDA v : Len(calificaciones[v]), Vendedores)
Largos(c) == [v \in Vendedores |-> Len(c[v])]
SumaDe(f) == MapThenSumSet(LAMBDA v : f[v], Vendedores)

\* Every insert, done or still to be done, is of an order of its own, or of a
\* request that failed.
Saldo == Cuantas + Cardinality(tardias) + Cardinality(Creando) <= fallos + Cardinality(Atendidos)

Contado ==
  /\ estado \in [PedidoIds -> Estados]
  /\ IsFiniteSet(tardias)
  /\ fallos \in Nat
  /\ Cuantas \in Int
  /\ Saldo

IInvDuplicados == IInv /\ Contado

\* Cuantas as a sum of the values of a function, in a state and in the next.
LEMMA CuantasEsSuma == Cuantas = SumaDe(Largos(calificaciones))
<1> DEFINE largos == Largos(calificaciones)
           E(s) == CHOOSE x \in s : TRUE
           Una(it) == [s \in SUBSET Vendedores |-> IF s = {} THEN 0 ELSE Len(calificaciones[E(s)]) + it[s \ {E(s)}]]
           Otra(it) == [s \in SUBSET Vendedores |-> IF s = {} THEN 0 ELSE largos[E(s)] + it[s \ {E(s)}]]
<1>1. \A s \in SUBSET Vendedores : s # {} => E(s) \in Vendedores
  OBVIOUS
<1>2. \A v \in Vendedores : largos[v] = Len(calificaciones[v])
  BY DEF Largos
<1>3. Cuantas = (CHOOSE it : it = Una(it))[Vendedores]
  BY DEF Cuantas, MapThenSumSet, MapThenFoldSet
<1>4. SumaDe(largos) = (CHOOSE it : it = Otra(it))[Vendedores]
  BY DEF SumaDe, MapThenSumSet, MapThenFoldSet
<1> HIDE DEF largos, E
<1>5. ASSUME NEW it PROVE Una(it) = Otra(it)
  <2>1. \A s \in SUBSET Vendedores : s # {} => largos[E(s)] = Len(calificaciones[E(s)])
    BY <1>1, <1>2
  <2> QED BY <2>1
<1> HIDE DEF Una, Otra
<1>6. (CHOOSE it : it = Una(it)) = (CHOOSE it : it = Otra(it))
  <2>1. \A it : it = Una(it) <=> it = Otra(it)
    BY <1>5
  <2> QED BY <2>1
<1>7. Cuantas = SumaDe(largos)
  BY <1>3, <1>4, <1>6
<1> USE DEF largos
<1> QED BY <1>7

LEMMA CuantasSigue == Cuantas' = SumaDe(Largos(calificaciones'))
<1>1. Cuantas = SumaDe(Largos(calificaciones))
  BY CuantasEsSuma
<1>2. (Cuantas = SumaDe(Largos(calificaciones)))'
  BY <1>1, PTL
<1> QED BY <1>2

\* Without an insert there are as many as before.
LEMMA SinInserta ==
  ASSUME UNCHANGED calificaciones
  PROVE  Cuantas' = Cuantas
BY CuantasEsSuma, CuantasSigue

\* An insert is one rating more.
LEMMA UnaMas ==
  ASSUME TiposLista, NEW o \in PedidoIds, NEW p \in Puntuaciones, Inserta(o, p)
  PROVE  Cuantas \in Int /\ Cuantas' = Cuantas + 1
<1> DEFINE e == [pedido |-> o, puntos |-> p]
           w == Vendedor[o]
           f == Largos(calificaciones)
           g == Largos(calificaciones')
           k == [f EXCEPT ![w] = f[w] + 1]
<1>1. w \in Vendedores /\ e \in Calificacion
  BY DEF Calificacion
<1>2. calificaciones' = [calificaciones EXCEPT ![w] = Append(calificaciones[w], e)]
  BY DEF Inserta
<1>3. \A v \in Vendedores : calificaciones[v] \in Seq(Calificacion)
  BY DEF TiposLista
<1>4. \A v \in Vendedores :
        calificaciones'[v] = IF v = w THEN Append(calificaciones[v], e) ELSE calificaciones[v]
  BY <1>1, <1>2 DEF TiposLista
<1> HIDE DEF e, w
<1>5. f \in [Vendedores -> Int] /\ \A v \in Vendedores : f[v] = Len(calificaciones[v])
  BY <1>3 DEF Largos
<1>6. \A v \in Vendedores : g[v] = Len(calificaciones'[v])
  BY DEF Largos
<1> HIDE DEF f, g
<1>7. g = k
  <2>1. Len(Append(calificaciones[w], e)) = Len(calificaciones[w]) + 1
    BY <1>1, <1>3
  <2>2. ASSUME NEW v \in Vendedores PROVE g[v] = k[v]
    <3>1. CASE v = w
      BY <1>1, <1>4, <1>5, <1>6, <2>1, <3>1
    <3>2. CASE v # w
      BY <1>4, <1>5, <1>6, <3>2
    <3> QED BY <3>1, <3>2
  <2>3. g = [v \in Vendedores |-> g[v]]
    BY DEF g, Largos
  <2>4. k = [v \in Vendedores |-> k[v]]
    BY <1>5
  <2> HIDE DEF k
  <2> QED BY <2>2, <2>3, <2>4
<1>8. Cuantas = SumaDe(f) /\ Cuantas' = SumaDe(g)
  BY CuantasEsSuma, CuantasSigue DEF f, g
<1>9. SumaDe(f) \in Int /\ SumaDe(k) = SumaDe(f) + 1
  BY <1>1, <1>5, SumaConUno DEF SumaDe
<1> HIDE DEF k
<1> QED BY <1>7, <1>8, <1>9

\* The step of a thread: which orders stay attended, and who is creating.
LEMMA Relevo ==
  ASSUME TiposLista, NEW h \in Hilos, NEW x, hilo' = [hilo EXCEPT ![h] = x],
         calificado \subseteq calificado', UNCHANGED estado,
         \A y \in PedidoIds : Guardada(y) => Guardada(y)'
  PROVE  /\ \A o \in Atendidos : o \in Atendidos' \/ (hilo[h].fase \in EnCurso /\ o = hilo[h].pedido)
         /\ \A o \in PedidoIds : x.fase \in EnCurso /\ x.pedido = o => o \in Atendidos'
         /\ Creando' = IF x.fase = "crear" THEN Creando \cup {h} ELSE Creando \ {h}
<1>1. \A g \in Hilos : hilo'[g] = IF g = h THEN x ELSE hilo[g]
  BY DEF TiposLista
<1>2. ASSUME NEW o \in Atendidos PROVE o \in Atendidos' \/ (hilo[h].fase \in EnCurso /\ o = hilo[h].pedido)
  <2>1. o \in PedidoIds /\ Atendido(o)
    BY DEF Atendidos
  <2>2. CASE o \in calificado \/ (estado[o] = "BORRADO" /\ Guardada(o))
    <3>1. o \in calificado' \/ (estado'[o] = "BORRADO" /\ Guardada(o)')
      BY <2>1, <2>2
    <3> QED BY <2>1, <3>1 DEF Atendidos, Atendido, Guardada
  <2>3. ASSUME NEW g \in Hilos, hilo[g].fase \in EnCurso, hilo[g].pedido = o
        PROVE  o \in Atendidos' \/ (hilo[h].fase \in EnCurso /\ o = hilo[h].pedido)
    <3>1. CASE g = h
      BY <2>3, <3>1
    <3>2. CASE g # h
      <4>1. hilo'[g].fase \in EnCurso /\ hilo'[g].pedido = o
        BY <1>1, <2>3, <3>2
      <4> QED BY <2>1, <4>1 DEF Atendidos, Atendido
    <3> QED BY <3>1, <3>2
  <2> QED BY <2>1, <2>2, <2>3 DEF Atendido
<1>3. ASSUME NEW o \in PedidoIds, x.fase \in EnCurso, x.pedido = o PROVE o \in Atendidos'
  <2>1. hilo'[h].fase \in EnCurso /\ hilo'[h].pedido = o
    BY <1>1, <1>3
  <2> QED BY <2>1 DEF Atendidos, Atendido
<1>4. Creando' = IF x.fase = "crear" THEN Creando \cup {h} ELSE Creando \ {h}
  BY <1>1 DEF Creando
<1> QED BY <1>2, <1>3, <1>4

LEMMA Finitos ==
  /\ IsFiniteSet(Creando) /\ Cardinality(Creando) \in Nat
  /\ IsFiniteSet(Creando') /\ Cardinality(Creando') \in Nat
  /\ IsFiniteSet(Atendidos) /\ Cardinality(Atendidos) \in Nat
  /\ IsFiniteSet(Atendidos') /\ Cardinality(Atendidos') \in Nat
<1>1. Creando \in SUBSET Hilos /\ Creando' \in SUBSET Hilos /\ Atendidos \in SUBSET PedidoIds /\ Atendidos' \in SUBSET PedidoIds
  BY DEF Creando, Atendidos
<1> QED BY <1>1, Parte

\* The balance holds after a step from what the step did to each term.
LEMMA SaldoSigue ==
  ASSUME Contado, NEW n \in Int, NEW t \in Int, NEW c \in Int, NEW a \in Int, NEW k \in Nat,
         estado' \in [PedidoIds -> Estados], IsFiniteSet(tardias'),
         Cuantas' = Cuantas + n, fallos' = fallos + k,
         Cardinality(tardias') <= Cardinality(tardias) + t,
         Cardinality(Creando') <= Cardinality(Creando) + c,
         Cardinality(Atendidos') >= Cardinality(Atendidos) + a,
         n + t + c <= a + k
  PROVE  Contado'
<1>1. /\ Cuantas \in Int /\ fallos \in Nat
      /\ Cardinality(tardias) \in Nat /\ Cardinality(tardias') \in Nat
      /\ Cardinality(Creando) \in Nat /\ Cardinality(Creando') \in Nat
      /\ Cardinality(Atendidos) \in Nat /\ Cardinality(Atendidos') \in Nat
  BY Finitos, FS_CardinalityType DEF Contado
<1>2. Cuantas + Cardinality(tardias) + Cardinality(Creando) <= fallos + Cardinality(Atendidos)
  BY DEF Contado, Saldo
<1>3. Cuantas' + Cardinality(tardias') + Cardinality(Creando') <= fallos' + Cardinality(Atendidos')
  BY <1>1, <1>2
<1>4. Cuantas' \in Int /\ fallos' \in Nat
  BY <1>1
<1> QED BY <1>3, <1>4 DEF Contado, Saldo


\* A thread that goes on, or ends where its order stays attended to, and neither
\* inserts nor fails.
LEMMA CuentaTranquila ==
  ASSUME IInvDuplicados, NEW h \in Hilos, NEW x, hilo' = [hilo EXCEPT ![h] = x],
         calificado \subseteq calificado',
         UNCHANGED <<estado, calificaciones, tardias>>, NEW k \in Nat, fallos' = fallos + k,
         x.fase # "crear",
         \A o \in PedidoIds : hilo[h].fase \in EnCurso /\ o = hilo[h].pedido =>
           (x.fase \in EnCurso /\ x.pedido = o) \/ o \in Atendidos' \/ k = 1
  PROVE  Contado'
<1>1. TiposLista /\ Contado
  BY DEF IInvDuplicados, IInv
<1>2. \A y \in PedidoIds : Guardada(y) => Guardada(y)'
  BY ListasQuietas
<1>3. /\ \A o \in Atendidos : o \in Atendidos' \/ (hilo[h].fase \in EnCurso /\ o = hilo[h].pedido)
      /\ \A o \in PedidoIds : x.fase \in EnCurso /\ x.pedido = o => o \in Atendidos'
      /\ Creando' = Creando \ {h}
  BY <1>1, <1>2, Relevo
<1>4. Cuantas' = Cuantas + 0 /\ IsFiniteSet(tardias') /\ Cardinality(tardias') <= Cardinality(tardias) + 0
      /\ estado' \in [PedidoIds -> Estados]
  <2>1. Cuantas' = Cuantas
    BY SinInserta
  <2> QED BY <1>1, <2>1, FS_CardinalityType DEF Contado
<1>5. Cardinality(Creando') <= Cardinality(Creando) + 0
  BY <1>3, Finitos, Parte
<1>6. CASE k = 1
  <2>1. Atendidos \in SUBSET (Atendidos' \cup {hilo[h].pedido})
    BY <1>3
  <2>2. Cardinality(Atendidos') >= Cardinality(Atendidos) + (-1)
    <3>1. Cardinality(Atendidos) <= Cardinality(Atendidos') + 1
      BY <2>1, Finitos, ConUnaMas
    <3> QED BY <3>1, Finitos
  <2>3. 0 \in Int /\ -1 \in Int /\ 0 + 0 + 0 <= (-1) + k
    BY <1>6
  <2> QED BY <1>1, <1>4, <1>5, <2>2, <2>3, SaldoSigue
<1>7. CASE k # 1
  <2>1. Atendidos \subseteq PedidoIds
    BY DEF Atendidos
  <2>2. Atendidos \in SUBSET Atendidos'
    BY <1>3, <1>7, <2>1
  <2>3. Cardinality(Atendidos') >= Cardinality(Atendidos) + 0
    BY <2>2, Finitos, Parte
  <2>4. 0 \in Int /\ 0 + 0 + 0 <= 0 + k
    OBVIOUS
  <2> QED BY <1>1, <1>4, <1>5, <2>3, <2>4, SaldoSigue
<1> QED BY <1>6, <1>7

\* A request that starts is of an order that no request attends to.
LEMMA CuentaRateOrder ==
  ASSUME ClienteSerie, IInvDuplicados, NEW h \in Hilos, NEW o \in PedidoIds, NEW p \in Puntuaciones,
         RateOrder(h, o, p)
  PROVE  Contado'
<1> DEFINE x == [fase |-> "crear", pedido |-> o, puntos |-> p]
<1>1. TiposLista /\ Contado
  BY DEF IInvDuplicados, IInv
<1>2. /\ hilo' = [hilo EXCEPT ![h] = x] /\ x.fase = "crear" /\ x.pedido = o /\ hilo[h].fase = "libre"
      /\ UNCHANGED <<estado, calificado, calificaciones, tardias, fallos>>
  BY LibreEsPeticion DEF RateOrder, Entra
<1>3. o \notin Atendidos
  <2>1. \A g \in Hilos : hilo[g].fase \in EnCurso => hilo[g].pedido # o
    BY LibreEsPeticion DEF RateOrder, Entra, EnCurso
  <2> QED BY <2>1 DEF RateOrder, Atendidos, Atendido
<1> HIDE DEF x
<1>4. \A y \in PedidoIds : Guardada(y) => Guardada(y)'
  BY <1>2, ListasQuietas
<1>5. /\ \A y \in Atendidos : y \in Atendidos' \/ (hilo[h].fase \in EnCurso /\ y = hilo[h].pedido)
      /\ \A y \in PedidoIds : x.fase \in EnCurso /\ x.pedido = y => y \in Atendidos'
      /\ Creando' = Creando \cup {h}
  BY <1>1, <1>2, <1>4, Relevo
<1>6. o \in Atendidos' /\ Atendidos \in SUBSET (Atendidos' \ {o})
  BY <1>2, <1>3, <1>5 DEF EnCurso
<1>7. Cardinality(Atendidos') >= Cardinality(Atendidos) + 1
  <2>1. /\ IsFiniteSet(Atendidos' \ {o}) /\ Cardinality(Atendidos') \in Nat /\ Cardinality(Atendidos' \ {o}) \in Nat
        /\ Cardinality(Atendidos' \ {o}) = Cardinality(Atendidos') - 1
    BY <1>6, Finitos, SinUno
  <2>2. Cardinality(Atendidos) \in Nat /\ Cardinality(Atendidos) <= Cardinality(Atendidos' \ {o})
    BY <1>6, <2>1, Parte
  <2> QED BY <2>1, <2>2
<1>8. Cardinality(Creando') <= Cardinality(Creando) + 1
  BY <1>5, Finitos, ConUnoMas
<1>9. Cuantas' = Cuantas + 0 /\ IsFiniteSet(tardias') /\ Cardinality(tardias') <= Cardinality(tardias) + 0
      /\ estado' \in [PedidoIds -> Estados] /\ fallos' = fallos + 0
  <2>1. Cuantas' = Cuantas
    BY <1>2, SinInserta
  <2> QED BY <1>1, <1>2, <2>1, FS_CardinalityType DEF Contado
<1>10. 0 \in Int /\ 1 \in Int /\ 0 \in Nat /\ 0 + 0 + 1 <= 1 + 0
  OBVIOUS
<1> QED BY <1>1, <1>7, <1>8, <1>9, <1>10, SaldoSigue

\* The insert takes the request out of those that are still to insert.
LEMMA CuentaCreateRating ==
  ASSUME IInvDuplicados, NEW h \in Hilos, CreateRating(h)
  PROVE  Contado'
<1>1. TiposLista /\ Contado
  BY DEF IInvDuplicados, IInv
<1>2. hilo[h] \in [fase : {"crear", "creada"}, pedido : PedidoIds, puntos : Puntuaciones]
  BY <1>1, FaseLista DEF CreateRating
<1>3. PICK o \in PedidoIds, p \in Puntuaciones : o = hilo[h].pedido /\ Inserta(o, p)
  BY <1>2 DEF CreateRating
<1> DEFINE x == [hilo[h] EXCEPT !.fase = "creada"]
<1>4. /\ hilo' = [hilo EXCEPT ![h] = x] /\ x.fase = "creada" /\ x.pedido = hilo[h].pedido /\ hilo[h].fase = "crear"
      /\ UNCHANGED <<estado, calificado, tardias, fallos>>
  BY <1>2 DEF CreateRating
<1> HIDE DEF x
<1>5. \A y \in PedidoIds : Guardada(y) => Guardada(y)'
  BY <1>1, <1>3, InsertaCrece
<1>6. /\ \A y \in Atendidos : y \in Atendidos' \/ (hilo[h].fase \in EnCurso /\ y = hilo[h].pedido)
      /\ \A y \in PedidoIds : x.fase \in EnCurso /\ x.pedido = y => y \in Atendidos'
      /\ Creando' = Creando \ {h}
  BY <1>1, <1>4, <1>5, Relevo
<1>7. Atendidos \in SUBSET Atendidos'
  <2>1. Atendidos \subseteq PedidoIds /\ x.fase \in EnCurso
    BY <1>4 DEF Atendidos, EnCurso
  <2> QED BY <1>4, <1>6, <2>1
<1>8. Cardinality(Atendidos') >= Cardinality(Atendidos) + 0
  BY <1>7, Finitos, Parte
<1>9. Cardinality(Creando') <= Cardinality(Creando) + (-1)
  <2>1. h \in Creando
    BY <1>4 DEF Creando
  <2> QED BY <1>6, <2>1, Finitos, SinUno
<1>10. Cuantas' = Cuantas + 1
  BY <1>1, <1>3, UnaMas
<1>11. /\ IsFiniteSet(tardias') /\ Cardinality(tardias') <= Cardinality(tardias) + 0
       /\ estado' \in [PedidoIds -> Estados] /\ fallos' = fallos + 0
  BY <1>1, <1>4, FS_CardinalityType DEF Contado
<1>12. 0 \in Int /\ 1 \in Int /\ -1 \in Int /\ 0 \in Nat /\ 1 + 0 + (-1) <= 0 + 0
  OBVIOUS
<1> QED BY <1>1, <1>8, <1>9, <1>10, <1>11, <1>12, SaldoSigue

\* So does the late insert with the late request.
LEMMA CuentaCreateRatingTarde ==
  ASSUME IInvDuplicados, NEW t \in tardias, CreateRatingTarde(t)
  PROVE  Contado'
<1>1. TiposLista /\ Contado
  BY DEF IInvDuplicados, IInv
<1>2. PICK o \in PedidoIds, p \in Puntuaciones : Inserta(o, p)
  BY <1>1 DEF TiposLista, TardiasValidas, CreateRatingTarde
<1>3. UNCHANGED <<estado, calificado, hilo, fallos>> /\ tardias' = tardias \ {t}
  BY DEF CreateRatingTarde
<1>4. \A y \in PedidoIds : Guardada(y) => Guardada(y)'
  BY <1>1, <1>2, InsertaCrece
<1>5. Creando' = Creando
  BY <1>3 DEF Creando
<1>6. Atendidos \in SUBSET Atendidos'
  <2>1. ASSUME NEW y \in PedidoIds, Atendido(y) PROVE Atendido(y)'
    <3>1. CASE y \in calificado \/ (estado[y] = "BORRADO" /\ Guardada(y))
      <4>1. y \in calificado' \/ (estado'[y] = "BORRADO" /\ Guardada(y)')
        BY <1>3, <1>4, <3>1
      <4> QED BY <4>1 DEF Atendido, Guardada
    <3>2. CASE \E h \in Hilos : hilo[h].fase \in EnCurso /\ hilo[h].pedido = y
      BY <1>3, <3>2 DEF Atendido
    <3> QED BY <2>1, <3>1, <3>2, Zenon DEF Atendido
  <2> QED BY <2>1 DEF Atendidos
<1>7. Cardinality(Atendidos') >= Cardinality(Atendidos) + 0
  BY <1>6, Finitos, Parte
<1>8. Cardinality(Creando') <= Cardinality(Creando) + 0
  BY <1>5, Finitos
<1>9. IsFiniteSet(tardias') /\ Cardinality(tardias') <= Cardinality(tardias) + (-1)
  <2>1. IsFiniteSet(tardias)
    BY <1>1 DEF Contado
  <2>2. /\ IsFiniteSet(tardias \ {t}) /\ Cardinality(tardias) \in Nat
        /\ Cardinality(tardias \ {t}) = Cardinality(tardias) - 1
    BY <2>1, SinUno
  <2> QED BY <1>3, <2>2
<1>10. Cuantas' = Cuantas + 1
  BY <1>1, <1>2, UnaMas
<1>11. estado' \in [PedidoIds -> Estados] /\ fallos' = fallos + 0
  BY <1>1, <1>3 DEF Contado
<1>12. 0 \in Int /\ 1 \in Int /\ -1 \in Int /\ 0 \in Nat /\ 1 + (-1) + 0 <= 0 + 0
  OBVIOUS
<1> QED BY <1>1, <1>7, <1>8, <1>9, <1>10, <1>11, <1>12, SaldoSigue

\* A call that fails leaves its order, and perhaps its insert to come; one that
\* fails after its insert leaves the order only.
LEMMA CuentaRatingFails ==
  ASSUME IInvDuplicados, NEW h \in Hilos, RatingFails(h)
  PROVE  Contado'
<1>1. TiposLista /\ Contado
  BY DEF IInvDuplicados, IInv
<1>2. /\ hilo' = [hilo EXCEPT ![h] = Libre] /\ Libre.fase = "libre"
      /\ UNCHANGED <<estado, calificado, calificaciones>> /\ fallos' = fallos + 1
  BY LibreEsPeticion DEF RatingFails, Falla, Termina
<1>3. CASE UNCHANGED tardias
  BY <1>2, <1>3, CuentaTranquila
<1>4. ASSUME NEW t, hilo[h].fase = "crear", tardias' = tardias \cup {t} PROVE Contado'
  <2>1. \A y \in PedidoIds : Guardada(y) => Guardada(y)'
    BY <1>2, ListasQuietas
  <2>2. /\ \A y \in Atendidos : y \in Atendidos' \/ (hilo[h].fase \in EnCurso /\ y = hilo[h].pedido)
        /\ Creando' = Creando \ {h}
    BY <1>1, <1>2, <2>1, Relevo
  <2>3. Cardinality(Creando') <= Cardinality(Creando) + (-1)
    <3>1. h \in Creando
      BY <1>4 DEF Creando
    <3> QED BY <2>2, <3>1, Finitos, SinUno
  <2>4. Cardinality(Atendidos') >= Cardinality(Atendidos) + (-1)
    <3>1. Atendidos \in SUBSET (Atendidos' \cup {hilo[h].pedido})
      BY <2>2
    <3>2. Cardinality(Atendidos) <= Cardinality(Atendidos') + 1
      BY <3>1, Finitos, ConUnaMas
    <3> QED BY <3>2, Finitos
  <2>5. IsFiniteSet(tardias') /\ Cardinality(tardias') <= Cardinality(tardias) + 1
    BY <1>1, <1>4, ConUnoMas DEF Contado
  <2>6. Cuantas' = Cuantas + 0 /\ estado' \in [PedidoIds -> Estados]
    <3>1. Cuantas' = Cuantas
      BY <1>2, SinInserta
    <3> QED BY <1>1, <1>2, <3>1 DEF Contado
  <2>7. 0 \in Int /\ 1 \in Int /\ -1 \in Int /\ 1 \in Nat /\ 0 + 1 + (-1) <= (-1) + 1
    OBVIOUS
  <2> QED BY <1>1, <1>2, <2>3, <2>4, <2>5, <2>6, <2>7, SaldoSigue
<1> QED BY <1>3, <1>4 DEF RatingFails

\* The other steps of a thread.
LEMMA CuentaHilo ==
  ASSUME IInvDuplicados, NEW h \in Hilos,
         RatingCreated(h) \/ MarkCalificado(h) \/ ListRatings(h) \/ RefreshReputacion(h) \/ Enviar(h) \/ Caer(h)
  PROVE  Contado'
<1>1. IInv /\ TiposLista /\ Contado /\ Libre.fase = "libre" /\ fallos \in Nat
  BY LibreEsPeticion DEF IInvDuplicados, IInv, Contado
<1>2. CASE RatingCreated(h)
  <2> DEFINE x == [fase |-> "marcar", pedido |-> hilo[h].pedido]
  <2>1. /\ hilo' = [hilo EXCEPT ![h] = x] /\ x.fase = "marcar" /\ x.pedido = hilo[h].pedido
        /\ UNCHANGED <<estado, calificado, calificaciones, tardias>> /\ fallos' = fallos + 0
    BY <1>1, <1>2 DEF RatingCreated, Pasa
  <2> HIDE DEF x
  <2> QED BY <2>1, CuentaTranquila DEF EnCurso
<1>3. CASE MarkCalificado(h)
  <2>1. UNCHANGED <<estado, calificaciones, tardias>> /\ fallos' = fallos + 0 /\ hilo[h].fase = "marcar"
    BY <1>1, <1>3 DEF MarkCalificado
  <2>2. hilo[h].pedido \in PedidoIds /\ Guardada(hilo[h].pedido)
    BY <1>1, <2>1, FaseLista DEF IInv, HilosGuardados
  <2>3. CASE estado[hilo[h].pedido] = "BORRADO"
    <3>1. hilo' = [hilo EXCEPT ![h] = Libre] /\ UNCHANGED calificado
      BY <1>3, <2>3 DEF MarkCalificado, Termina
    <3>2. \A o \in PedidoIds : estado[o] = "BORRADO" /\ Guardada(o) => o \in Atendidos'
      BY <2>1 DEF Atendidos, Atendido, Guardada
    <3> QED BY <1>1, <2>1, <2>2, <2>3, <3>1, <3>2, CuentaTranquila
  <2>4. CASE estado[hilo[h].pedido] # "BORRADO"
    <3> DEFINE x == [fase |-> "listar", pedido |-> hilo[h].pedido]
    <3>1. /\ hilo' = [hilo EXCEPT ![h] = x] /\ x.fase = "listar"
          /\ calificado' = calificado \cup {hilo[h].pedido}
      BY <1>3, <2>4 DEF MarkCalificado, Pasa
    <3>2. \A o \in PedidoIds : o \in calificado' => o \in Atendidos'
      BY DEF Atendidos, Atendido
    <3> HIDE DEF x
    <3> QED BY <2>1, <3>1, <3>2, CuentaTranquila
  <2> QED BY <2>3, <2>4
<1>4. CASE ListRatings(h)
  <2>1. hilo[h].fase \notin EnCurso /\ UNCHANGED <<estado, calificado, calificaciones, tardias>>
    BY <1>4 DEF ListRatings, EnCurso
  <2>2. PICK x, k : k \in Nat /\ hilo' = [hilo EXCEPT ![h] = x] /\ x.fase # "crear" /\ fallos' = fallos + k
    <3>1. CASE UNCHANGED fallos
      <4>1. fallos' = fallos + 0
        BY <1>1, <3>1
      <4> DEFINE x == [fase |-> "guardar", pedido |-> hilo[h].pedido,
                       resumen |-> Resumen(calificaciones[Vendedor[hilo[h].pedido]])]
                 y == [fase |-> "avisar", pedido |-> hilo[h].pedido]
      <4>2. x.fase # "crear" /\ y.fase # "crear"
        OBVIOUS
      <4>3. hilo' = [hilo EXCEPT ![h] = x] \/ hilo' = [hilo EXCEPT ![h] = y]
        BY <1>4 DEF ListRatings, Pasa
      <4> HIDE DEF x, y
      <4> QED BY <4>1, <4>2, <4>3
    <3>2. CASE Pasa(h, "avisar") /\ Falla
      <4> DEFINE y == [fase |-> "avisar", pedido |-> hilo[h].pedido]
      <4>1. y.fase # "crear" /\ hilo' = [hilo EXCEPT ![h] = y] /\ fallos' = fallos + 1
        BY <3>2 DEF Pasa, Falla
      <4> HIDE DEF y
      <4> QED BY <4>1
    <3> QED BY <1>4, <3>1, <3>2 DEF ListRatings
  <2> QED BY <2>1, <2>2, CuentaTranquila
<1>5. CASE RefreshReputacion(h)
  <2> DEFINE x == [fase |-> "avisar", pedido |-> hilo[h].pedido]
  <2>1. /\ hilo' = [hilo EXCEPT ![h] = x] /\ x.fase = "avisar" /\ hilo[h].fase \notin EnCurso
        /\ UNCHANGED <<estado, calificado, calificaciones, tardias>> /\ fallos' = fallos + 0
    BY <1>1, <1>5 DEF RefreshReputacion, Pasa, EnCurso
  <2> HIDE DEF x
  <2> QED BY <2>1, CuentaTranquila
<1>6. CASE Enviar(h)
  <2>1. /\ hilo' = [hilo EXCEPT ![h] = Libre] /\ hilo[h].fase \notin EnCurso
        /\ UNCHANGED <<estado, calificado, calificaciones, tardias>> /\ fallos' = fallos + 0
    BY <1>1, <1>6 DEF Enviar, Termina, EnCurso
  <2> QED BY <1>1, <2>1, CuentaTranquila
<1>7. CASE Caer(h)
  <2>1. /\ hilo' = [hilo EXCEPT ![h] = Libre]
        /\ UNCHANGED <<estado, calificado, calificaciones, tardias>> /\ fallos' = fallos + 1
    BY <1>7 DEF Caer, Termina, Falla
  <2> QED BY <1>1, <2>1, CuentaTranquila
<1> QED BY <1>2, <1>3, <1>4, <1>5, <1>6, <1>7

\* An order's own life takes none out of the attended: a rated one that is
\* deleted has its rating stored.
LEMMA CuentaAjena ==
  ASSUME IInvDuplicados, (\E o \in PedidoIds : Vida(o)) \/ UNCHANGED vars
  PROVE  Contado'
<1>1. IInv /\ TiposLista /\ Contado
  BY DEF IInvDuplicados, IInv
<1>2. UNCHANGED <<calificaciones, tardias, hilo, fallos>>
  BY DEF Vida, vars
<1>3. estado' \in [PedidoIds -> Estados]
  BY <1>1 DEF Contado, Vida, vars
<1>4. ASSUME NEW y \in PedidoIds, Atendido(y) PROVE Atendido(y)'
  <2>1. CASE y \in calificado
    <3>1. Guardada(y)
      BY <1>1, <2>1 DEF IInv, CalificadoGuardado
    <3>2. y \in calificado' \/ estado'[y] = "BORRADO"
      BY <2>1 DEF Vida, vars
    <3> QED BY <1>2, <3>1, <3>2 DEF Atendido, Guardada
  <2>2. CASE estado[y] = "BORRADO" /\ Guardada(y)
    <3>1. estado'[y] = "BORRADO"
      BY <1>1, <2>2 DEF Vida, vars, Contado
    <3> QED BY <1>2, <2>2, <3>1 DEF Atendido, Guardada
  <2>3. CASE \E h \in Hilos : hilo[h].fase \in EnCurso /\ hilo[h].pedido = y
    BY <1>2, <2>3 DEF Atendido
  <2> QED BY <1>4, <2>1, <2>2, <2>3 DEF Atendido
<1>5. Atendidos \in SUBSET Atendidos' /\ Creando' = Creando
  BY <1>2, <1>4 DEF Atendidos, Creando
<1>6. Cardinality(Atendidos') >= Cardinality(Atendidos) + 0 /\ Cardinality(Creando') <= Cardinality(Creando) + 0
  BY <1>5, Finitos, Parte
<1>7. /\ Cuantas' = Cuantas + 0 /\ IsFiniteSet(tardias') /\ Cardinality(tardias') <= Cardinality(tardias) + 0
      /\ fallos' = fallos + 0
  <2>1. Cuantas' = Cuantas
    BY <1>2, SinInserta
  <2> QED BY <1>1, <1>2, <2>1, FS_CardinalityType DEF Contado
<1>8. 0 \in Int /\ 0 \in Nat /\ 0 + 0 + 0 <= 0 + 0
  OBVIOUS
<1> QED BY <1>1, <1>3, <1>6, <1>7, <1>8, SaldoSigue

\* There are no ratings at the start.
LEMMA CuentaInicio == Init => Contado
<1> SUFFICES ASSUME Init PROVE Contado
  OBVIOUS
<1>1. /\ estado \in [PedidoIds -> Estados] /\ tardias = {} /\ fallos = 0
      /\ \A v \in Vendedores : Len(calificaciones[v]) = 0
  BY DEF Init, Estados
<1>2. Creando = {}
  BY LibreEsPeticion DEF Init, Creando
<1>3. IsFiniteSet({}) /\ Cardinality({}) = 0
  BY FS_EmptySet
<1> DEFINE ceros == Largos(calificaciones)
<1>4. ceros = [v \in Vendedores |-> 0]
  BY <1>1 DEF Largos
<1>5. Cuantas = SumaDe(ceros)
  BY CuantasEsSuma
<1> HIDE DEF ceros
<1>6. SumaDe(ceros) = 0
  <2>1. ceros \in [Vendedores -> Int] /\ \A v \in Vendedores : ceros[v] = 0
    BY <1>4
  <2> QED BY <2>1, SumaNula DEF SumaDe
<1>7. Saldo
  BY <1>1, <1>2, <1>3, <1>5, <1>6, Finitos DEF Saldo
<1> QED BY <1>1, <1>3, <1>5, <1>6, <1>7 DEF Contado

LEMMA InvarianteDuplicados == ASSUME ClienteSerie PROVE Spec => []IInvDuplicados
<1>1. Init => IInvDuplicados
  BY Inicio, CuentaInicio DEF IInvDuplicados
<1>2. IInvDuplicados /\ [Next]_vars => IInvDuplicados'
  <2> SUFFICES ASSUME IInvDuplicados, [Next]_vars PROVE Contado'
    BY Paso DEF IInvDuplicados
  <2>1. ASSUME NEW h \in Hilos, NEW o \in PedidoIds, NEW p \in Puntuaciones, RateOrder(h, o, p) PROVE Contado'
    BY <2>1, CuentaRateOrder
  <2>2. ASSUME NEW h \in Hilos, Avance(h) PROVE Contado'
    BY <2>2, CuentaCreateRating, CuentaHilo DEF Avance
  <2>3. ASSUME NEW h \in Hilos, RatingFails(h) \/ Caer(h) PROVE Contado'
    BY <2>3, CuentaRatingFails, CuentaHilo
  <2>4. ASSUME NEW t \in tardias, CreateRatingTarde(t) PROVE Contado'
    BY <2>4, CuentaCreateRatingTarde
  <2>5. CASE (\E o \in PedidoIds : Vida(o)) \/ UNCHANGED vars
    BY <2>5, CuentaAjena
  <2> QED BY <2>1, <2>2, <2>3, <2>4, <2>5 DEF Next
<1> QED BY <1>1, <1>2, PTL DEF Spec

\* Where a buyer has one request at a time, every second rating of an order costs
\* a failure of its own: rate_order looks at calificado before it creates, and the
\* request that created goes on to mark it.
THEOREM Duplicados == ASSUME ClienteSerie PROVE Spec => []DuplicadosContados
<1>1. ASSUME IInvDuplicados PROVE DuplicadosContados
  <2> DEFINE Guardadas == {o \in PedidoIds : Guardada(o)}
             Pendientes == {o \in PedidoIds : \E h \in Creando : hilo[h].pedido = o}
  <2>1. IInv /\ TiposLista /\ Contado
    BY <1>1 DEF IInvDuplicados, IInv
  <2>2. Atendidos \in SUBSET (Guardadas \cup Pendientes)
    <3>1. ASSUME NEW o \in PedidoIds, Atendido(o) PROVE o \in Guardadas \cup Pendientes
      <4>1. CASE o \in calificado
        BY <2>1, <4>1 DEF IInv, CalificadoGuardado
      <4>2. CASE estado[o] = "BORRADO" /\ Guardada(o)
        BY <4>2
      <4>3. CASE \E h \in Hilos : hilo[h].fase \in EnCurso /\ hilo[h].pedido = o
        <5>1. PICK h \in Hilos : hilo[h].fase \in EnCurso /\ hilo[h].pedido = o
          BY <4>3
        <5>2. CASE hilo[h].fase = "crear"
          BY <5>1, <5>2 DEF Creando
        <5>3. CASE hilo[h].fase # "crear"
          <6>1. Guardada(hilo[h].pedido)
            BY <2>1, <5>1, <5>3 DEF IInv, HilosGuardados, EnCurso
          <6> QED BY <5>1, <6>1
        <5> QED BY <5>2, <5>3
      <4> QED BY <3>1, <4>1, <4>2, <4>3 DEF Atendido
    <3> QED BY <3>1 DEF Atendidos
  <2>3. IsFiniteSet(Pendientes) /\ Cardinality(Pendientes) \in Nat /\ Cardinality(Pendientes) <= Cardinality(Creando)
    <3> DEFINE f == [o \in Pendientes |-> CHOOSE h \in Creando : hilo[h].pedido = o]
    <3>1. \A o \in Pendientes : f[o] \in Creando /\ hilo[f[o]].pedido = o
      OBVIOUS
    <3>2. f \in [Pendientes -> Creando]
      BY <3>1
    <3> HIDE DEF f, Pendientes
    <3>3. \A x, y \in Pendientes : f[x] = f[y] => x = y
      BY <3>1
    <3> QED BY <3>2, <3>3, Finitos, UnoAUno
  <2>4. IsFiniteSet(Guardadas) /\ Cardinality(Guardadas) \in Nat
    BY Parte
  <2> HIDE DEF Guardadas, Pendientes
  <2>5. /\ IsFiniteSet(Guardadas \cup Pendientes)
        /\ Cardinality(Guardadas \cup Pendientes) \in Nat
        /\ Cardinality(Guardadas \cup Pendientes) <= Cardinality(Guardadas) + Cardinality(Pendientes)
    BY <2>3, <2>4, Juntos
  <2>6. Cardinality(Atendidos) <= Cardinality(Guardadas \cup Pendientes)
    BY <2>2, <2>5, Parte
  <2>7. /\ Cuantas \in Int /\ fallos \in Nat /\ Cardinality(tardias) \in Nat
        /\ Cardinality(Creando) \in Nat /\ Cardinality(Atendidos) \in Nat
    BY <2>1, Finitos, FS_CardinalityType DEF Contado
  <2>8. Cuantas + Cardinality(tardias) + Cardinality(Creando) <= fallos + Cardinality(Atendidos)
    BY <2>1 DEF Contado, Saldo
  <2>9. Cuantas <= Cardinality(Guardadas) + fallos
    BY <2>3, <2>4, <2>5, <2>6, <2>7, <2>8
  <2> QED BY <2>9 DEF DuplicadosContados, Cuantas, Guardadas
<1> QED BY <1>1, InvarianteDuplicados, PTL
==============================================================================
