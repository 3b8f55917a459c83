----------------------------- MODULE Geo_proofs ------------------------------
(***************************************************************************)
(* Theorems about the two geocoding caches, for any texts, threads, times  *)
(* and bounds: the variants that a text is asked with, the pause after a   *)
(* rate limit, the size of the caches and whose street a suggestion names  *)
(* (Geocodificacion over DireccionesCo), and the size of the Google caches *)
(* (GeoGoogle); and about the routes, for any legs: that decoding undoes   *)
(* the encoding of the providers, and that the line drawn is theirs        *)
(* (Rutas).                                                                *)
(***************************************************************************)
EXTENDS Geocodificacion, GeoGoogle, Rutas, Conteo

------------------------------------------------------------------------------
(* The variants of a text *)

\* The recursive function of Variantes exists and obeys its equation.
LEMMA Desarrollo ==
  ASSUME NEW textos, Len(textos) \in Nat
  PROVE  \E f : /\ f = [n \in 0 .. Len(textos) |->
                          IF n = 0 THEN <<>> ELSE Agrega(f[n - 1], textos[n])]
                /\ Variantes(textos) = f[Len(textos)]
<1> DEFINE Obedece(f, k) == f = [n \in 0 .. k |-> IF n = 0 THEN <<>> ELSE Agrega(f[n - 1], textos[n])]
           Falta == {k \in Nat : ~\E f : Obedece(f, k)}
<1>1. \E f : Obedece(f, 0)
  <2> DEFINE f == [n \in 0 .. 0 |-> <<>>]
  <2>1. Obedece(f, 0)
    OBVIOUS
  <2> QED BY <2>1
<1>2. ASSUME NEW k \in Nat, NEW g, Obedece(g, k) PROVE \E f : Obedece(f, k + 1)
  <2> DEFINE f == [n \in 0 .. (k + 1) |-> IF n = k + 1 THEN Agrega(g[k], textos[k + 1]) ELSE g[n]]
  <2>1. ASSUME NEW n \in 0 .. (k + 1)
        PROVE  f[n] = IF n = 0 THEN <<>> ELSE Agrega(f[n - 1], textos[n])
    <3>1. CASE n = k + 1
      BY <3>1
    <3>2. CASE n # k + 1
      <4>1. n \in 0 .. k /\ (n # 0 => n - 1 \in 0 .. (k + 1) /\ n - 1 # k + 1)
        BY <3>2
      <4>2. f[n] = g[n] /\ (n # 0 => f[n - 1] = g[n - 1])
        BY <3>2, <4>1
      <4>3. g[n] = IF n = 0 THEN <<>> ELSE Agrega(g[n - 1], textos[n])
        BY <1>2, <4>1
      <4> QED BY <4>2, <4>3
    <3> QED BY <3>1, <3>2
  <2>2. Obedece(f, k + 1)
    BY <2>1
  <2> QED BY <2>2
<1>3. Falta = {}
  <2> SUFFICES ASSUME Falta # {} PROVE FALSE
    OBVIOUS
  <2>1. PICK k \in Falta : \A j \in Falta : k <= j
    BY Minimo
  <2>2. k \in Nat \ {0}
    BY <1>1
  <2>3. k - 1 \in Nat /\ k - 1 \notin Falta
    BY <2>1, <2>2
  <2>4. \E f : Obedece(f, (k - 1) + 1)
    BY <1>2, <2>3
  <2> QED BY <2>2, <2>4
<1>4. \E f : Obedece(f, Len(textos))
  BY <1>3
<1> QED BY <1>4 DEF Variantes

LEMMA TrasAgregar ==
  ASSUME NEW s \in Seq(Texto), NEW t \in Texto \cup {SinTexto}
  PROVE  /\ Agrega(s, t) \in Seq(Texto)
         /\ \A k \in DOMAIN Agrega(s, t) : Agrega(s, t)[k] = t \/ \E i \in DOMAIN s : Agrega(s, t)[k] = s[i]
         /\ s # <<>> \/ t # SinTexto => Agrega(s, t) # <<>>
<1>1. CASE t = SinTexto \/ \E i \in DOMAIN s : s[i] = t
  BY <1>1 DEF Agrega
<1>2. CASE ~(t = SinTexto \/ \E i \in DOMAIN s : s[i] = t)
  <2>1. Agrega(s, t) = Append(s, t) /\ t \in Texto
    BY <1>2 DEF Agrega
  <2>2. /\ Append(s, t) \in Seq(Texto) /\ Len(Append(s, t)) = Len(s) + 1 /\ Len(s) \in Nat
        /\ Append(s, t)[Len(s) + 1] = t /\ \A i \in 1 .. Len(s) : Append(s, t)[i] = s[i]
    BY <2>1
  <2>3. \A k \in 1 .. Len(s) + 1 : k = Len(s) + 1 \/ k \in DOMAIN s
    BY <2>2
  <2>4. Append(s, t) # <<>>
    BY <2>2
  <2> QED BY <2>1, <2>2, <2>3, <2>4
<1> QED BY <1>1, <1>2

\* Variantes keeps texts it is given, none if all are empty.
LEMMA DeVariantes ==
  ASSUME NEW textos \in Seq(Texto \cup {SinTexto})
  PROVE  /\ Variantes(textos) \in Seq(Texto)
         /\ \A k \in DOMAIN Variantes(textos) : \E j \in 1 .. Len(textos) : Variantes(textos)[k] = textos[j]
         /\ (\E j \in 1 .. Len(textos) : textos[j] # SinTexto) => Variantes(textos) # <<>>
<1> DEFINE N == Len(textos)
<1>1. N \in Nat
  OBVIOUS
<1>2. PICK f : /\ f = [n \in 0 .. N |-> IF n = 0 THEN <<>> ELSE Agrega(f[n - 1], textos[n])]
               /\ Variantes(textos) = f[N]
  BY <1>1, Desarrollo
<1> DEFINE Bien(n) == /\ f[n] \in Seq(Texto)
                      /\ \A k \in DOMAIN f[n] : \E j \in 1 .. n : f[n][k] = textos[j]
                      /\ (\E j \in 1 .. n : textos[j] # SinTexto) => f[n] # <<>>
           Mal == {n \in Nat : n <= N /\ ~Bien(n)}
<1>3. Bien(0)
  <2>1. f[0] = <<>>
    BY <1>1, <1>2
  <2> QED BY <2>1
<1>4. ASSUME NEW n \in Nat, n + 1 <= N, Bien(n) PROVE Bien(n + 1)
  <2>1. f[n + 1] = Agrega(f[n], textos[n + 1])
    <3>1. n + 1 \in 0 .. N /\ n + 1 # 0 /\ (n + 1) - 1 = n
      BY <1>1, <1>4
    <3> QED BY <1>2, <3>1
  <2>2. textos[n + 1] \in Texto \cup {SinTexto}
    BY <1>1, <1>4
  <2>3. /\ f[n + 1] \in Seq(Texto)
        /\ \A k \in DOMAIN f[n + 1] : f[n + 1][k] = textos[n + 1] \/ \E i \in DOMAIN f[n] : f[n + 1][k] = f[n][i]
        /\ f[n] # <<>> \/ textos[n + 1] # SinTexto => f[n + 1] # <<>>
    BY <1>4, <2>1, <2>2, TrasAgregar
  <2>4. \A j \in 1 .. n : j \in 1 .. n + 1
    OBVIOUS
  <2>5. \A j \in 1 .. n + 1 : j = n + 1 \/ j \in 1 .. n
    OBVIOUS
  <2>6. n + 1 \in 1 .. n + 1
    OBVIOUS
  <2> HIDE <1>2
  <2>7. ASSUME NEW k \in DOMAIN f[n + 1] PROVE \E j \in 1 .. n + 1 : f[n + 1][k] = textos[j]
    <3>1. CASE f[n + 1][k] = textos[n + 1]
      BY <2>6, <3>1
    <3>2. CASE \E i \in DOMAIN f[n] : f[n + 1][k] = f[n][i]
      BY <1>4, <2>4, <3>2
    <3> QED BY <2>3, <3>1, <3>2
  <2>8. (\E j \in 1 .. n + 1 : textos[j] # SinTexto) => f[n + 1] # <<>>
    BY <1>4, <2>3, <2>5
  <2> QED BY <2>3, <2>7, <2>8
<1>5. Mal = {}
  <2> SUFFICES ASSUME Mal # {} PROVE FALSE
    OBVIOUS
  <2>1. PICK n \in Mal : \A m \in Mal : n <= m
    BY Minimo
  <2>2. n \in Nat \ {0} /\ n <= N
    BY <1>3
  <2>3. n - 1 \in Nat /\ n - 1 <= N /\ n - 1 \notin Mal
    BY <1>1, <2>1, <2>2
  <2>4. Bien(n - 1)
    BY <2>3
  <2>5. Bien((n - 1) + 1)
    BY <1>4, <2>2, <2>3, <2>4
  <2> QED BY <2>2, <2>5
<1>6. Bien(N)
  BY <1>1, <1>5
<1> QED BY <1>2, <1>6

LEMMA NingunTextoVacio == \A t \in Texto : t # SinTexto
<1> SUFFICES ASSUME NEW t \in Texto PROVE t # SinTexto
  OBVIOUS
<1>1. "via" \in DOMAIN t
  BY DEF Texto
<1>2. DOMAIN SinTexto = {}
  BY DEF SinTexto
<1> QED BY <1>1, <1>2

LEMMA DeContexto ==
  ASSUME NEW t \in Texto
  PROVE  ConContexto(t) \in Texto /\ ConContexto(t).otraVia = t.otraVia /\ ConContexto(t).via = t.via
         /\ ConContexto(t).letra = t.letra
BY ZenonT(40) DEF ConContexto, Texto

LEMMA DeNormalizada ==
  ASSUME NEW t \in Texto
  PROVE  Normalizada(t) \in Texto /\ Normalizada(t).otraVia = t.otraVia /\ Normalizada(t).via = t.via
         /\ Normalizada(t).letra = t.letra
<1> DEFINE plena == [t EXCEPT !.abrev = FALSE]
<1>1. plena \in Texto /\ plena.otraVia = t.otraVia /\ plena.via = t.via /\ plena.letra = t.letra
  BY DEF Texto
<1> HIDE DEF plena
<1> DEFINE otra == [plena EXCEPT !.gato = TRUE, !.guion = TRUE]
<1>2. otra \in Texto /\ otra.otraVia = t.otraVia /\ otra.via = t.via /\ otra.letra = t.letra
  BY <1>1 DEF Texto
<1>3. Normalizada(t) \in {plena, otra}
  BY DEF Normalizada, plena
<1> QED BY <1>1, <1>2, <1>3

LEMMA DeSinGato ==
  ASSUME NEW t \in Texto
  PROVE  /\ SinGato(t) \in Texto /\ SinGato(t).otraVia = t.otraVia
         /\ SinGatoNiGuion(t) \in Texto /\ SinGatoNiGuion(t).otraVia = t.otraVia
BY DEF SinGato, SinGatoNiGuion, Texto

LEMMA DeSinPrefijo ==
  ASSUME NEW t \in Texto
  PROVE  SinPrefijo(t) = SinTexto \/ (SinPrefijo(t) \in Texto /\ SinPrefijo(t).otraVia = t.otraVia)
BY DEF SinPrefijo, Texto

\* Only a numberless road whose name ends in a letter becomes another road.
LEMMA DeSinPlaca ==
  ASSUME NEW t \in Texto
  PROVE  \/ SinPlaca(t) = SinTexto
         \/ SinPlaca(t) \in Texto /\ (SinPlaca(t).otraVia = t.otraVia \/ (t.via = "calle" /\ t.letra))
<1> DEFINE a == [t EXCEPT !.casa = "L", !.guion = FALSE]
           b == [t EXCEPT !.gato = TRUE]
           c == [t EXCEPT !.casa = "L", !.gato = TRUE, !.letra = FALSE, !.otraVia = TRUE]
<1>1. a \in Texto /\ a.otraVia = t.otraVia
  BY DEF Texto
<1>2. b \in Texto /\ b.otraVia = t.otraVia
  BY DEF Texto
<1>3. c \in Texto
  BY DEF Texto
<1>4. \/ SinPlaca(t) \in {a, b, SinTexto}
      \/ SinPlaca(t) = c /\ t.via = "calle" /\ t.letra
  BY DEF SinPlaca
<1> QED BY <1>1, <1>2, <1>3, <1>4

LEMMA DeSoloVia ==
  ASSUME NEW t \in Texto
  PROVE  /\ t.via = "calle" => SoloVia(t) \in Texto /\ SoloVia(t).otraVia = t.otraVia
         /\ t.via # "calle" => SoloVia(t) = SinTexto
<1> DEFINE n == Normalizada(t)
           v == [n EXCEPT !.casa = "", !.gato = FALSE, !.guion = FALSE]
<1>1. n \in Texto /\ n.otraVia = t.otraVia
  BY DeNormalizada
<1> HIDE DEF n
<1>2. v \in Texto /\ v.otraVia = t.otraVia
  BY <1>1 DEF Texto
<1>3. SoloVia(t) = IF t.via = "calle" THEN v ELSE SinTexto
  BY DEF SoloVia, n
<1> QED BY <1>2, <1>3

\* Another road can only be asked for when what is found is held against the road.
LEMMA RevisaSiHayLetra ==
  ASSUME NEW t \in Textos, t.via = "calle", t.letra
  PROVE  Plan[t].revisa
<1>1. t \in Texto
  BY ConstantesGeo
<1>2. EsColombia(t) /\ TieneDetalle(t)
  BY DEF EsColombia, TieneDetalle
<1>3. SoloVia(Normalizada(ConContexto(t))) \in Texto
  BY <1>1, DeContexto, DeNormalizada, DeSoloVia
<1>4. SoloVia(Normalizada(ConContexto(t))) # SinTexto
  BY <1>3, NingunTextoVacio
<1> QED BY <1>2, <1>4 DEF Plan

LEMMA DeSugerencia ==
  ASSUME NEW t \in Textos
  PROVE  /\ VariantesDeSugerencia(t) \in Seq(Texto) /\ VariantesDeSugerencia(t) # <<>>
         /\ ~Plan[t].revisa => \A k \in DOMAIN VariantesDeSugerencia(t) : ~VariantesDeSugerencia(t)[k].otraVia
<1> DEFINE ctx == ConContexto(t)
           norm == Normalizada(ctx)
           lugar == IF PareceLugar(t) THEN SinPrefijo(t) ELSE SinTexto
           tal == IF ctx = t THEN SinTexto ELSE t
           Va(x) == x = SinTexto \/ (x \in Texto /\ (~Plan[t].revisa => ~x.otraVia))
<1>1. t \in Texto /\ ~t.otraVia
  BY ConstantesGeo
<1>2. norm \in Texto /\ ~norm.otraVia /\ norm.via = t.via /\ norm.letra = t.letra
  BY <1>1, DeContexto, DeNormalizada
<1>3. Va(norm) /\ Va(tal) /\ Va(t) /\ Va(lugar) /\ Va(SinGato(norm)) /\ Va(SinGatoNiGuion(norm)) /\ Va(SoloVia(norm))
  <2> HIDE DEF norm, ctx
  <2>1. Va(norm) /\ Va(tal) /\ Va(t)
    BY <1>1, <1>2
  <2>2. Va(lugar)
    BY <1>1, DeSinPrefijo
  <2>3. Va(SinGato(norm)) /\ Va(SinGatoNiGuion(norm))
    BY <1>2, DeSinGato
  <2>4. Va(SoloVia(norm))
    BY <1>2, DeSoloVia
  <2> QED BY <2>1, <2>2, <2>3, <2>4
<1>4. Va(SinPlaca(norm))
  <2> HIDE DEF norm, ctx
  <2>1. t.via = "calle" /\ t.letra => Plan[t].revisa
    BY RevisaSiHayLetra
  <2> QED BY <1>2, <2>1, DeSinPlaca
<1>5. norm # SinTexto /\ t # SinTexto
  BY <1>1, <1>2, NingunTextoVacio
<1>6. ASSUME NEW s, NEW n \in Nat \ {0}, s \in Seq(Texto \cup {SinTexto}), Len(s) = n, s[1] # SinTexto,
             \A k \in 1 .. n : Va(s[k])
      PROVE  /\ Variantes(s) \in Seq(Texto) /\ Variantes(s) # <<>>
             /\ ~Plan[t].revisa => \A k \in DOMAIN Variantes(s) : ~Variantes(s)[k].otraVia
  <2>1. /\ Variantes(s) \in Seq(Texto)
        /\ \A k \in DOMAIN Variantes(s) : \E j \in 1 .. Len(s) : Variantes(s)[k] = s[j]
        /\ (\E j \in 1 .. Len(s) : s[j] # SinTexto) => Variantes(s) # <<>>
    BY <1>6, DeVariantes
  <2>2. 1 \in 1 .. Len(s)
    BY <1>6
  <2>3. \A k \in DOMAIN Variantes(s) : Variantes(s)[k] \in Texto
    BY <2>1
  <2>4. \A k \in DOMAIN Variantes(s) : Variantes(s)[k] # SinTexto
    BY <2>3, NingunTextoVacio
  <2> HIDE DEF Va
  <2>5. \A k \in DOMAIN Variantes(s) : Va(Variantes(s)[k])
    BY <1>6, <2>1
  <2> USE DEF Va
  <2> QED BY <1>6, <2>1, <2>2, <2>4, <2>5
<1> DEFINE larga == <<norm, tal, lugar, SinGato(norm), SinGatoNiGuion(norm), SinPlaca(norm), SoloVia(norm)>>
           corta == <<t, lugar>>
<1>7. VariantesDeSugerencia(t) = IF EsColombia(t) THEN Variantes(larga) ELSE Variantes(corta)
  BY DEF VariantesDeSugerencia
<1>8. larga \in Seq(Texto \cup {SinTexto}) /\ Len(larga) = 7 /\ larga[1] # SinTexto /\ \A k \in 1 .. 7 : Va(larga[k])
  <2> HIDE DEF norm, tal, lugar, ctx, Va
  <2>1. \A x : Va(x) => x \in Texto \cup {SinTexto}
    BY DEF Va
  <2> QED BY <1>3, <1>4, <1>5, <2>1
<1>9. corta \in Seq(Texto \cup {SinTexto}) /\ Len(corta) = 2 /\ corta[1] # SinTexto /\ \A k \in 1 .. 2 : Va(corta[k])
  <2> HIDE DEF norm, tal, lugar, ctx, Va
  <2>1. \A x : Va(x) => x \in Texto \cup {SinTexto}
    BY DEF Va
  <2> QED BY <1>3, <1>5, <2>1
<1> HIDE DEF larga, corta, Va
<1>10. /\ Variantes(larga) \in Seq(Texto) /\ Variantes(larga) # <<>>
       /\ ~Plan[t].revisa => \A k \in DOMAIN Variantes(larga) : ~Variantes(larga)[k].otraVia
  BY <1>6, <1>8
<1>11. /\ Variantes(corta) \in Seq(Texto) /\ Variantes(corta) # <<>>
       /\ ~Plan[t].revisa => \A k \in DOMAIN Variantes(corta) : ~Variantes(corta)[k].otraVia
  BY <1>6, <1>9
<1> QED BY <1>7, <1>10, <1>11

LEMMA DeReserva ==
  ASSUME NEW t \in Textos
  PROVE  VarianteDeReserva(t) = SinTexto \/ (VarianteDeReserva(t) \in Texto /\ ~VarianteDeReserva(t).otraVia)
<1> DEFINE norm == Normalizada(ConContexto(t))
           reserva == IF SoloVia(norm) # SinTexto THEN SoloVia(norm)
                      ELSE IF SinPlaca(norm) # SinTexto THEN SinPlaca(norm) ELSE SinGato(norm)
<1>1. t \in Texto /\ ~t.otraVia
  BY ConstantesGeo
<1>2. norm \in Texto /\ ~norm.otraVia
  BY <1>1, DeContexto, DeNormalizada
<1>3. VarianteDeReserva(t) \in {reserva, SinTexto}
  BY DEF VarianteDeReserva
<1> HIDE DEF norm
<1>4. reserva \in Texto /\ ~reserva.otraVia
  <2>1. CASE norm.via = "calle"
    BY <1>2, <2>1, DeSoloVia, NingunTextoVacio
  <2>2. CASE norm.via # "calle"
    BY <1>2, <2>2, DeSoloVia, DeSinPlaca, DeSinGato
  <2> QED BY <2>1, <2>2
<1> QED BY <1>3, <1>4

LEMMA DeGeocodigo ==
  ASSUME NEW t \in Texto
  PROVE  VariantesDeGeocodigo(t) \in Seq(Texto) /\ VariantesDeGeocodigo(t) # <<>>
<1> DEFINE ctx == ConContexto(t)
           corta == [ctx EXCEPT !.casa = IF @ = "LP" THEN "L" ELSE "N", !.guion = FALSE]
<1>1. ctx \in Texto
  BY DeContexto
<1>2. VariantesDeGeocodigo(t) \in {<<ctx, corta>>, <<ctx>>}
  BY DEF VariantesDeGeocodigo
<1> HIDE DEF ctx
<1>3. corta \in Texto
  BY <1>1, ZenonT(40) DEF Texto
<1> HIDE DEF corta
<1>4. <<ctx, corta>> \in Seq(Texto) /\ <<ctx, corta>> # <<>> /\ <<ctx>> \in Seq(Texto) /\ <<ctx>> # <<>>
  BY <1>1, <1>3
<1>5. VariantesDeGeocodigo(t) = <<ctx, corta>> \/ VariantesDeGeocodigo(t) = <<ctx>>
  BY <1>2
<1> QED BY <1>4, <1>5

------------------------------------------------------------------------------
(* The Nominatim caches: the inductive invariant *)

USE ConstantesReloj, ConstantesGeo

Activa ==
  [fase : Fases, uso : Usos, texto : Textos, quedan : Seq(Texto), deReserva : BOOLEAN,
   hallado : Hallazgos, desvio : BOOLEAN, vieja : Textos \cup {SinTexto}, antes : Nat,
   largo : Nat, faltan : Nat]

\* A request with variants to ask; the ones nobody holds against the road are on it.
EnCamino(c) ==
  c.fase \in {"mirar", "preguntar"}
  => /\ c.quedan # <<>>
     /\ c.uso = "sugerir" /\ (c.deReserva \/ ~Plan[c.texto].revisa)
        => \A i \in DOMAIN c.quedan : ~c.quedan[i].otraVia

EnSuVia(c) ==
  c.fase \in {"guardar", "empezar", "recorrer", "desalojar", "poner"} /\ c.uso = "sugerir" /\ c.hallado # "nada"
    => ~c.desvio

EnPlaza(h, u) == consulta[h].fase \in {"desalojar", "poner"} /\ consulta[h].uso = u

\* The entries that threads have chosen to evict.
Elegidas(u) == {t \in Textos : \E h \in Hilos : consulta[h].fase = "desalojar" /\ consulta[h].uso = u /\ consulta[h].vieja = t}

Retiradas ==
  /\ retiradaHasta <= reloj + Retirada
  /\ \A h \in Hilos : /\ insistencias[h] <= 1
                      /\ consulta[h].fase = "preguntar" => insistencias[h] = 0
                      /\ insistencias[h] > 0 => reloj < retiradaHasta

\* A thread that found room, or made it, will fit: the entries that stay are
\* fewer than the maximum and what overlapping stores have added.
Cupos ==
  \A u \in Usos :
    /\ IsFiniteSet(Claves(u))
    /\ Cardinality(Claves(u)) <= MaximoCache[u] + solapes[u]
    /\ (\E h \in Hilos : EnPlaza(h, u)) => Cardinality(Claves(u) \ Elegidas(u)) < MaximoCache[u] + solapes[u]

\* A thread in the loop has seen an entry, if any; without the oldest it has met
\* so far, which may have gone by now, there is room for its own.
Vueltas ==
  \A u \in Usos :
    /\ \A t \in Textos : recorridos[u][t] \subseteq YaRecorren(u)
    /\ \A h \in YaRecorren(u) :
         Cardinality(Claves(u) \ {consulta[h].vieja}) < MaximoCache[u] + solapes[u]

IInvGeo ==
  /\ TypeOKGeo
  /\ \A h \in Hilos : EnCamino(consulta[h]) /\ EnSuVia(consulta[h])
  /\ Retiradas
  /\ Cupos
  /\ Vueltas

LEMMA LasConsultas ==
  /\ Consulta = [fase : {"libre"}] \cup Activa
  /\ Libre \in Consulta /\ Libre.fase = "libre" /\ EnCamino(Libre) /\ EnSuVia(Libre)
  /\ \A c \in Consulta : c.fase # "libre" => c \in Activa
  /\ \A c \in Activa : c.fase # "libre"
BY DEF Consulta, Activa, Libre, EnCamino, EnSuVia, Fases

LEMMA TrasPonerConsulta ==
  ASSUME TypeOKGeo, NEW h \in Hilos, NEW c \in Consulta, Pone(h, c)
  PROVE  /\ consulta' \in [Hilos -> Consulta] /\ consulta'[h] = c
         /\ \A g \in Hilos : g # h => consulta'[g] = consulta[g]
BY DEF TypeOKGeo, Pone

LEMMA DelPlan ==
  ASSUME NEW t \in Textos, NEW u \in Usos
  PROVE  /\ Plan[t][u] \in Seq(Texto) /\ Plan[t][u] # <<>>
         /\ u = "sugerir" /\ ~Plan[t].revisa => \A i \in DOMAIN Plan[t][u] : ~Plan[t][u][i].otraVia
<1>1. t \in Texto
  OBVIOUS
<1>2. CASE u = "ubicar"
  <2>1. Plan[t][u] = VariantesDeGeocodigo(t)
    BY <1>2 DEF Plan
  <2> QED BY <1>1, <1>2, <2>1, DeGeocodigo
<1>3. CASE u = "sugerir"
  <2> DEFINE todas == VariantesDeSugerencia(t)
             n == IF EsColombia(t) /\ TieneDetalle(t) THEN 4 ELSE 1
             m == IF Len(todas) < n THEN Len(todas) ELSE n
  <2>1. Plan[t][u] = SubSeq(todas, 1, m)
    BY <1>3 DEF Plan, VariantesAProbar
  <2>2. /\ todas \in Seq(Texto) /\ todas # <<>>
        /\ ~Plan[t].revisa => \A k \in DOMAIN todas : ~todas[k].otraVia
    BY DeSugerencia
  <2>3. Len(todas) \in Nat \ {0}
    BY <2>2
  <2> HIDE DEF todas
  <2>4. m \in Nat \ {0} /\ m <= Len(todas)
    BY <2>3
  <2> HIDE DEF m
  <2>5. /\ SubSeq(todas, 1, m) \in Seq(Texto) /\ Len(SubSeq(todas, 1, m)) = m
        /\ \A i \in 1 .. m : SubSeq(todas, 1, m)[i] = todas[i] /\ i \in DOMAIN todas
    BY <2>2, <2>3, <2>4
  <2>6. DOMAIN SubSeq(todas, 1, m) = 1 .. m /\ SubSeq(todas, 1, m) # <<>>
    BY <2>4, <2>5
  <2> QED BY <2>1, <2>2, <2>5, <2>6
<1> QED BY <1>2, <1>3 DEF Usos

\* Where a request goes after a variant.
LEMMA TrasHallazgo ==
  ASSUME NEW c \in Activa, c.fase \in {"mirar", "preguntar"}, EnCamino(c), NEW r \in Hallazgos,
         Head(c.quedan).otraVia => r # "via"
  PROVE  /\ ConHallazgo(c, r) \in Consulta
         /\ ConHallazgo(c, r).fase \in {"libre", "mirar", "guardar"}
         /\ EnCamino(ConHallazgo(c, r)) /\ EnSuVia(ConHallazgo(c, r))
<1> DEFINE d == [c EXCEPT !.desvio = Head(c.quedan).otraVia, !.quedan = Tail(c.quedan), !.hallado = r]
           merged == IF d.deReserva THEN d.hallado ELSE Descartar(d)
           reserva == Plan[d.texto].reserva
           guarda == [d EXCEPT !.fase = "guardar", !.quedan = <<>>, !.deReserva = FALSE,
                               !.hallado = merged]
           otra == [d EXCEPT !.fase = "mirar"]
           ultima == [d EXCEPT !.fase = "mirar", !.quedan = <<reserva>>, !.deReserva = TRUE,
                               !.hallado = "nada"]
           suya == [guarda EXCEPT !.hallado = d.hallado]
<1>1. c.quedan \in Seq(Texto) /\ c.quedan # <<>>
  BY DEF Activa, EnCamino
<1>2. /\ Head(c.quedan) \in Texto /\ Tail(c.quedan) \in Seq(Texto) /\ Head(c.quedan) = c.quedan[1]
      /\ 1 \in DOMAIN c.quedan /\ \A i \in DOMAIN Tail(c.quedan) : i + 1 \in DOMAIN c.quedan /\ Tail(c.quedan)[i] = c.quedan[i + 1]
  <2>1. Len(c.quedan) \in Nat \ {0} /\ DOMAIN c.quedan = 1 .. Len(c.quedan)
    BY <1>1
  <2>2. /\ Head(c.quedan) = c.quedan[1] /\ Tail(c.quedan) \in Seq(Texto) /\ Len(Tail(c.quedan)) = Len(c.quedan) - 1
        /\ DOMAIN Tail(c.quedan) = 1 .. Len(Tail(c.quedan))
        /\ \A i \in 1 .. Len(c.quedan) - 1 : Tail(c.quedan)[i] = c.quedan[i + 1]
    BY <1>1, <2>1
  <2> QED BY <1>1, <2>1, <2>2
<1>3. Head(c.quedan).otraVia \in BOOLEAN
  BY <1>2 DEF Texto
<1>4. /\ d \in Activa /\ d.fase = c.fase /\ d.uso = c.uso /\ d.texto = c.texto /\ d.deReserva = c.deReserva
      /\ d.quedan = Tail(c.quedan) /\ d.hallado = r /\ d.desvio = Head(c.quedan).otraVia
  BY <1>2, <1>3 DEF Activa
<1>5. /\ d.uso = "sugerir" /\ (d.deReserva \/ ~Plan[d.texto].revisa)
         => ~d.desvio /\ \A i \in DOMAIN d.quedan : ~d.quedan[i].otraVia
  BY <1>2, <1>4 DEF EnCamino
<1>6. d.desvio => d.hallado # "via"
  BY <1>4
<1>7. d.texto \in Textos /\ d.uso \in Usos /\ d.hallado \in Hallazgos /\ d.desvio \in BOOLEAN /\ d.deReserva \in BOOLEAN
  BY <1>4 DEF Activa
<1> HIDE DEF d
<1>8. reserva = SinTexto \/ (reserva \in Texto /\ ~reserva.otraVia)
  BY <1>7, DeReserva DEF Plan
<1>9. merged \in Hallazgos /\ (d.uso = "sugerir" /\ merged # "nada" => ~d.desvio)
  <2>1. Descartar(d) = IF Plan[d.texto].revisa /\ d.hallado = "otra" THEN "nada" ELSE d.hallado
    BY DEF Descartar
  <2> QED BY <1>5, <1>6, <1>7, <2>1 DEF Hallazgos
<1> HIDE DEF merged, reserva
<1>10. otra \in Activa /\ (d.quedan # <<>> => EnCamino(otra)) /\ EnSuVia(otra) /\ otra.fase = "mirar"
  BY <1>4, <1>5 DEF Activa, EnCamino, EnSuVia, Fases
<1>11. /\ guarda \in Activa /\ EnCamino(guarda) /\ EnSuVia(guarda) /\ guarda.fase = "guardar"
  <2>0. <<>> \in Seq(Texto)
    OBVIOUS
  <2>1. /\ guarda.fase = "guardar" /\ guarda.uso = d.uso /\ guarda.hallado = merged /\ guarda.desvio = d.desvio
        /\ guarda \in Activa
    BY <1>4, <1>9, <2>0 DEF Activa, Fases
  <2> QED BY <1>9, <2>1 DEF EnCamino, EnSuVia
<1>12. d.uso = "ubicar" => suya \in Activa /\ EnCamino(suya) /\ EnSuVia(suya) /\ suya.fase = "guardar"
  <2>0. guarda.fase = "guardar" /\ guarda.uso = d.uso
    BY <1>4 DEF Activa
  <2> HIDE DEF guarda
  <2>1. suya \in Activa /\ suya.fase = "guardar" /\ suya.uso = d.uso
    BY <1>7, <1>11, <2>0 DEF Activa
  <2> QED BY <2>1 DEF EnCamino, EnSuVia
<1>13. reserva # SinTexto => ultima \in Activa /\ EnCamino(ultima) /\ EnSuVia(ultima) /\ ultima.fase = "mirar"
  <2> SUFFICES ASSUME reserva # SinTexto PROVE ultima \in Activa /\ EnCamino(ultima) /\ EnSuVia(ultima) /\ ultima.fase = "mirar"
    OBVIOUS
  <2>1. <<reserva>> \in Seq(Texto) /\ <<reserva>> # <<>> /\ \A i \in DOMAIN <<reserva>> : ~<<reserva>>[i].otraVia
    BY <1>8
  <2>2. ultima \in Activa /\ ultima.fase = "mirar" /\ ultima.quedan = <<reserva>>
    BY <1>4, <2>1 DEF Activa, Fases, Hallazgos
  <2> QED BY <2>1, <2>2 DEF EnCamino, EnSuVia
<1>14. ConHallazgo(c, r) = Sigue(d)
  BY DEF ConHallazgo, d
<1>15. \/ Sigue(d) = otra /\ d.quedan # <<>>
       \/ Sigue(d) = Libre
       \/ Sigue(d) = suya /\ d.uso = "ubicar"
       \/ Sigue(d) = ultima /\ reserva # SinTexto
       \/ Sigue(d) = guarda
  BY DEF Sigue, merged, reserva
<1> HIDE DEF otra, guarda, ultima, suya
<1> QED BY <1>10, <1>11, <1>12, <1>13, <1>14, <1>15, LasConsultas

LEMMA Medidas ==
  ASSUME TypeOKGeo, Cupos, NEW u \in Usos
  PROVE  /\ IsFiniteSet(Claves(u)) /\ Cardinality(Claves(u)) \in Nat
         /\ MaximoCache[u] \in Nat \ {0} /\ solapes[u] \in Nat
         /\ \A S \in SUBSET Claves(u) : IsFiniteSet(S) /\ Cardinality(S) \in Nat /\ Cardinality(S) <= Cardinality(Claves(u))
<1>1. IsFiniteSet(Claves(u))
  BY DEF Cupos
<1> QED BY <1>1, Parte DEF TypeOKGeo

LEMMA FueraDePlaza ==
  ASSUME TypeOKGeo, NEW h \in Hilos, NEW c \in Consulta, Pone(h, c), c.fase \notin {"desalojar", "poner"},
         consulta[h].fase \notin {"desalojar", "poner"}, NEW u
  PROVE  /\ \A g \in Hilos : EnPlaza(g, u)' <=> EnPlaza(g, u)
         /\ Elegidas(u)' = Elegidas(u)
<1>1. /\ consulta'[h] = c /\ \A g \in Hilos : g # h => consulta'[g] = consulta[g]
  BY TrasPonerConsulta
<1> QED BY <1>1 DEF EnPlaza, Elegidas

LEMMA CuposSinTocar ==
  ASSUME Cupos, UNCHANGED <<cache, solapes>>,
         \A u \in Usos : /\ \A g \in Hilos : EnPlaza(g, u)' => EnPlaza(g, u)
                         /\ Elegidas(u)' = Elegidas(u)
  PROVE  Cupos'
<1>1. \A u \in Usos : Claves(u)' = Claves(u)
  BY DEF Claves
<1> QED BY <1>1 DEF Cupos

\* The caches lose entries, if anything, and no thread goes on in its loop.
LEMMA VueltasSiguen ==
  ASSUME TypeOKGeo, Cupos, Vueltas, solapes' = solapes,
         \A u \in Usos :
           /\ Claves(u)' \subseteq Claves(u)
           /\ \A t \in Textos : recorridos'[u][t] \subseteq YaRecorren(u)'
           /\ YaRecorren(u)' \subseteq YaRecorren(u)
           /\ \A g \in YaRecorren(u)' : consulta'[g].vieja = consulta[g].vieja
  PROVE  Vueltas'
<1> SUFFICES ASSUME NEW u \in Usos, NEW g \in YaRecorren(u)'
             PROVE  Cardinality(Claves(u)' \ {consulta'[g].vieja}) < MaximoCache[u] + solapes[u]
  BY DEF Vueltas
<1>1. consulta'[g].vieja = consulta[g].vieja /\ g \in YaRecorren(u)
  OBVIOUS
<1> DEFINE S == Claves(u) \ {consulta[g].vieja}
<1>2. S \in SUBSET Claves(u)
  OBVIOUS
<1>3. IsFiniteSet(S) /\ Cardinality(S) \in Nat
  BY <1>2, Medidas
<1>4. Claves(u)' \ {consulta'[g].vieja} \in SUBSET S
  BY <1>1
<1>5. /\ Cardinality(Claves(u)' \ {consulta'[g].vieja}) \in Nat
      /\ Cardinality(Claves(u)' \ {consulta'[g].vieja}) <= Cardinality(S)
  BY <1>3, <1>4, Parte
<1>6. Cardinality(S) < MaximoCache[u] + solapes[u] /\ MaximoCache[u] + solapes[u] \in Nat
  BY <1>1, Medidas DEF Vueltas
<1> QED BY <1>3, <1>5, <1>6

\* A step of a thread that is not in the loop and has met no entry after it.
LEMMA VueltasAjenas ==
  ASSUME TypeOKGeo, Cupos, Vueltas, NEW h \in Hilos, NEW c \in Consulta, Pone(h, c),
         consulta[h].fase # "recorrer",
         c.fase # "recorrer" \/ c.vieja = SinTexto,
         \A u \in Usos : /\ Claves(u)' \subseteq Claves(u)
                         /\ \A t \in Textos : recorridos'[u][t] \subseteq recorridos[u][t],
         solapes' = solapes
  PROVE  Vueltas'
<1>1. consulta'[h] = c /\ \A g \in Hilos : g # h => consulta'[g] = consulta[g]
  BY TrasPonerConsulta
<1>2. \A u \in Usos : YaRecorren(u)' = YaRecorren(u) /\ h \notin YaRecorren(u)
  BY <1>1 DEF YaRecorren
<1>3. \A u \in Usos : \A g \in YaRecorren(u)' : consulta'[g].vieja = consulta[g].vieja
  BY <1>1, <1>2 DEF YaRecorren
<1>4. \A u \in Usos : \A t \in Textos : recorridos'[u][t] \subseteq YaRecorren(u)'
  BY <1>2 DEF Vueltas
<1> QED BY <1>2, <1>3, <1>4, VueltasSiguen

\* A thread leaves its loop.
LEMMA VueltasTerminan ==
  ASSUME TypeOKGeo, Cupos, Vueltas, NEW h \in Hilos, NEW c \in Consulta, NEW u \in Usos,
         DejaElRecorrido(h, c, u), consulta[h].fase = "recorrer", consulta[h].uso = u,
         c.fase # "recorrer", UNCHANGED <<cache, solapes>>
  PROVE  Vueltas' /\ recorridos' \in [Usos -> [Textos -> SUBSET Hilos]]
<1>1. /\ consulta'[h] = c /\ \A g \in Hilos : g # h => consulta'[g] = consulta[g]
      /\ Pone(h, c)
  BY TrasPonerConsulta DEF DejaElRecorrido
<1>2. \A v \in Usos : YaRecorren(v)' = YaRecorren(v) \ {h} /\ (v # u => h \notin YaRecorren(v))
  BY <1>1 DEF YaRecorren
<1>3. \A v \in Usos : \A g \in YaRecorren(v)' : consulta'[g].vieja = consulta[g].vieja
  BY <1>1, <1>2 DEF YaRecorren
<1>4. /\ recorridos' \in [Usos -> [Textos -> SUBSET Hilos]]
      /\ \A v \in Usos : \A t \in Textos :
           recorridos'[v][t] = IF v = u THEN recorridos[v][t] \ {h} ELSE recorridos[v][t]
  BY DEF DejaElRecorrido, TypeOKGeo
<1>5. \A v \in Usos : \A t \in Textos : recorridos'[v][t] \subseteq YaRecorren(v)'
  <2> SUFFICES ASSUME NEW v \in Usos, NEW t \in Textos
               PROVE  recorridos'[v][t] \subseteq YaRecorren(v)'
    OBVIOUS
  <2>1. recorridos[v][t] \subseteq YaRecorren(v)
    BY DEF Vueltas
  <2>2. YaRecorren(v)' = YaRecorren(v) \ {h} /\ (v # u => h \notin YaRecorren(v))
    BY <1>2
  <2>3. CASE v = u
    <3>1. recorridos'[v][t] = recorridos[v][t] \ {h}
      BY <1>4, <2>3
    <3> QED BY <2>1, <2>2, <3>1
  <2>4. CASE v # u
    <3>1. recorridos'[v][t] = recorridos[v][t]
      BY <1>4, <2>4
    <3> QED BY <2>1, <2>2, <2>4, <3>1
  <2> QED BY <2>3, <2>4
<1>6. \A v \in Usos : Claves(v)' \subseteq Claves(v)
  BY DEF Claves
<1> QED BY <1>2, <1>3, <1>4, <1>5, <1>6, VueltasSiguen

\* A step of one thread on its own.
LEMMA PasoPropio ==
  ASSUME IInvGeo, NEW h \in Hilos, NEW c \in Consulta, Pone(h, c), EnCamino(c), EnSuVia(c),
         c.fase = "preguntar" => reloj >= retiradaHasta,
         recorridos' \in [Usos -> [Textos -> SUBSET Hilos]],
         UNCHANGED <<reloj, cache, retiradaHasta, insistencias, solapes>>
  PROVE  /\ TypeOKGeo' /\ Retiradas'
         /\ \A g \in Hilos : (EnCamino(consulta[g]) /\ EnSuVia(consulta[g]))'
<1>1. /\ consulta' \in [Hilos -> Consulta] /\ consulta'[h] = c
      /\ \A g \in Hilos : g # h => consulta'[g] = consulta[g]
  BY TrasPonerConsulta DEF IInvGeo
<1>2. TypeOKGeo'
  BY <1>1 DEF IInvGeo, TypeOKGeo
<1>3. \A g \in Hilos : EnCamino(consulta'[g]) /\ EnSuVia(consulta'[g])
  BY <1>1 DEF IInvGeo
<1>4. \A g \in Hilos : (EnCamino(consulta[g]) /\ EnSuVia(consulta[g]))'
  BY <1>3 DEF EnCamino, EnSuVia
<1>5. Retiradas'
  <2>1. reloj \in Nat /\ retiradaHasta \in Nat /\ \A g \in Hilos : insistencias[g] \in Nat
    BY DEF IInvGeo, TypeOKGeo
  <2> QED BY <1>1, <2>1 DEF IInvGeo, Retiradas
<1> QED BY <1>2, <1>4, <1>5

LEMMA PasoPedir ==
  ASSUME IInvGeo, NEW h \in Hilos, NEW u \in Usos, NEW t \in Textos, Pedir(h, u, t)
  PROVE  IInvGeo'
<1> DEFINE conocida == [Peticion(u, t, <<>>) EXCEPT !.fase = "guardar", !.hallado = "via"]
           nueva == Peticion(u, t, Plan[t][u])
           c == IF EsConocido(t) THEN conocida ELSE nueva
<1>1. /\ consulta[h].fase = "libre" /\ Pone(h, c)
      /\ cache' = [cache EXCEPT ![u][t] = {}]
      /\ recorridos' = [recorridos EXCEPT ![u][t] = {}]
      /\ UNCHANGED <<reloj, retiradaHasta, insistencias, solapes>>
  BY LasConsultas DEF Pedir, Quita
<1>2. nueva \in Activa /\ nueva.fase = "mirar" /\ EnCamino(nueva) /\ EnSuVia(nueva)
  <2>1. /\ nueva \in Activa /\ nueva.fase = "mirar" /\ nueva.quedan = Plan[t][u] /\ nueva.uso = u
        /\ nueva.texto = t /\ nueva.deReserva = FALSE
    BY DelPlan DEF Peticion, Activa, Fases, Hallazgos
  <2> QED BY <2>1, DelPlan DEF EnCamino, EnSuVia
<1>3. conocida \in Activa /\ conocida.fase = "guardar" /\ EnCamino(conocida) /\ EnSuVia(conocida)
  <2>1. <<>> \in Seq(Texto)
    OBVIOUS
  <2>2. conocida \in Activa /\ conocida.fase = "guardar" /\ conocida.desvio = FALSE
    BY <2>1 DEF Peticion, Activa, Fases, Hallazgos
  <2> QED BY <2>2 DEF EnCamino, EnSuVia
<1>4. c \in Consulta /\ c.fase \in {"mirar", "guardar"} /\ EnCamino(c) /\ EnSuVia(c)
  BY <1>2, <1>3, LasConsultas
<1> HIDE DEF c
<1>5. TypeOKGeo
  BY DEF IInvGeo
<1>6. /\ consulta' \in [Hilos -> Consulta] /\ consulta'[h] = c
      /\ \A g \in Hilos : g # h => consulta'[g] = consulta[g]
  BY <1>1, <1>4, <1>5, TrasPonerConsulta
<1>7. /\ cache' \in [Usos -> [Textos -> SUBSET Entrada]]
      /\ \A v \in Usos : Claves(v)' \subseteq Claves(v)
      /\ recorridos' \in [Usos -> [Textos -> SUBSET Hilos]]
      /\ \A v \in Usos : \A s \in Textos : recorridos'[v][s] \subseteq recorridos[v][s]
  BY <1>1, <1>5 DEF TypeOKGeo, Claves
<1>8. TypeOKGeo'
  BY <1>1, <1>5, <1>6, <1>7 DEF TypeOKGeo
<1>9. \A g \in Hilos : (EnCamino(consulta[g]) /\ EnSuVia(consulta[g]))'
  <2>1. \A g \in Hilos : EnCamino(consulta'[g]) /\ EnSuVia(consulta'[g])
    BY <1>4, <1>6 DEF IInvGeo
  <2> QED BY <2>1 DEF EnCamino, EnSuVia
<1>10. Retiradas'
  BY <1>1, <1>4, <1>6 DEF IInvGeo, Retiradas
<1>11. Cupos'
  <2> SUFFICES ASSUME NEW v \in Usos
               PROVE  /\ IsFiniteSet(Claves(v)')
                      /\ Cardinality(Claves(v)') <= MaximoCache[v] + solapes'[v]
                      /\ (\E g \in Hilos : EnPlaza(g, v)')
                         => Cardinality(Claves(v)' \ Elegidas(v)') < MaximoCache[v] + solapes'[v]
    BY DEF Cupos
  <2>1. (\A g \in Hilos : EnPlaza(g, v)' <=> EnPlaza(g, v)) /\ Elegidas(v)' = Elegidas(v)
    BY <1>1, <1>4, <1>5, FueraDePlaza
  <2>2. /\ IsFiniteSet(Claves(v)) /\ IsFiniteSet(Claves(v)') /\ IsFiniteSet(Claves(v) \ Elegidas(v))
        /\ Cardinality(Claves(v)') \in Nat /\ Cardinality(Claves(v)) \in Nat /\ Cardinality(Claves(v)') <= Cardinality(Claves(v))
    BY <1>5, <1>7, Medidas, Parte DEF IInvGeo
  <2>3. /\ Cardinality(Claves(v)' \ Elegidas(v)) <= Cardinality(Claves(v) \ Elegidas(v))
        /\ Cardinality(Claves(v)' \ Elegidas(v)) \in Nat /\ Cardinality(Claves(v) \ Elegidas(v)) \in Nat
    <3>1. Claves(v)' \ Elegidas(v) \in SUBSET (Claves(v) \ Elegidas(v))
      BY <1>7
    <3> QED BY <2>2, <3>1, Parte
  <2>4. MaximoCache[v] + solapes[v] \in Nat /\ solapes'[v] = solapes[v]
    BY <1>1, <1>5 DEF TypeOKGeo
  <2>5. /\ Cardinality(Claves(v)) <= MaximoCache[v] + solapes[v]
        /\ (\E g \in Hilos : EnPlaza(g, v)) => Cardinality(Claves(v) \ Elegidas(v)) < MaximoCache[v] + solapes[v]
    BY DEF IInvGeo, Cupos
  <2> QED BY <2>1, <2>2, <2>3, <2>4, <2>5
<1>12. Vueltas'
  BY <1>1, <1>4, <1>5, <1>7, VueltasAjenas DEF IInvGeo
<1> QED BY <1>8, <1>9, <1>10, <1>11, <1>12 DEF IInvGeo

\* A step out of the question that Nominatim has answered.
LEMMA PasoHallazgo ==
  ASSUME IInvGeo, NEW h \in Hilos, NEW c \in Consulta, Pone(h, c), EnCamino(c), EnSuVia(c),
         consulta[h].fase = "preguntar", c.fase \in {"libre", "mirar", "guardar"},
         insistencias' = [insistencias EXCEPT ![h] = IF reloj < retiradaHasta THEN @ + 1 ELSE 0],
         retiradaHasta' \in {retiradaHasta, reloj + Retirada},
         UNCHANGED <<reloj, cache, recorridos, solapes>>
  PROVE  IInvGeo'
<1>1. TypeOKGeo
  BY DEF IInvGeo
<1>2. /\ consulta' \in [Hilos -> Consulta] /\ consulta'[h] = c
      /\ \A g \in Hilos : g # h => consulta'[g] = consulta[g]
  BY <1>1, TrasPonerConsulta
<1>3. reloj \in Nat /\ retiradaHasta \in Nat /\ Retirada \in Nat /\ \A g \in Hilos : insistencias[g] \in Nat
  BY <1>1 DEF TypeOKGeo
<1>4. /\ insistencias' \in [Hilos -> Nat]
      /\ insistencias'[h] = IF reloj < retiradaHasta THEN insistencias[h] + 1 ELSE 0
      /\ \A g \in Hilos : g # h => insistencias'[g] = insistencias[g]
  BY <1>1, <1>3 DEF TypeOKGeo
<1>5. TypeOKGeo'
  BY <1>1, <1>2, <1>3, <1>4 DEF TypeOKGeo
<1>6. \A g \in Hilos : (EnCamino(consulta[g]) /\ EnSuVia(consulta[g]))'
  <2>1. \A g \in Hilos : EnCamino(consulta'[g]) /\ EnSuVia(consulta'[g])
    BY <1>2 DEF IInvGeo
  <2> QED BY <2>1 DEF EnCamino, EnSuVia
<1>7. Retiradas'
  <2>1. retiradaHasta <= retiradaHasta' /\ retiradaHasta' <= reloj' + Retirada
    BY <1>3 DEF IInvGeo, Retiradas
  <2>2. insistencias[h] = 0
    BY DEF IInvGeo, Retiradas
  <2>3. ASSUME NEW g \in Hilos
        PROVE  /\ insistencias'[g] <= 1
               /\ consulta'[g].fase = "preguntar" => insistencias'[g] = 0
               /\ insistencias'[g] > 0 => reloj' < retiradaHasta'
    <3>1. CASE g = h
      BY <1>2, <1>3, <1>4, <2>1, <2>2, <3>1
    <3>2. CASE g # h
      <4>1. /\ insistencias[g] <= 1
            /\ consulta[g].fase = "preguntar" => insistencias[g] = 0
            /\ insistencias[g] > 0 => reloj < retiradaHasta
        BY DEF IInvGeo, Retiradas
      <4> QED BY <1>2, <1>3, <1>4, <2>1, <3>2, <4>1
    <3> QED BY <3>1, <3>2
  <2> QED BY <2>1, <2>3 DEF Retiradas
<1>8. Cupos'
  BY <1>1, FueraDePlaza, CuposSinTocar DEF IInvGeo
<1>9. Vueltas'
  <2>1. \A u \in Usos : Claves(u)' = Claves(u)
    BY DEF Claves
  <2> QED BY <1>1, <2>1, VueltasAjenas DEF IInvGeo
<1> QED BY <1>5, <1>6, <1>7, <1>8, <1>9 DEF IInvGeo

LEMMA PasoMirar ==
  ASSUME IInvGeo, NEW h \in Hilos, Mirar(h)
  PROVE  IInvGeo'
<1> DEFINE c == consulta[h]
           d == IF reloj < retiradaHasta THEN ConHallazgo(c, "nada") ELSE [c EXCEPT !.fase = "preguntar"]
<1>1. /\ c.fase = "mirar" /\ Pone(h, d)
      /\ UNCHANGED <<reloj, cache, retiradaHasta, insistencias, recorridos, solapes>>
  BY DEF Mirar
<1>2. c \in Activa /\ EnCamino(c) /\ EnSuVia(c) /\ TypeOKGeo
  BY <1>1, LasConsultas DEF IInvGeo, TypeOKGeo
<1> HIDE DEF c
<1>3. /\ ConHallazgo(c, "nada") \in Consulta /\ ConHallazgo(c, "nada").fase \in {"libre", "mirar", "guardar"}
      /\ EnCamino(ConHallazgo(c, "nada")) /\ EnSuVia(ConHallazgo(c, "nada"))
  BY <1>1, <1>2, TrasHallazgo DEF Hallazgos
<1>4. /\ [c EXCEPT !.fase = "preguntar"] \in Activa /\ [c EXCEPT !.fase = "preguntar"].fase = "preguntar"
      /\ EnCamino([c EXCEPT !.fase = "preguntar"]) /\ EnSuVia([c EXCEPT !.fase = "preguntar"])
  BY <1>1, <1>2 DEF Activa, EnCamino, EnSuVia, Fases
<1>5. /\ d \in Consulta /\ EnCamino(d) /\ EnSuVia(d) /\ d.fase \notin {"recorrer", "desalojar", "poner"}
      /\ d.fase = "preguntar" => ~(reloj < retiradaHasta)
  <2>1. CASE reloj < retiradaHasta
    BY <1>3, <2>1
  <2>2. CASE ~(reloj < retiradaHasta)
    BY <1>4, <2>2, LasConsultas
  <2> QED BY <2>1, <2>2
<1> HIDE DEF d
<1>6. d.fase = "preguntar" => reloj >= retiradaHasta
  BY <1>2, <1>5 DEF TypeOKGeo
<1>7. /\ TypeOKGeo' /\ Retiradas'
      /\ \A g \in Hilos : (EnCamino(consulta[g]) /\ EnSuVia(consulta[g]))'
  BY <1>1, <1>2, <1>5, <1>6, PasoPropio DEF TypeOKGeo
<1>8. Cupos' /\ Vueltas'
  <2>1. consulta[h].fase \notin {"recorrer", "desalojar", "poner"}
    BY <1>1 DEF c
  <2>2. \A u \in Usos : Claves(u)' = Claves(u)
    BY <1>1 DEF Claves
  <2>3. Cupos'
    BY <1>1, <1>2, <1>5, <2>1, FueraDePlaza, CuposSinTocar DEF IInvGeo
  <2>4. Vueltas'
    BY <1>1, <1>2, <1>5, <2>1, <2>2, VueltasAjenas DEF IInvGeo
  <2> QED BY <2>3, <2>4
<1> QED BY <1>7, <1>8 DEF IInvGeo

LEMMA PasoResponde ==
  ASSUME IInvGeo, NEW h \in Hilos, NEW r \in Hallazgos, Responde(h, r)
  PROVE  IInvGeo'
<1>1. /\ consulta[h].fase = "preguntar" /\ Head(consulta[h].quedan).otraVia => r # "via"
      /\ consulta[h].fase = "preguntar"
      /\ Pone(h, ConHallazgo(consulta[h], r))
      /\ insistencias' = [insistencias EXCEPT ![h] = IF reloj < retiradaHasta THEN @ + 1 ELSE 0]
      /\ UNCHANGED <<reloj, cache, retiradaHasta, recorridos, solapes>>
  BY DEF Responde
<1>2. consulta[h] \in Activa /\ EnCamino(consulta[h])
  BY <1>1, LasConsultas DEF IInvGeo, TypeOKGeo
<1> DEFINE d == ConHallazgo(consulta[h], r)
<1>3. d \in Consulta /\ d.fase \in {"libre", "mirar", "guardar"} /\ EnCamino(d) /\ EnSuVia(d)
  BY <1>1, <1>2, TrasHallazgo
<1>4. Pone(h, d)
  BY <1>1
<1> HIDE DEF d
<1> QED BY <1>1, <1>3, <1>4, PasoHallazgo

LEMMA PasoFalla ==
  ASSUME IInvGeo, NEW h \in Hilos, NEW demasiadas \in BOOLEAN, Falla(h, demasiadas)
  PROVE  IInvGeo'
<1> DEFINE c == consulta[h]
           d == IF c.uso = "sugerir" THEN ConHallazgo(c, "nada") ELSE Libre
<1>1. /\ c.fase = "preguntar"
      /\ retiradaHasta' \in {retiradaHasta, reloj + Retirada}
      /\ Pone(h, d)
      /\ insistencias' = [insistencias EXCEPT ![h] = IF reloj < retiradaHasta THEN @ + 1 ELSE 0]
      /\ UNCHANGED <<reloj, cache, recorridos, solapes>>
  BY DEF Falla
<1>2. c \in Activa /\ EnCamino(c)
  BY <1>1, LasConsultas DEF IInvGeo, TypeOKGeo
<1>3. d \in Consulta /\ d.fase \in {"libre", "mirar", "guardar"} /\ EnCamino(d) /\ EnSuVia(d)
  <2> HIDE DEF c
  <2> QED BY <1>1, <1>2, TrasHallazgo, LasConsultas DEF Hallazgos
<1> HIDE DEF d
<1> QED BY <1>1, <1>3, PasoHallazgo

LEMMA PasoGuardar ==
  ASSUME IInvGeo, NEW h \in Hilos, Guardar(h)
  PROVE  IInvGeo'
<1> DEFINE c == consulta[h]
           u == c.uso
           n == Cardinality(Claves(u))
           llena == [c EXCEPT !.fase = "empezar"]
           hueco == [c EXCEPT !.fase = "poner"]
           d == IF n >= MaximoCache[u] THEN llena ELSE hueco
<1>1. /\ c.fase = "guardar" /\ Pone(h, d)
      /\ UNCHANGED <<reloj, cache, retiradaHasta, insistencias, recorridos, solapes>>
  BY Zenon DEF Guardar
<1>2. c \in Activa /\ EnCamino(c) /\ EnSuVia(c) /\ TypeOKGeo /\ Cupos
  BY <1>1, LasConsultas DEF IInvGeo, TypeOKGeo
<1>3. u \in Usos
  BY <1>2 DEF Activa
<1>4. n \in Nat /\ MaximoCache[u] \in Nat /\ solapes[u] \in Nat
  BY <1>2, <1>3, Medidas
<1> HIDE DEF n
<1>5. llena \in Activa /\ llena.fase = "empezar" /\ llena.uso = u /\ EnCamino(llena) /\ EnSuVia(llena)
  <2> HIDE DEF c
  <2>1. /\ llena \in Activa /\ llena.fase = "empezar" /\ llena.uso = u /\ llena.hallado = c.hallado
        /\ llena.desvio = c.desvio
    BY <1>2, <1>4 DEF Activa, Fases, u
  <2> QED BY <1>1, <1>2, <2>1 DEF EnCamino, EnSuVia, u
<1>6. hueco \in Activa /\ hueco.fase = "poner" /\ hueco.uso = u /\ EnCamino(hueco) /\ EnSuVia(hueco)
  <2> HIDE DEF c
  <2>1. /\ hueco \in Activa /\ hueco.fase = "poner" /\ hueco.uso = u /\ hueco.hallado = c.hallado
        /\ hueco.desvio = c.desvio
    BY <1>2, <1>4 DEF Activa, Fases, u
  <2> QED BY <1>1, <1>2, <2>1 DEF EnCamino, EnSuVia, u
<1> HIDE DEF llena, hueco
<1>7. /\ d \in Consulta /\ EnCamino(d) /\ EnSuVia(d) /\ d.uso = u
      /\ (d.fase = "empezar" \/ (d.fase = "poner" /\ n < MaximoCache[u]))
  BY <1>4, <1>5, <1>6, LasConsultas
<1> HIDE DEF d
<1>8. /\ TypeOKGeo' /\ Retiradas'
      /\ \A g \in Hilos : (EnCamino(consulta[g]) /\ EnSuVia(consulta[g]))'
  BY <1>1, <1>2, <1>7, PasoPropio DEF TypeOKGeo
<1>9. consulta'[h] = d /\ \A g \in Hilos : g # h => consulta'[g] = consulta[g]
  BY <1>1, <1>2, <1>7, TrasPonerConsulta
<1>10. Cupos'
  <2> SUFFICES ASSUME NEW v \in Usos
               PROVE  /\ IsFiniteSet(Claves(v)')
                      /\ Cardinality(Claves(v)') <= MaximoCache[v] + solapes'[v]
                      /\ (\E g \in Hilos : EnPlaza(g, v)')
                         => Cardinality(Claves(v)' \ Elegidas(v)') < MaximoCache[v] + solapes'[v]
    BY DEF Cupos
  <2>1. Claves(v)' = Claves(v) /\ Elegidas(v)' = Elegidas(v) /\ solapes' = solapes
    BY <1>1, <1>7, <1>9 DEF Claves, Elegidas
  <2>2. /\ IsFiniteSet(Claves(v)) /\ Cardinality(Claves(v)) <= MaximoCache[v] + solapes[v]
        /\ (\E g \in Hilos : EnPlaza(g, v)) => Cardinality(Claves(v) \ Elegidas(v)) < MaximoCache[v] + solapes[v]
    BY <1>2 DEF Cupos
  <2>3. (\E g \in Hilos : EnPlaza(g, v)') => (\E g \in Hilos : EnPlaza(g, v)) \/ (v = u /\ n < MaximoCache[u])
    BY <1>7, <1>9 DEF EnPlaza
  <2>4. v = u /\ n < MaximoCache[u] => Cardinality(Claves(v) \ Elegidas(v)) < MaximoCache[v] + solapes[v]
    <3> SUFFICES ASSUME v = u, n < MaximoCache[u]
                 PROVE  Cardinality(Claves(v) \ Elegidas(v)) < MaximoCache[v] + solapes[v]
      OBVIOUS
    <3>1. Cardinality(Claves(v) \ Elegidas(v)) \in Nat /\ Cardinality(Claves(v) \ Elegidas(v)) <= Cardinality(Claves(v))
      BY <1>2, Medidas
    <3>2. Cardinality(Claves(v)) = n
      BY SMTT(30) DEF n
    <3> QED BY <1>4, <3>1, <3>2
  <2> QED BY <2>1, <2>2, <2>3, <2>4
<1>11. Vueltas'
  <2>1. \A v \in Usos : Claves(v)' = Claves(v)
    BY <1>1 DEF Claves
  <2> QED BY <1>1, <1>2, <1>7, <2>1, VueltasAjenas DEF IInvGeo
<1> QED BY <1>8, <1>10, <1>11 DEF IInvGeo

LEMMA PasoEmpezarRecorrido ==
  ASSUME IInvGeo, NEW h \in Hilos, EmpezarRecorrido(h)
  PROVE  IInvGeo'
<1>0. PICK c, n : c = consulta[h] /\ n = Cardinality(Claves(c.uso))
  OBVIOUS
<1> DEFINE d == [c EXCEPT !.fase = "recorrer", !.vieja = SinTexto, !.largo = n, !.faltan = n]
<1>1. /\ c.fase = "empezar" /\ Pone(h, d)
      /\ UNCHANGED <<reloj, cache, retiradaHasta, insistencias, recorridos, solapes>>
  BY <1>0 DEF EmpezarRecorrido
<1>2. c \in Activa /\ EnCamino(c) /\ EnSuVia(c) /\ TypeOKGeo /\ Cupos
  BY <1>0, <1>1, LasConsultas DEF IInvGeo, TypeOKGeo
<1>3. n \in Nat
  <2>1. c.uso \in Usos
    BY <1>2 DEF Activa
  <2> QED BY <1>0, <1>2, <2>1, Medidas
<1>4. /\ d \in Activa /\ d.fase = "recorrer" /\ d.vieja = SinTexto /\ d.uso = c.uso
      /\ d.hallado = c.hallado /\ d.desvio = c.desvio
  BY <1>2, <1>3 DEF Activa, Fases
<1>5. d \in Consulta /\ EnCamino(d) /\ EnSuVia(d)
  BY <1>1, <1>2, <1>4, LasConsultas DEF EnCamino, EnSuVia
<1> HIDE DEF d
<1>6. /\ TypeOKGeo' /\ Retiradas'
      /\ \A g \in Hilos : (EnCamino(consulta[g]) /\ EnSuVia(consulta[g]))'
  BY <1>1, <1>2, <1>4, <1>5, PasoPropio DEF TypeOKGeo
<1>7. Cupos'
  BY <1>0, <1>1, <1>2, <1>4, <1>5, FueraDePlaza, CuposSinTocar
<1>8. Vueltas'
  <2>1. \A u \in Usos : Claves(u)' = Claves(u)
    BY <1>1 DEF Claves
  <2> QED BY <1>0, <1>1, <1>2, <1>4, <1>5, <2>1, VueltasAjenas DEF IInvGeo
<1> QED BY <1>6, <1>7, <1>8 DEF IInvGeo

LEMMA PasoRecorrer ==
  ASSUME IInvGeo, NEW h \in Hilos, Recorrer(h)
  PROVE  IInvGeo'
<1>0. PICK c, u : c = consulta[h] /\ u = c.uso
  OBVIOUS
<1> DEFINE resto == [c EXCEPT !.faltan = @ - 1]
           nueva(t, e) == [resto EXCEPT !.vieja = t, !.antes = e.desde]
<1>1. /\ c.fase = "recorrer" /\ c.faltan > 0
      /\ UNCHANGED <<reloj, cache, retiradaHasta, insistencias, solapes>>
  BY <1>0 DEF Recorrer
<1>2a. PICK t \in PorVer(h, u) : \E e \in cache[u][t] :
         /\ Pone(h, IF c.vieja = SinTexto \/ e.desde < c.antes THEN nueva(t, e) ELSE resto)
         /\ recorridos' = [recorridos EXCEPT ![u][t] = @ \cup {h}]
  BY <1>0 DEF Recorrer
<1>2. PICK e \in cache[u][t] :
        /\ Pone(h, IF c.vieja = SinTexto \/ e.desde < c.antes THEN nueva(t, e) ELSE resto)
        /\ recorridos' = [recorridos EXCEPT ![u][t] = @ \cup {h}]
  BY <1>2a
<1> DEFINE d == IF c.vieja = SinTexto \/ e.desde < c.antes THEN nueva(t, e) ELSE resto
<1>3. /\ c \in Activa /\ EnCamino(c) /\ EnSuVia(c) /\ TypeOKGeo /\ Cupos /\ Vueltas
      /\ t \in Textos /\ t \in Claves(u)
  BY <1>0, <1>1, LasConsultas DEF IInvGeo, TypeOKGeo, PorVer, Claves
<1>4. u \in Usos /\ c.faltan \in Nat
  BY <1>0, <1>3 DEF Activa
<1>5. c.faltan - 1 \in Nat
  BY <1>1, <1>4
<1>6. e.desde \in Nat
  <2>1. cache[u][t] \in SUBSET Entrada
    BY <1>3, <1>4 DEF TypeOKGeo
  <2> QED BY <2>1 DEF Entrada
<1>7. t # SinTexto
  <2>1. t \in Texto
    BY <1>3, ConstantesGeo
  <2> QED BY <2>1, NingunTextoVacio
<1>8. /\ resto \in Activa /\ resto.fase = c.fase /\ resto.uso = u /\ resto.hallado = c.hallado
      /\ resto.desvio = c.desvio /\ resto.vieja = c.vieja
  BY <1>0, <1>3, <1>5 DEF Activa
<1> HIDE DEF resto
<1>9. /\ nueva(t, e) \in Activa /\ nueva(t, e).fase = c.fase /\ nueva(t, e).uso = u
      /\ nueva(t, e).hallado = c.hallado /\ nueva(t, e).desvio = c.desvio /\ nueva(t, e).vieja = t
  BY <1>3, <1>6, <1>8 DEF Activa
<1> HIDE DEF nueva
<1>10. /\ d \in Activa /\ d.fase = "recorrer" /\ d.uso = u /\ d.hallado = c.hallado /\ d.desvio = c.desvio
       /\ d.vieja # SinTexto
       /\ d.vieja = t \/ (d.vieja = c.vieja /\ c.vieja # SinTexto)
  BY <1>1, <1>7, <1>8, <1>9
<1>11. Pone(h, d)
  BY <1>2
<1> HIDE DEF d
<1>12. d \in Consulta /\ EnCamino(d) /\ EnSuVia(d)
  BY <1>0, <1>1, <1>3, <1>10, LasConsultas DEF EnCamino, EnSuVia
<1>13. recorridos' \in [Usos -> [Textos -> SUBSET Hilos]]
  BY <1>2, <1>3, <1>4 DEF TypeOKGeo
<1>14. /\ TypeOKGeo' /\ Retiradas'
       /\ \A g \in Hilos : (EnCamino(consulta[g]) /\ EnSuVia(consulta[g]))'
  BY <1>1, <1>10, <1>11, <1>12, <1>13, PasoPropio
<1>15. Cupos'
  BY <1>0, <1>1, <1>3, <1>10, <1>11, <1>12, FueraDePlaza, CuposSinTocar
<1>16. Vueltas'
  <2>1. consulta'[h] = d /\ \A g \in Hilos : g # h => consulta'[g] = consulta[g]
    BY <1>3, <1>11, <1>12, TrasPonerConsulta
  <2>2. \A v \in Usos : /\ Claves(v)' = Claves(v) /\ solapes' = solapes
                        /\ YaRecorren(v)' = IF v = u THEN YaRecorren(v) \cup {h} ELSE YaRecorren(v)
    BY <1>0, <1>1, <1>10, <2>1 DEF Claves, YaRecorren
  <2>3. \A v \in Usos : \A s \in Textos : recorridos'[v][s] \subseteq YaRecorren(v)'
    <3>1. \A v \in Usos : \A s \in Textos :
            recorridos'[v][s] \subseteq (IF v = u THEN recorridos[v][s] \cup {h} ELSE recorridos[v][s])
      BY <1>2, <1>3, <1>4 DEF TypeOKGeo
    <3> QED BY <1>3, <2>2, <3>1 DEF Vueltas
  <2>4. ASSUME NEW v \in Usos, NEW g \in YaRecorren(v)'
        PROVE  Cardinality(Claves(v) \ {consulta'[g].vieja}) < MaximoCache[v] + solapes[v]
    <3>1. CASE g \in YaRecorren(v) /\ consulta'[g].vieja = consulta[g].vieja
      BY <1>3, <3>1 DEF Vueltas
    <3>2. CASE g = h /\ v = u /\ consulta'[g].vieja = t
      <4>0. /\ IsFiniteSet(Claves(u)) /\ Cardinality(Claves(u)) \in Nat
            /\ MaximoCache[u] \in Nat /\ solapes[u] \in Nat
        BY <1>3, <1>4, Medidas
      <4>1. /\ IsFiniteSet(Claves(u)) /\ Cardinality(Claves(u)) \in Nat
            /\ Cardinality(Claves(u)) <= MaximoCache[u] + solapes[u] /\ MaximoCache[u] + solapes[u] \in Nat
        <5>1. MaximoCache[u] + solapes[u] \in Nat
          BY <4>0
        <5>2. Cardinality(Claves(u)) <= MaximoCache[u] + solapes[u]
          BY <1>3, <1>4 DEF Cupos
        <5> QED BY <4>0, <5>1, <5>2
      <4>2. Cardinality(Claves(u) \ {t}) = Cardinality(Claves(u)) - 1
        BY <1>3, <4>1, FS_RemoveElement
      <4> QED BY <3>2, <4>1, <4>2
    <3>3. g # h => g \in YaRecorren(v) /\ consulta'[g].vieja = consulta[g].vieja
      BY <2>1, <2>2 DEF YaRecorren
    <3>4. g = h => v = u /\ consulta'[g].vieja = d.vieja /\ consulta[h].vieja = c.vieja
      BY <1>0, <1>10, <2>1 DEF YaRecorren
    <3>5. c.vieja # SinTexto => h \in YaRecorren(u)
      BY <1>0, <1>1 DEF YaRecorren
    <3> QED BY <1>10, <3>1, <3>2, <3>3, <3>4, <3>5
  <2> QED BY <2>2, <2>3, <2>4 DEF Vueltas
<1> QED BY <1>14, <1>15, <1>16 DEF IInvGeo

LEMMA PasoRecorridoRoto ==
  ASSUME IInvGeo, NEW h \in Hilos, RecorridoRoto(h)
  PROVE  IInvGeo'
<1>0. PICK c, u : c = consulta[h] /\ u = c.uso
  OBVIOUS
<1>1. /\ c.fase = "recorrer" /\ DejaElRecorrido(h, Libre, u) /\ Pone(h, Libre)
      /\ UNCHANGED <<reloj, cache, retiradaHasta, insistencias, solapes>>
  BY <1>0 DEF RecorridoRoto, DejaElRecorrido
<1>2. TypeOKGeo /\ Cupos /\ Vueltas /\ u \in Usos
  <2>1. c \in Activa /\ TypeOKGeo /\ Cupos /\ Vueltas
    BY <1>0, <1>1, LasConsultas DEF IInvGeo, TypeOKGeo
  <2> QED BY <1>0, <2>1 DEF Activa
<1>3. Vueltas' /\ recorridos' \in [Usos -> [Textos -> SUBSET Hilos]]
  BY <1>0, <1>1, <1>2, LasConsultas, VueltasTerminan
<1>4. /\ TypeOKGeo' /\ Retiradas'
      /\ \A g \in Hilos : (EnCamino(consulta[g]) /\ EnSuVia(consulta[g]))'
  BY <1>1, <1>3, PasoPropio, LasConsultas
<1>5. Cupos'
  BY <1>0, <1>1, <1>2, FueraDePlaza, CuposSinTocar, LasConsultas
<1> QED BY <1>3, <1>4, <1>5 DEF IInvGeo

LEMMA PasoTerminarRecorrido ==
  ASSUME IInvGeo, NEW h \in Hilos, TerminarRecorrido(h)
  PROVE  IInvGeo'
<1>0. PICK c, u : c = consulta[h] /\ u = c.uso
  OBVIOUS
<1> DEFINE d == [c EXCEPT !.fase = IF c.vieja = SinTexto THEN "poner" ELSE "desalojar",
                          !.antes = 0, !.largo = 0, !.faltan = 0]
<1>1. /\ c.fase = "recorrer" /\ PorVer(h, u) = {}
      /\ DejaElRecorrido(h, d, u) /\ Pone(h, d)
      /\ UNCHANGED <<reloj, cache, retiradaHasta, insistencias, solapes>>
  BY <1>0 DEF TerminarRecorrido, DejaElRecorrido
<1>2. c \in Activa /\ EnCamino(c) /\ EnSuVia(c) /\ TypeOKGeo /\ Cupos /\ Vueltas
  BY <1>0, <1>1, LasConsultas DEF IInvGeo, TypeOKGeo
<1>3. u \in Usos /\ c.vieja \in Textos \cup {SinTexto}
  BY <1>0, <1>2 DEF Activa
<1>4. /\ d \in Activa /\ d.uso = u /\ d.vieja = c.vieja /\ d.hallado = c.hallado /\ d.desvio = c.desvio
      /\ d.fase = IF c.vieja = SinTexto THEN "poner" ELSE "desalojar"
  BY <1>0, <1>2 DEF Activa, Fases
<1>5. d \in Consulta /\ EnCamino(d) /\ EnSuVia(d)
  BY <1>0, <1>1, <1>2, <1>4, LasConsultas DEF EnCamino, EnSuVia
<1> HIDE DEF d
<1>6. Vueltas' /\ recorridos' \in [Usos -> [Textos -> SUBSET Hilos]]
  BY <1>0, <1>1, <1>2, <1>3, <1>4, <1>5, VueltasTerminan
<1>7. /\ TypeOKGeo' /\ Retiradas'
      /\ \A g \in Hilos : (EnCamino(consulta[g]) /\ EnSuVia(consulta[g]))'
  BY <1>1, <1>4, <1>5, <1>6, PasoPropio
<1>8. consulta'[h] = d /\ \A g \in Hilos : g # h => consulta'[g] = consulta[g]
  BY <1>1, <1>2, <1>5, TrasPonerConsulta
<1>9. Cupos'
  <2> SUFFICES ASSUME NEW v \in Usos
               PROVE  /\ IsFiniteSet(Claves(v)')
                      /\ Cardinality(Claves(v)') <= MaximoCache[v] + solapes'[v]
                      /\ (\E g \in Hilos : EnPlaza(g, v)')
                         => Cardinality(Claves(v)' \ Elegidas(v)') < MaximoCache[v] + solapes'[v]
    BY DEF Cupos
  <2>1. Claves(v)' = Claves(v) /\ solapes' = solapes
    BY <1>1 DEF Claves
  <2>2. /\ IsFiniteSet(Claves(v)) /\ Cardinality(Claves(v)) <= MaximoCache[v] + solapes[v]
        /\ (\E g \in Hilos : EnPlaza(g, v)) => Cardinality(Claves(v) \ Elegidas(v)) < MaximoCache[v] + solapes[v]
        /\ MaximoCache[v] + solapes[v] \in Nat \ {0}
    <3>1. MaximoCache[v] \in Nat \ {0} /\ solapes[v] \in Nat
      BY <1>2, Medidas
    <3>2. MaximoCache[v] + solapes[v] \in Nat \ {0}
      BY <3>1
    <3> QED BY <1>2, <3>2 DEF Cupos
  <2>3. CASE v # u
    <3>1. Elegidas(v)' = Elegidas(v)
      BY <1>0, <1>1, <1>4, <1>8, <2>3 DEF Elegidas
    <3>2. \A g \in Hilos : EnPlaza(g, v)' <=> EnPlaza(g, v)
      BY <1>0, <1>1, <1>4, <1>8, <2>3 DEF EnPlaza
    <3> QED BY <2>1, <2>2, <3>1, <3>2
  <2>4. CASE v = u /\ c.vieja = SinTexto
    <3>1. h \notin YaRecorren(u)
      BY <1>0, <2>4 DEF YaRecorren
    <3>2. Claves(u) = {}
      BY <1>1, <1>2, <1>3, <3>1 DEF Vueltas, PorVer, Claves
    <3>3. Claves(v) \ Elegidas(v)' = {}
      BY <2>4, <3>2
    <3>4. Cardinality(Claves(v) \ Elegidas(v)') = 0
      BY <3>3, FS_EmptySet
    <3> QED BY <2>1, <2>2, <3>4
  <2>5. CASE v = u /\ c.vieja # SinTexto
    <3>1. c.vieja \in Elegidas(u)'
      BY <1>3, <1>4, <1>8, <2>5 DEF Elegidas
    <3>2. h \in YaRecorren(u)
      BY <1>0, <1>1, <2>5 DEF YaRecorren
    <3>3. Cardinality(Claves(u) \ {c.vieja}) < MaximoCache[u] + solapes[u]
      BY <1>0, <1>2, <1>3, <3>2 DEF Vueltas
    <3>4. Claves(u) \ {c.vieja} \in SUBSET Claves(u)
      OBVIOUS
    <3>5. IsFiniteSet(Claves(u) \ {c.vieja}) /\ Cardinality(Claves(u) \ {c.vieja}) \in Nat
      BY <1>2, <1>3, <3>4, Medidas
    <3>6. Claves(u) \ Elegidas(u)' \in SUBSET (Claves(u) \ {c.vieja})
      BY <3>1
    <3>7. /\ Cardinality(Claves(u) \ Elegidas(u)') \in Nat
          /\ Cardinality(Claves(u) \ Elegidas(u)') <= Cardinality(Claves(u) \ {c.vieja})
      BY <3>5, <3>6, Parte
    <3>8. Cardinality(Claves(u) \ Elegidas(u)') < MaximoCache[u] + solapes[u]
      BY <2>2, <2>5, <3>3, <3>5, <3>7
    <3> QED BY <2>1, <2>2, <2>5, <3>8
  <2> QED BY <2>3, <2>4, <2>5
<1> QED BY <1>6, <1>7, <1>9 DEF IInvGeo

LEMMA PasoDesalojar ==
  ASSUME IInvGeo, NEW h \in Hilos, Desalojar(h)
  PROVE  IInvGeo'
<1>0. PICK c, u : c = consulta[h] /\ u = c.uso
  OBVIOUS
<1> DEFINE d == [c EXCEPT !.fase = "poner", !.vieja = SinTexto]
<1>1. /\ c.fase = "desalojar" /\ Pone(h, d)
      /\ cache' = [cache EXCEPT ![u][c.vieja] = {}]
      /\ recorridos' = [recorridos EXCEPT ![u][c.vieja] = {}]
      /\ UNCHANGED <<reloj, retiradaHasta, insistencias, solapes>>
  BY <1>0 DEF Desalojar, Quita
<1>2. c \in Activa /\ EnCamino(c) /\ EnSuVia(c) /\ TypeOKGeo /\ Cupos /\ u \in Usos
  <2>1. c \in Activa /\ EnCamino(c) /\ EnSuVia(c) /\ TypeOKGeo /\ Cupos
    BY <1>0, <1>1, LasConsultas DEF IInvGeo, TypeOKGeo
  <2> QED BY <1>0, <2>1 DEF Activa
<1>3. /\ d \in Activa /\ d.fase = "poner" /\ d.uso = u /\ d.hallado = c.hallado /\ d.desvio = c.desvio
  BY <1>0, <1>2 DEF Activa, Fases
<1>4. d \in Consulta /\ EnCamino(d) /\ EnSuVia(d)
  BY <1>0, <1>1, <1>2, <1>3, LasConsultas DEF EnCamino, EnSuVia
<1> HIDE DEF d
<1>5. /\ consulta' \in [Hilos -> Consulta] /\ consulta'[h] = d
      /\ \A g \in Hilos : g # h => consulta'[g] = consulta[g]
  BY <1>1, <1>2, <1>4, TrasPonerConsulta
<1>6. /\ cache' \in [Usos -> [Textos -> SUBSET Entrada]]
      /\ Claves(u)' = Claves(u) \ {c.vieja}
      /\ \A v \in Usos : v # u => Claves(v)' = Claves(v)
      /\ recorridos' \in [Usos -> [Textos -> SUBSET Hilos]]
      /\ \A v \in Usos : \A s \in Textos : recorridos'[v][s] \subseteq recorridos[v][s]
  BY <1>1, <1>2 DEF TypeOKGeo, Claves
<1>7. TypeOKGeo'
  BY <1>1, <1>2, <1>5, <1>6 DEF TypeOKGeo
<1>8. \A g \in Hilos : (EnCamino(consulta[g]) /\ EnSuVia(consulta[g]))'
  <2>1. \A g \in Hilos : EnCamino(consulta'[g]) /\ EnSuVia(consulta'[g])
    BY <1>4, <1>5 DEF IInvGeo
  <2> QED BY <2>1 DEF EnCamino, EnSuVia
<1>9. Retiradas'
  BY <1>1, <1>3, <1>5 DEF IInvGeo, Retiradas
<1>10. Cupos'
  <2> SUFFICES ASSUME NEW v \in Usos
               PROVE  /\ IsFiniteSet(Claves(v)')
                      /\ Cardinality(Claves(v)') <= MaximoCache[v] + solapes'[v]
                      /\ (\E g \in Hilos : EnPlaza(g, v)')
                         => Cardinality(Claves(v)' \ Elegidas(v)') < MaximoCache[v] + solapes'[v]
    BY DEF Cupos
  <2>1. (\E g \in Hilos : EnPlaza(g, v)') => (\E g \in Hilos : EnPlaza(g, v))
    BY <1>0, <1>1, <1>3, <1>5 DEF EnPlaza
  <2>2. v # u => Elegidas(v)' = Elegidas(v)
    BY <1>0, <1>1, <1>3, <1>5 DEF Elegidas
  <2>3. Elegidas(u) \subseteq Elegidas(u)' \cup {c.vieja}
    BY <1>0, <1>1, <1>3, <1>5 DEF Elegidas
  <2>4. Elegidas(u)' \subseteq Elegidas(u) /\ Elegidas(u) \subseteq Textos
    BY <1>0, <1>1, <1>3, <1>5 DEF Elegidas
  <2>5. c.vieja \in Claves(u) => c.vieja \in Elegidas(u)
    BY <1>0, <1>1 DEF Elegidas, Claves
  <2>6. Claves(v)' \ Elegidas(v)' = Claves(v) \ Elegidas(v)
    BY <1>6, <2>2, <2>3, <2>4, <2>5
  <2>7. Claves(v)' \in SUBSET Claves(v) /\ solapes' = solapes
    BY <1>1, <1>6
  <2>8. /\ IsFiniteSet(Claves(v)) /\ Cardinality(Claves(v)) <= MaximoCache[v] + solapes[v]
        /\ (\E g \in Hilos : EnPlaza(g, v)) => Cardinality(Claves(v) \ Elegidas(v)) < MaximoCache[v] + solapes[v]
    BY <1>2 DEF Cupos
  <2>9. /\ IsFiniteSet(Claves(v)') /\ Cardinality(Claves(v)') \in Nat /\ Cardinality(Claves(v)) \in Nat
        /\ Cardinality(Claves(v)') <= Cardinality(Claves(v)) /\ MaximoCache[v] + solapes[v] \in Nat
    BY <1>2, <2>7, <2>8, Parte, Medidas
  <2>10. Cardinality(Claves(v)') <= MaximoCache[v] + solapes'[v]
    BY <2>7, <2>8, <2>9
  <2>11. (\E g \in Hilos : EnPlaza(g, v)') => Cardinality(Claves(v)' \ Elegidas(v)') < MaximoCache[v] + solapes'[v]
    <3>1. Cardinality(Claves(v)' \ Elegidas(v)') = Cardinality(Claves(v) \ Elegidas(v))
      BY <2>6
    <3> QED BY <2>1, <2>7, <2>8, <3>1
  <2> QED BY <2>9, <2>10, <2>11
<1>11. Vueltas'
  <2>1. \A v \in Usos : Claves(v)' \subseteq Claves(v)
    BY <1>6
  <2> QED BY <1>0, <1>1, <1>2, <1>3, <1>4, <1>6, <2>1, VueltasAjenas DEF IInvGeo
<1> QED BY <1>7, <1>8, <1>9, <1>10, <1>11 DEF IInvGeo

\* A new key may put other entries behind the loops under way, and no other loop.
LEMMA LugarNuevo ==
  ASSUME TypeOKGeo, NEW u \in Usos, NEW t \in Textos, NuevoLugar(u, t)
  PROVE  /\ recorridos' \in [Usos -> [Textos -> SUBSET Hilos]]
         /\ \A v \in Usos : \A s \in Textos :
              recorridos'[v][s] \subseteq recorridos[v][s] \cup YaRecorren(v)
<1>1. recorridos \in [Usos -> [Textos -> SUBSET Hilos]]
  BY DEF TypeOKGeo
<1>2. CASE UNCHANGED recorridos
  BY <1>1, <1>2
<1>3. ASSUME NEW saltan \in [Claves(u) \cup {t} -> SUBSET YaRecorren(u)],
             recorridos' = [recorridos EXCEPT ![u] =
               [s \in Textos |-> IF s \in DOMAIN saltan THEN @[s] \cup saltan[s] ELSE @[s]]]
      PROVE  /\ recorridos' \in [Usos -> [Textos -> SUBSET Hilos]]
             /\ \A v \in Usos : \A s \in Textos :
                  recorridos'[v][s] \subseteq recorridos[v][s] \cup YaRecorren(v)
  <2> DEFINE con(s) == IF s \in DOMAIN saltan THEN recorridos[u][s] \cup saltan[s] ELSE recorridos[u][s]
  <2>1. YaRecorren(u) \subseteq Hilos
    BY DEF YaRecorren
  <2>2. \A s \in Textos : con(s) \in SUBSET Hilos /\ con(s) \subseteq recorridos[u][s] \cup YaRecorren(u)
    BY <1>1, <2>1
  <2>3. recorridos' = [recorridos EXCEPT ![u] = [s \in Textos |-> con(s)]]
    BY <1>3
  <2> HIDE DEF con
  <2> QED BY <1>1, <2>2, <2>3
<1> QED BY <1>2, <1>3 DEF NuevoLugar

LEMMA PasoPoner ==
  ASSUME IInvGeo, NEW h \in Hilos, Poner(h)
  PROVE  IInvGeo'
<1>0. PICK c, u : c = consulta[h] /\ u = c.uso
  OBVIOUS
<1> DEFINE e == [desde |-> reloj, vacia |-> c.hallado = "nada"]
           Acompanado == \E g \in Hilos \ {h} : Guardando(g, u)
<1>1. /\ c.fase = "poner" /\ Pone(h, Libre)
      /\ cache' = [cache EXCEPT ![u][c.texto] = {e}]
      /\ solapes' = IF Acompanado THEN [solapes EXCEPT ![u] = @ + 1] ELSE solapes
      /\ NuevoLugar(u, c.texto)
      /\ UNCHANGED <<reloj, retiradaHasta, insistencias>>
  BY <1>0 DEF Poner
<1>2. c \in Activa /\ TypeOKGeo /\ Cupos /\ u \in Usos /\ c.texto \in Textos
  <2>1. c \in Activa /\ TypeOKGeo /\ Cupos
    BY <1>0, <1>1, LasConsultas DEF IInvGeo, TypeOKGeo
  <2> QED BY <1>0, <2>1 DEF Activa
<1>3. /\ consulta' \in [Hilos -> Consulta] /\ consulta'[h] = Libre /\ Libre.fase = "libre"
      /\ \A g \in Hilos : g # h => consulta'[g] = consulta[g]
  BY <1>1, <1>2, TrasPonerConsulta, LasConsultas
<1>4. /\ cache' \in [Usos -> [Textos -> SUBSET Entrada]]
      /\ Claves(u)' = Claves(u) \cup {c.texto}
      /\ \A v \in Usos : v # u => Claves(v)' = Claves(v)
  <2>1. e \in Entrada
    BY <1>2 DEF Entrada, TypeOKGeo
  <2> HIDE DEF e
  <2> QED BY <1>1, <1>2, <2>1 DEF TypeOKGeo, Claves
<1>5. /\ solapes' \in [Usos -> Nat]
      /\ solapes'[u] = IF Acompanado THEN solapes[u] + 1 ELSE solapes[u]
      /\ \A v \in Usos : v # u => solapes'[v] = solapes[v]
  BY <1>1, <1>2 DEF TypeOKGeo
<1>5a. /\ recorridos' \in [Usos -> [Textos -> SUBSET Hilos]]
       /\ \A v \in Usos : \A s \in Textos :
            recorridos'[v][s] \subseteq recorridos[v][s] \cup YaRecorren(v)
  BY <1>1, <1>2, LugarNuevo
<1>6. TypeOKGeo'
  BY <1>1, <1>2, <1>3, <1>4, <1>5, <1>5a DEF TypeOKGeo
<1>7. \A g \in Hilos : (EnCamino(consulta[g]) /\ EnSuVia(consulta[g]))'
  <2>1. \A g \in Hilos : EnCamino(consulta'[g]) /\ EnSuVia(consulta'[g])
    BY <1>3, LasConsultas DEF IInvGeo
  <2> QED BY <2>1 DEF EnCamino, EnSuVia
<1>8. Retiradas'
  BY <1>1, <1>3 DEF IInvGeo, Retiradas
<1>9. Cupos'
  <2> SUFFICES ASSUME NEW v \in Usos
               PROVE  /\ IsFiniteSet(Claves(v)')
                      /\ Cardinality(Claves(v)') <= MaximoCache[v] + solapes'[v]
                      /\ (\E g \in Hilos : EnPlaza(g, v)')
                         => Cardinality(Claves(v)' \ Elegidas(v)') < MaximoCache[v] + solapes'[v]
    BY DEF Cupos
  <2>1. Elegidas(v)' = Elegidas(v)
    BY <1>0, <1>1, <1>3 DEF Elegidas
  <2>2. \A g \in Hilos : EnPlaza(g, v)' <=> g # h /\ EnPlaza(g, v)
    BY <1>3 DEF EnPlaza
  <2>3. /\ IsFiniteSet(Claves(v)) /\ Cardinality(Claves(v)) <= MaximoCache[v] + solapes[v]
        /\ (\E g \in Hilos : EnPlaza(g, v)) => Cardinality(Claves(v) \ Elegidas(v)) < MaximoCache[v] + solapes[v]
    BY <1>2 DEF Cupos
  <2>4. CASE v # u
    BY <1>4, <1>5, <2>1, <2>2, <2>3, <2>4
  <2>5. CASE v = u
    <3> DEFINE P == Claves(u) \ Elegidas(u)
    <3>1. EnPlaza(h, u)
      BY <1>0, <1>1 DEF EnPlaza
    <3>2. /\ IsFiniteSet(P) /\ Cardinality(P) \in Nat /\ MaximoCache[u] + solapes[u] \in Nat /\ Cardinality(P) < MaximoCache[u] + solapes[u]
          /\ Cardinality(Claves(u)) \in Nat /\ MaximoCache[u] \in Nat /\ solapes[u] \in Nat
      BY <1>2, <2>3, <2>5, <3>1, Medidas
    <3>3. IsFiniteSet(Claves(u)') /\ Cardinality(Claves(u)') \in Nat /\ Cardinality(Claves(u)') <= Cardinality(Claves(u)) + 1
      <4> DEFINE S == Claves(u)
      <4>1. IsFiniteSet(S)
        BY <2>3, <2>5
      <4>2. Claves(u)' = S \cup {c.texto}
        BY <1>4
      <4> HIDE DEF S
      <4>3. IsFiniteSet(S \cup {c.texto}) /\ Cardinality(S \cup {c.texto}) \in Nat /\ Cardinality(S \cup {c.texto}) <= Cardinality(S) + 1
        BY <4>1, ConUnoMas
      <4>4. IsFiniteSet(Claves(u)') /\ Cardinality(Claves(u)') \in Nat /\ Cardinality(Claves(u)') <= Cardinality(S) + 1
        BY <4>2, <4>3
      <4> QED BY <4>4 DEF S
    <3>4. CASE Acompanado
      <4>1. solapes'[u] = solapes[u] + 1
        BY <1>5, <3>4
      <4>2. IsFiniteSet(P \cup {c.texto}) /\ Cardinality(P \cup {c.texto}) \in Nat /\ Cardinality(P \cup {c.texto}) <= Cardinality(P) + 1
        BY <3>2, ConUnoMas
      <4>3. Claves(u)' \ Elegidas(u) \in SUBSET (P \cup {c.texto})
        BY <1>4
      <4>4. Cardinality(Claves(u)' \ Elegidas(u)) \in Nat /\ Cardinality(Claves(u)' \ Elegidas(u)) <= Cardinality(P \cup {c.texto})
        BY <4>2, <4>3, Parte
      <4>5. Cardinality(Claves(u)' \ Elegidas(u)) < MaximoCache[u] + solapes'[u]
        BY <3>2, <4>1, <4>2, <4>4
      <4>6. Cardinality(Claves(u)') <= MaximoCache[u] + solapes'[u]
        BY <2>3, <2>5, <3>2, <3>3, <4>1
      <4> QED BY <2>1, <2>5, <3>3, <4>5, <4>6
    <3>5. CASE ~Acompanado
      <4>1. \A g \in Hilos : ~EnPlaza(g, u)'
        <5> SUFFICES ASSUME NEW g \in Hilos, EnPlaza(g, u)' PROVE FALSE
          OBVIOUS
        <5>1. g \in Hilos \ {h} /\ EnPlaza(g, u)
          BY <2>2, <2>5
        <5>2. Guardando(g, u)
          BY <5>1 DEF Guardando, EnPlaza
        <5> QED BY <3>5, <5>1, <5>2
      <4>2. Elegidas(u) = {}
        <5> SUFFICES ASSUME NEW t \in Elegidas(u) PROVE FALSE
          OBVIOUS
        <5>1. PICK g \in Hilos : consulta[g].fase = "desalojar" /\ consulta[g].uso = u
          BY DEF Elegidas
        <5>2. g # h
          BY <1>0, <1>1, <5>1
        <5>3. Guardando(g, u)
          BY <5>1 DEF Guardando
        <5> QED BY <3>5, <5>2, <5>3
      <4>3. P = Claves(u)
        BY <4>2
      <4>4. Cardinality(Claves(u)') <= MaximoCache[u] + solapes[u]
        <5>1. Cardinality(P) = Cardinality(Claves(u))
          BY <4>3
        <5> HIDE DEF P
        <5> QED BY <3>2, <3>3, <5>1
      <4>5. solapes'[u] = solapes[u]
        BY <1>5, <3>5
      <4> QED BY <2>5, <3>3, <4>1, <4>4, <4>5
    <3> QED BY <3>4, <3>5
  <2> QED BY <2>4, <2>5
<1>11. Vueltas'
  <2>1. \A v \in Usos : YaRecorren(v)' = YaRecorren(v) /\ h \notin YaRecorren(v)
    BY <1>0, <1>1, <1>3 DEF YaRecorren
  <2>2. \A v \in Usos : \A s \in Textos : recorridos'[v][s] \subseteq YaRecorren(v)'
    BY <1>5a, <2>1 DEF IInvGeo, Vueltas
  <2>3. ASSUME NEW v \in Usos, NEW g \in YaRecorren(v)
        PROVE  Cardinality(Claves(v)' \ {consulta'[g].vieja}) < MaximoCache[v] + solapes'[v]
    <3>1. /\ consulta'[g].vieja = consulta[g].vieja
          /\ Cardinality(Claves(v) \ {consulta[g].vieja}) < MaximoCache[v] + solapes[v]
      BY <1>3, <2>1 DEF IInvGeo, Vueltas, YaRecorren
    <3>2. CASE v # u
      BY <1>4, <1>5, <3>1, <3>2
    <3>3. CASE v = u
      <4> DEFINE S == Claves(u) \ {consulta[g].vieja}
      <4>1. Guardando(g, u) /\ g \in Hilos \ {h}
        BY <2>1, <3>3 DEF YaRecorren, Guardando
      <4>2. solapes'[u] = solapes[u] + 1
        BY <1>5, <4>1
      <4>3. S \in SUBSET Claves(u)
        OBVIOUS
      <4>4. /\ IsFiniteSet(S) /\ Cardinality(S) \in Nat
            /\ MaximoCache[u] \in Nat /\ solapes[u] \in Nat
        BY <1>2, <4>3, Medidas
      <4>5. /\ IsFiniteSet(S \cup {c.texto}) /\ Cardinality(S \cup {c.texto}) \in Nat
            /\ Cardinality(S \cup {c.texto}) <= Cardinality(S) + 1
        BY <4>4, ConUnoMas
      <4>6. Claves(u)' \ {consulta'[g].vieja} \in SUBSET (S \cup {c.texto})
        BY <1>4, <3>1
      <4>7. /\ Cardinality(Claves(u)' \ {consulta'[g].vieja}) \in Nat
            /\ Cardinality(Claves(u)' \ {consulta'[g].vieja}) <= Cardinality(S \cup {c.texto})
        BY <4>5, <4>6, Parte
      <4>8. Cardinality(S) < MaximoCache[u] + solapes[u]
        BY <3>1, <3>3
      <4> HIDE DEF S
      <4> QED BY <3>3, <4>2, <4>4, <4>5, <4>7, <4>8
    <3> QED BY <3>2, <3>3
  <2> QED BY <2>1, <2>2, <2>3 DEF Vueltas
<1> QED BY <1>6, <1>7, <1>8, <1>9, <1>11 DEF IInvGeo

LEMMA PasoTiempoGeo ==
  ASSUME IInvGeo, TiempoGeo
  PROVE  IInvGeo'
<1>1. /\ reloj' = reloj + 1 /\ UNCHANGED <<cache, retiradaHasta, consulta, recorridos, solapes>>
      /\ insistencias' = [h \in Hilos |-> IF reloj' < retiradaHasta THEN insistencias[h] ELSE 0]
  BY DEF TiempoGeo, PasaElTiempo
<1>2. TypeOKGeo'
  BY <1>1 DEF IInvGeo, TypeOKGeo
<1>3. \A g \in Hilos : (EnCamino(consulta[g]) /\ EnSuVia(consulta[g]))'
  BY <1>1 DEF IInvGeo, EnCamino, EnSuVia
<1>4. Retiradas'
  <2>1. reloj \in Nat /\ retiradaHasta \in Nat /\ Retirada \in Nat /\ \A g \in Hilos : insistencias[g] \in Nat
    BY DEF IInvGeo, TypeOKGeo
  <2> QED BY <1>1, <2>1 DEF IInvGeo, Retiradas
<1>5. Cupos'
  BY <1>1, CuposSinTocar DEF IInvGeo, EnPlaza, Elegidas
<1>6. Vueltas'
  <2>1. \A u \in Usos : Claves(u)' = Claves(u) /\ YaRecorren(u)' = YaRecorren(u)
    BY <1>1 DEF Claves, YaRecorren
  <2> QED BY <1>1, <2>1 DEF IInvGeo, Vueltas
<1> QED BY <1>2, <1>3, <1>4, <1>5, <1>6 DEF IInvGeo

LEMMA InicioGeo == InitGeo => IInvGeo
<1> SUFFICES ASSUME InitGeo PROVE IInvGeo
  OBVIOUS
<1>1. TypeOKGeo
  BY LasConsultas DEF InitGeo, TypeOKGeo
<1>2. \A h \in Hilos : EnCamino(consulta[h]) /\ EnSuVia(consulta[h])
  BY LasConsultas DEF InitGeo
<1>3. Retiradas
  BY LasConsultas DEF InitGeo, Retiradas
<1>4. Cupos
  <2>1. \A u \in Usos : Claves(u) = {} /\ \A h \in Hilos : ~EnPlaza(h, u)
    BY LasConsultas DEF InitGeo, Claves, EnPlaza
  <2>2. \A u \in Usos : IsFiniteSet(Claves(u)) /\ Cardinality(Claves(u)) = 0
    BY <2>1, FS_EmptySet
  <2>3. \A u \in Usos : 0 <= MaximoCache[u] + solapes[u]
    BY <1>1 DEF TypeOKGeo
  <2> QED BY <2>1, <2>2, <2>3 DEF Cupos
<1>5. Vueltas
  <2>1. \A u \in Usos : YaRecorren(u) = {} /\ \A t \in Textos : recorridos[u][t] = {}
    BY LasConsultas DEF InitGeo, YaRecorren
  <2> QED BY <2>1 DEF Vueltas
<1> QED BY <1>1, <1>2, <1>3, <1>4, <1>5 DEF IInvGeo

LEMMA PasoGeo == IInvGeo /\ [NextGeo]_varsGeo => IInvGeo'
<1> SUFFICES ASSUME IInvGeo, [NextGeo]_varsGeo PROVE IInvGeo'
  OBVIOUS
<1>1. CASE UNCHANGED varsGeo
  <2>1. UNCHANGED <<reloj, cache, retiradaHasta, consulta, insistencias, recorridos, solapes>>
    BY <1>1 DEF varsGeo
  <2>2. TypeOKGeo' /\ Retiradas'
    BY <2>1 DEF IInvGeo, TypeOKGeo, Retiradas
  <2>3. \A g \in Hilos : (EnCamino(consulta[g]) /\ EnSuVia(consulta[g]))'
    BY <2>1 DEF IInvGeo, EnCamino, EnSuVia
  <2>4. Cupos'
    BY <2>1, CuposSinTocar DEF IInvGeo, EnPlaza, Elegidas
  <2>5. Vueltas'
    <3>1. \A u \in Usos : Claves(u)' = Claves(u) /\ YaRecorren(u)' = YaRecorren(u)
      BY <2>1 DEF Claves, YaRecorren
    <3> QED BY <2>1, <3>1 DEF IInvGeo, Vueltas
  <2> QED BY <2>2, <2>3, <2>4, <2>5 DEF IInvGeo
<1>2. CASE TiempoGeo
  BY <1>2, PasoTiempoGeo
<1>3. ASSUME NEW h \in Hilos, Atiende(h) PROVE IInvGeo'
  BY <1>3, PasoMirar, PasoResponde, PasoFalla, PasoGuardar, PasoEmpezarRecorrido, PasoRecorrer,
     PasoRecorridoRoto, PasoTerminarRecorrido, PasoDesalojar, PasoPoner DEF Atiende
<1>4. ASSUME NEW h \in Hilos, NEW u \in Usos, NEW t \in Textos, Pedir(h, u, t) PROVE IInvGeo'
  BY <1>4, PasoPedir
<1> QED BY <1>1, <1>2, <1>3, <1>4 DEF NextGeo

LEMMA SiempreGeo == SpecGeo => []IInvGeo
BY InicioGeo, PasoGeo, PTL DEF SpecGeo

\* The type invariant of the geo microservice's caches, requests and backoff.
THEOREM TiposGeo == SpecGeo => []TypeOKGeo
BY SiempreGeo, PTL DEF IInvGeo

\* Once Nominatim has answered 429, it hears from each thread at most once more
\* until the backoff ends, whatever the number of threads and variants.
THEOREM Retirado == SpecGeo => []RetiradaRespetada
<1>1. IInvGeo => RetiradaRespetada
  BY DEF IInvGeo, Retiradas, RetiradaRespetada
<1> QED BY <1>1, SiempreGeo, PTL

\* Each entry of a cache beyond its maximum is paid for by overlapping stores.
THEOREM SinSobrantes == SpecGeo => []CacheSinSobrantes
<1>1. IInvGeo => CacheSinSobrantes
  BY DEF IInvGeo, Cupos, CacheSinSobrantes
<1> QED BY <1>1, SiempreGeo, PTL

\* What is offered for a detailed Colombian address was found on its own road,
\* for every set of texts that name the road they were typed with.
THEOREM EnSuPropiaVia == SpecGeo => []SugerenciaEnSuVia
<1>1. IInvGeo => SugerenciaEnSuVia
  BY DEF IInvGeo, EnSuVia, SugerenciaEnSuVia
<1> QED BY <1>1, SiempreGeo, PTL

HIDE ConstantesGeo

------------------------------------------------------------------------------
(* The Google caches: the inductive invariant *)

USE ConstantesGoogle

Insertando(u) == {h \in Hilos : pedido[h].fase = "insertar" /\ pedido[h].uso = u}

\* What is stored and what threads will insert without looking at the size again.
Comprometidas ==
  \A u \in Consultas :
    Cardinality(DOMAIN guardadas[u]) + Cardinality(Insertando(u)) <= MaximoGoogle[u] + Cardinality(Hilos) - 1

IInvGoogle == TypeOKGoogle /\ Comprometidas

LEMMA LosPedidos ==
  /\ Ocioso \in Pedido /\ Ocioso.fase = "ocioso"
  /\ \A f \in FasesGoogle, u \in Consultas, d \in Direcciones : [fase |-> f, uso |-> u, dir |-> d] \in Pedido
BY DEF Pedido, Ocioso

LEMMA EsPedido ==
  ASSUME NEW p \in Pedido, p.fase # "ocioso"
  PROVE  /\ p.fase \in FasesGoogle /\ p.uso \in Consultas /\ p.dir \in Direcciones
         /\ \A f \in FasesGoogle :
              /\ [p EXCEPT !.fase = f] \in Pedido
              /\ [p EXCEPT !.fase = f].fase = f /\ [p EXCEPT !.fase = f].uso = p.uso
<1>1. p \in [fase : FasesGoogle, uso : Consultas, dir : Direcciones]
  BY DEF Pedido
<1>2. ASSUME NEW f \in FasesGoogle
      PROVE  [p EXCEPT !.fase = f] \in [fase : FasesGoogle, uso : Consultas, dir : Direcciones]
             /\ [p EXCEPT !.fase = f].fase = f /\ [p EXCEPT !.fase = f].uso = p.uso
  BY <1>1
<1> QED BY <1>1, <1>2 DEF Pedido

LEMMA Tamanos ==
  ASSUME TypeOKGoogle, NEW u \in Consultas
  PROVE  /\ IsFiniteSet(DOMAIN guardadas[u]) /\ Cardinality(DOMAIN guardadas[u]) \in Nat
         /\ Insertando(u) \subseteq Hilos /\ IsFiniteSet(Insertando(u)) /\ Cardinality(Insertando(u)) \in Nat
         /\ Cardinality(Insertando(u)) <= Cardinality(Hilos)
         /\ Cardinality(Hilos) \in Nat \ {0}
         /\ MaximoGoogle[u] \in Nat \ {0}
<1>1. DOMAIN guardadas[u] \subseteq Direcciones /\ Insertando(u) \subseteq Hilos
  BY DEF TypeOKGoogle, Insertando
<1>2. Cardinality(Hilos) \in Nat \ {0}
  BY FS_EmptySet, FS_CardinalityType
<1> QED BY <1>1, <1>2, FS_Subset, FS_CardinalityType

\* A step of a thread that inserts nothing and is not about to, while nothing
\* else is stored: what the bound counts can only shrink.
LEMMA SinInsertar ==
  ASSUME IInvGoogle, TypeOKGoogle', NEW h \in Hilos,
         \A g \in Hilos \ {h} : pedido'[g] = pedido[g],
         pedido'[h].fase # "insertar",
         \A u \in Consultas : DOMAIN guardadas'[u] \subseteq DOMAIN guardadas[u]
  PROVE  IInvGoogle'
<1> SUFFICES ASSUME NEW u \in Consultas
             PROVE  Cardinality(DOMAIN guardadas'[u]) + Cardinality(Insertando(u)')
                      <= MaximoGoogle[u] + Cardinality(Hilos) - 1
  BY DEF IInvGoogle, Comprometidas
<1>1. Insertando(u)' \subseteq Insertando(u)
  BY DEF Insertando
<1>2. /\ Cardinality(Insertando(u)') \in Nat /\ Cardinality(Insertando(u)') <= Cardinality(Insertando(u))
      /\ Cardinality(DOMAIN guardadas'[u]) \in Nat
      /\ Cardinality(DOMAIN guardadas'[u]) <= Cardinality(DOMAIN guardadas[u])
  BY <1>1, Tamanos, FS_Subset, FS_CardinalityType DEF IInvGoogle
<1>3. /\ Cardinality(DOMAIN guardadas[u]) \in Nat /\ Cardinality(Insertando(u)) \in Nat
      /\ Cardinality(Hilos) \in Nat /\ MaximoGoogle[u] \in Nat
      /\ Cardinality(DOMAIN guardadas[u]) + Cardinality(Insertando(u)) <= MaximoGoogle[u] + Cardinality(Hilos) - 1
  BY Tamanos DEF IInvGoogle, Comprometidas
<1> QED BY <1>2, <1>3

\* A thread that found room, or that has emptied the dictionary, is about to insert.
LEMMA AInsertar ==
  ASSUME IInvGoogle, TypeOKGoogle', NEW h \in Hilos, pedido[h].fase \in FasesGoogle,
         Pasa(h, "insertar"),
         \A u \in Consultas : u # pedido[h].uso => guardadas'[u] = guardadas[u],
         Cardinality(DOMAIN guardadas'[pedido[h].uso]) < MaximoGoogle[pedido[h].uso]
  PROVE  IInvGoogle'
<1> SUFFICES ASSUME NEW u \in Consultas
             PROVE  Cardinality(DOMAIN guardadas'[u]) + Cardinality(Insertando(u)')
                      <= MaximoGoogle[u] + Cardinality(Hilos) - 1
  BY DEF IInvGoogle, Comprometidas
<1>1. CASE u = pedido[h].uso
  <2>1. /\ Cardinality(DOMAIN guardadas'[u]) \in Nat /\ Cardinality(Insertando(u)') \in Nat
        /\ Cardinality(Insertando(u)') <= Cardinality(Hilos)
    <3>1. DOMAIN guardadas'[u] \subseteq Direcciones /\ Insertando(u)' \subseteq Hilos
      BY DEF TypeOKGoogle, Insertando
    <3> QED BY <3>1, FS_Subset, FS_CardinalityType
  <2>2. Cardinality(Hilos) \in Nat /\ MaximoGoogle[u] \in Nat
    BY Tamanos DEF IInvGoogle
  <2> QED BY <1>1, <2>1, <2>2
<1>2. CASE u # pedido[h].uso
  <2>1. /\ pedido \in [Hilos -> Pedido] /\ pedido' = [pedido EXCEPT ![h].fase = "insertar"]
        /\ pedido[h].fase # "ocioso"
    BY DEF IInvGoogle, TypeOKGoogle, Pasa, FasesGoogle
  <2>2. pedido'[h].uso = pedido[h].uso /\ \A g \in Hilos \ {h} : pedido'[g] = pedido[g]
    <3>1. [pedido[h] EXCEPT !.fase = "insertar"].uso = pedido[h].uso
      BY <2>1, EsPedido DEF FasesGoogle
    <3> QED BY <2>1, <3>1
  <2>3. Insertando(u)' = Insertando(u)
    BY <1>2, <2>2 DEF Insertando
  <2> QED BY <1>2, <2>3 DEF IInvGoogle, Comprometidas
<1> QED BY <1>1, <1>2

LEMMA PasoPedirGoogle ==
  ASSUME IInvGoogle, NEW h \in Hilos, NEW u \in Consultas, NEW d \in Direcciones, PedirGoogle(h, u, d)
  PROVE  IInvGoogle'
<1>1. PICK f \in {"caducada", "preguntar"} : pedido' = [pedido EXCEPT ![h] = [fase |-> f, uso |-> u, dir |-> d]]
  BY DEF PedirGoogle
<1>2. TypeOKGoogle'
  BY <1>1, LosPedidos DEF IInvGoogle, TypeOKGoogle, PedirGoogle, FasesGoogle
<1>3. pedido'[h].fase # "insertar" /\ \A g \in Hilos \ {h} : pedido'[g] = pedido[g]
  BY <1>1 DEF IInvGoogle, TypeOKGoogle
<1> QED BY <1>2, <1>3, SinInsertar DEF PedirGoogle

\* What Pasa and Termina leave in the threads.
LEMMA TrasPasar ==
  ASSUME TypeOKGoogle, NEW h \in Hilos, pedido[h].fase # "ocioso", NEW f \in FasesGoogle, Pasa(h, f)
  PROVE  /\ pedido' \in [Hilos -> Pedido] /\ pedido'[h].fase = f /\ pedido'[h].uso = pedido[h].uso
         /\ \A g \in Hilos \ {h} : pedido'[g] = pedido[g]
<1>1. [pedido[h] EXCEPT !.fase = f] \in Pedido
      /\ [pedido[h] EXCEPT !.fase = f].fase = f /\ [pedido[h] EXCEPT !.fase = f].uso = pedido[h].uso
  BY EsPedido DEF TypeOKGoogle
<1> QED BY <1>1 DEF TypeOKGoogle, Pasa

LEMMA TrasTerminar ==
  ASSUME TypeOKGoogle, NEW h \in Hilos, Termina(h)
  PROVE  /\ pedido' \in [Hilos -> Pedido] /\ pedido'[h].fase = "ocioso"
         /\ \A g \in Hilos \ {h} : pedido'[g] = pedido[g]
BY LosPedidos DEF TypeOKGoogle, Termina

LEMMA PasoQuitarCaducada ==
  ASSUME IInvGoogle, NEW h \in Hilos, QuitarCaducada(h)
  PROVE  IInvGoogle'
<1> DEFINE p == pedido[h]
<1>1. /\ p.fase = "caducada" /\ Pasa(h, "preguntar") /\ reloj' = reloj
      /\ guardadas' = [guardadas EXCEPT ![p.uso] = SinEntrada(guardadas[p.uso], p.dir)]
      /\ TypeOKGoogle
  BY DEF QuitarCaducada, EnFase, IInvGoogle
<1>2. /\ pedido' \in [Hilos -> Pedido] /\ pedido'[h].fase = "preguntar"
      /\ \A g \in Hilos \ {h} : pedido'[g] = pedido[g]
  BY <1>1, TrasPasar DEF FasesGoogle
<1>3. DOMAIN guardadas' = Consultas
  BY <1>1 DEF TypeOKGoogle
<1>4. ASSUME NEW u \in Consultas
      PROVE  /\ DOMAIN guardadas'[u] \subseteq DOMAIN guardadas[u]
             /\ \A d \in DOMAIN guardadas'[u] : guardadas'[u][d] = guardadas[u][d]
  BY <1>1 DEF TypeOKGoogle, SinEntrada
<1>5. TypeOKGoogle'
  BY <1>1, <1>2, <1>3, <1>4 DEF TypeOKGoogle
<1> QED BY <1>2, <1>4, <1>5, SinInsertar

LEMMA PasoRespondeGoogle ==
  ASSUME IInvGoogle, NEW h \in Hilos, NEW hay \in BOOLEAN, RespondeGoogle(h, hay)
  PROVE  IInvGoogle'
<1>1. pedido[h].fase = "preguntar" /\ TypeOKGoogle /\ UNCHANGED <<reloj, guardadas>>
  BY DEF RespondeGoogle, EnFase, IInvGoogle
<1>2. Pasa(h, "medir") \/ Termina(h)
  BY DEF RespondeGoogle
<1>3. /\ pedido' \in [Hilos -> Pedido] /\ pedido'[h].fase \in {"medir", "ocioso"}
      /\ \A g \in Hilos \ {h} : pedido'[g] = pedido[g]
  BY <1>1, <1>2, TrasPasar, TrasTerminar DEF FasesGoogle
<1>4. TypeOKGoogle'
  BY <1>1, <1>3 DEF TypeOKGoogle
<1> QED BY <1>1, <1>3, <1>4, SinInsertar

LEMMA PasoMedir ==
  ASSUME IInvGoogle, NEW h \in Hilos, Medir(h)
  PROVE  IInvGoogle'
<1> DEFINE u == pedido[h].uso
<1>1. pedido[h].fase = "medir" /\ TypeOKGoogle /\ UNCHANGED <<reloj, guardadas>>
  BY DEF Medir, EnFase, IInvGoogle
<1>2. u \in Consultas
  BY <1>1, EsPedido DEF TypeOKGoogle
<1>3. CASE Cardinality(DOMAIN guardadas[u]) >= MaximoGoogle[u]
  <2>1. Pasa(h, "vaciar")
    BY <1>3 DEF Medir
  <2>2. /\ pedido' \in [Hilos -> Pedido] /\ pedido'[h].fase = "vaciar"
        /\ \A g \in Hilos \ {h} : pedido'[g] = pedido[g]
    BY <1>1, <2>1, TrasPasar DEF FasesGoogle
  <2>3. TypeOKGoogle'
    BY <1>1, <2>2 DEF TypeOKGoogle
  <2> QED BY <1>1, <2>2, <2>3, SinInsertar
<1>4. CASE ~(Cardinality(DOMAIN guardadas[u]) >= MaximoGoogle[u])
  <2>1. Pasa(h, "insertar")
    BY <1>4 DEF Medir
  <2>2. pedido' \in [Hilos -> Pedido]
    BY <1>1, <2>1, TrasPasar DEF FasesGoogle
  <2>3. TypeOKGoogle'
    BY <1>1, <2>2 DEF TypeOKGoogle
  <2>4. Cardinality(DOMAIN guardadas[u]) < MaximoGoogle[u]
    <3>1. Cardinality(DOMAIN guardadas[u]) \in Nat /\ MaximoGoogle[u] \in Nat
      BY <1>1, <1>2, Tamanos
    <3> HIDE DEF u
    <3> QED BY <1>4, <3>1
  <2> QED BY <1>1, <2>1, <2>3, <2>4, AInsertar DEF FasesGoogle
<1> QED BY <1>3, <1>4

LEMMA PasoVaciar ==
  ASSUME IInvGoogle, NEW h \in Hilos, Vaciar(h)
  PROVE  IInvGoogle'
<1> DEFINE u == pedido[h].uso
<1>1. /\ pedido[h].fase = "vaciar" /\ TypeOKGoogle /\ reloj' = reloj /\ Pasa(h, "insertar")
      /\ guardadas' = [guardadas EXCEPT ![u] = << >>]
  BY DEF Vaciar, EnFase, IInvGoogle
<1>2. u \in Consultas
  BY <1>1, EsPedido DEF TypeOKGoogle
<1>3. pedido' \in [Hilos -> Pedido]
  BY <1>1, TrasPasar DEF FasesGoogle
<1>4. /\ DOMAIN guardadas' = Consultas /\ DOMAIN guardadas'[u] = {}
      /\ \A v \in Consultas : v # u => guardadas'[v] = guardadas[v]
  BY <1>1, <1>2 DEF TypeOKGoogle
<1> HIDE DEF u
<1>5. TypeOKGoogle'
  <2>1. \A v \in Consultas : /\ DOMAIN guardadas'[v] \subseteq Direcciones
                             /\ \A d \in DOMAIN guardadas'[v] : guardadas'[v][d] \in Nat
    BY <1>1, <1>2, <1>4 DEF TypeOKGoogle
  <2> QED BY <1>1, <1>3, <1>4, <2>1 DEF TypeOKGoogle
<1>6. Cardinality(DOMAIN guardadas'[u]) < MaximoGoogle[u]
  <2>1. Cardinality(DOMAIN guardadas'[u]) = 0 /\ MaximoGoogle[u] \in Nat \ {0}
    BY <1>1, <1>2, <1>4, FS_EmptySet, Tamanos
  <2> QED BY <2>1
<1> QED BY <1>1, <1>4, <1>5, <1>6, AInsertar DEF FasesGoogle, u

LEMMA PasoInsertar ==
  ASSUME IInvGoogle, NEW h \in Hilos, Insertar(h)
  PROVE  IInvGoogle'
<1> DEFINE p == pedido[h]
           u == p.uso
<1>1. /\ p.fase = "insertar" /\ TypeOKGoogle /\ reloj' = reloj /\ Termina(h)
      /\ guardadas' = [guardadas EXCEPT ![u] = ConEntrada(guardadas[u], p.dir, reloj + VigenciaGoogle[u])]
  BY DEF Insertar, EnFase, IInvGoogle
<1>2. u \in Consultas /\ p.dir \in Direcciones /\ reloj + VigenciaGoogle[u] \in Nat
  BY <1>1, EsPedido DEF TypeOKGoogle
<1>3. /\ pedido' \in [Hilos -> Pedido] /\ pedido'[h].fase = "ocioso"
      /\ \A g \in Hilos \ {h} : pedido'[g] = pedido[g]
  BY <1>1, TrasTerminar
<1>4. /\ DOMAIN guardadas' = Consultas
      /\ DOMAIN guardadas'[u] = DOMAIN guardadas[u] \cup {p.dir}
      /\ \A d \in DOMAIN guardadas'[u] :
           guardadas'[u][d] = IF d = p.dir THEN reloj + VigenciaGoogle[u] ELSE guardadas[u][d]
      /\ \A v \in Consultas : v # u => guardadas'[v] = guardadas[v]
  BY <1>1, <1>2 DEF TypeOKGoogle, ConEntrada
<1>5. TypeOKGoogle'
  <2>1. ASSUME NEW v \in Consultas
        PROVE  /\ DOMAIN guardadas'[v] \subseteq Direcciones
               /\ \A d \in DOMAIN guardadas'[v] : guardadas'[v][d] \in Nat
    <3>1. CASE v = u
      BY <1>1, <1>2, <1>4, <3>1 DEF TypeOKGoogle
    <3>2. CASE v # u
      BY <1>1, <1>4, <3>2 DEF TypeOKGoogle
    <3> QED BY <3>1, <3>2
  <2> QED BY <1>1, <1>3, <1>4, <2>1 DEF TypeOKGoogle
<1>6. ASSUME NEW v \in Consultas
      PROVE  Cardinality(DOMAIN guardadas'[v]) + Cardinality(Insertando(v)')
               <= MaximoGoogle[v] + Cardinality(Hilos) - 1
  <2>1. /\ IsFiniteSet(DOMAIN guardadas[v]) /\ Cardinality(DOMAIN guardadas[v]) \in Nat
        /\ IsFiniteSet(Insertando(v)) /\ Cardinality(Insertando(v)) \in Nat
        /\ Cardinality(Hilos) \in Nat /\ MaximoGoogle[v] \in Nat
        /\ Cardinality(DOMAIN guardadas[v]) + Cardinality(Insertando(v)) <= MaximoGoogle[v] + Cardinality(Hilos) - 1
    BY Tamanos DEF IInvGoogle, Comprometidas
  <2>2. CASE v = u
    <3>1. h \in Insertando(v) /\ Insertando(v)' = Insertando(v) \ {h}
      BY <1>1, <1>3, <2>2 DEF Insertando
    <3>2. Cardinality(Insertando(v)') = Cardinality(Insertando(v)) - 1
      BY <2>1, <3>1, FS_RemoveElement
    <3>3. /\ Cardinality(DOMAIN guardadas'[v]) \in Nat
          /\ Cardinality(DOMAIN guardadas'[v]) <= Cardinality(DOMAIN guardadas[v]) + 1
      <4>1. DOMAIN guardadas'[v] = DOMAIN guardadas[v] \cup {p.dir}
        BY <1>4, <2>2
      <4> QED BY <2>1, <4>1, ConUnoMas
    <3> QED BY <2>1, <3>2, <3>3
  <2>3. CASE v # u
    <3>1. Insertando(v)' = Insertando(v)
      BY <1>1, <1>3, <2>3 DEF Insertando
    <3> QED BY <1>4, <2>1, <2>3, <3>1
  <2> QED BY <2>2, <2>3
<1> QED BY <1>5, <1>6 DEF IInvGoogle, Comprometidas

LEMMA InicioGoogle == InitGoogle => IInvGoogle
<1> SUFFICES ASSUME InitGoogle PROVE IInvGoogle
  OBVIOUS
<1>1. DOMAIN guardadas = Consultas /\ \A u \in Consultas : DOMAIN guardadas[u] = {}
  BY DEF InitGoogle
<1>2. TypeOKGoogle
  BY <1>1, LosPedidos DEF InitGoogle, TypeOKGoogle
<1>3. ASSUME NEW u \in Consultas
      PROVE  Cardinality(DOMAIN guardadas[u]) + Cardinality(Insertando(u)) <= MaximoGoogle[u] + Cardinality(Hilos) - 1
  <2>1. Insertando(u) = {}
    BY DEF InitGoogle, Insertando, Ocioso
  <2>2. Cardinality(DOMAIN guardadas[u]) = 0 /\ Cardinality(Insertando(u)) = 0
    BY <1>1, <2>1, FS_EmptySet
  <2>3. Cardinality(Hilos) \in Nat \ {0} /\ MaximoGoogle[u] \in Nat \ {0}
    BY <1>2, Tamanos
  <2> QED BY <2>2, <2>3
<1> QED BY <1>2, <1>3 DEF IInvGoogle, Comprometidas

LEMMA PasoGoogleTodo == IInvGoogle /\ [NextGoogle]_varsGoogle => IInvGoogle'
<1> SUFFICES ASSUME IInvGoogle, [NextGoogle]_varsGoogle PROVE IInvGoogle'
  OBVIOUS
<1>1. CASE TiempoGoogle
  BY <1>1 DEF TiempoGoogle, PasaElTiempo, IInvGoogle, TypeOKGoogle, Comprometidas, Insertando
<1>2. CASE UNCHANGED varsGoogle
  BY <1>2 DEF varsGoogle, IInvGoogle, TypeOKGoogle, Comprometidas, Insertando
<1> QED BY <1>1, <1>2, PasoPedirGoogle, PasoQuitarCaducada, PasoRespondeGoogle, PasoMedir,
           PasoVaciar, PasoInsertar DEF NextGoogle, PasoGoogle

\* The inductive invariant holds in every behaviour.
LEMMA InvarianteGoogle == SpecGoogle => []IInvGoogle
BY InicioGoogle, PasoGoogleTodo, PTL DEF SpecGoogle

\* The dictionaries of answers and the requests under way keep their types.
THEOREM TiposGoogle == SpecGoogle => []TypeOKGoogle
<1>1. IInvGoogle => TypeOKGoogle
  BY DEF IInvGoogle
<1> QED BY <1>1, InvarianteGoogle, PTL

\* Beyond its maximum each dictionary of answers holds at most an entry of every
\* thread but one, however often threads find room for an entry at the same time.
THEOREM AcotadaGoogle == SpecGoogle => []CacheGoogleAcotada
<1>1. IInvGoogle => CacheGoogleAcotada
  <2> SUFFICES ASSUME IInvGoogle, NEW u \in Consultas
               PROVE  Cardinality(DOMAIN guardadas[u]) <= MaximoGoogle[u] + Cardinality(Hilos) - 1
    BY DEF CacheGoogleAcotada
  <2>1. /\ Cardinality(DOMAIN guardadas[u]) \in Nat /\ Cardinality(Insertando(u)) \in Nat
        /\ Cardinality(Hilos) \in Nat /\ MaximoGoogle[u] \in Nat
        /\ Cardinality(DOMAIN guardadas[u]) + Cardinality(Insertando(u)) <= MaximoGoogle[u] + Cardinality(Hilos) - 1
    BY Tamanos DEF IInvGoogle, Comprometidas
  <2> QED BY <2>1
<1> QED BY <1>1, InvarianteGoogle, PTL

------------------------------------------------------------------------------
(* Rutas: the decoder character by character *)

\* A state of the decoder.
Leyendo == [puntos : Seq(Int \X Int), lat : Int, lon : Int, leeLon : BOOLEAN, result : Int, peso : Nat]

\* A reader with one field changed is a reader,
LEMMA UnCampo ==
  ASSUME NEW a \in Leyendo
  PROVE  /\ \A x \in Int : [a EXCEPT !.lat = x] \in Leyendo /\ [a EXCEPT !.lon = x] \in Leyendo
                            /\ [a EXCEPT !.result = x] \in Leyendo
         /\ \A b \in BOOLEAN : [a EXCEPT !.leeLon = b] \in Leyendo
         /\ \A x \in Nat : [a EXCEPT !.peso = x] \in Leyendo
         /\ \A z \in Seq(Int \X Int) : [a EXCEPT !.puntos = z] \in Leyendo
<1>1. \A x \in Int : [a EXCEPT !.lat = x] \in Leyendo
  BY DEF Leyendo
<1>2. \A x \in Int : [a EXCEPT !.lon = x] \in Leyendo
  BY DEF Leyendo
<1>3. \A x \in Int : [a EXCEPT !.result = x] \in Leyendo
  BY DEF Leyendo
<1>4. \A b \in BOOLEAN : [a EXCEPT !.leeLon = b] \in Leyendo
  BY DEF Leyendo
<1>5. \A x \in Nat : [a EXCEPT !.peso = x] \in Leyendo
  BY DEF Leyendo
<1>6. \A z \in Seq(Int \X Int) : [a EXCEPT !.puntos = z] \in Leyendo
  BY DEF Leyendo
<1> QED BY <1>1, <1>2, <1>3, <1>4, <1>5, <1>6

\* and so is one that has read a character.
LEMMA DeLeer ==
  ASSUME NEW a \in Leyendo, NEW c \in Nat
  PROVE  Leer(a, c) \in Leyendo
<1> DEFINE byte == c - 64
           result == a.result + byte * a.peso
           lat == a.lat + Delta(result)
           lon == a.lon + Delta(result)
           puntos == Append(a.puntos, <<lon, a.lat>>)
<1>1. byte \in Int /\ byte * a.peso \in Int /\ a.peso * 32 \in Nat /\ a.result \in Int
  BY DEF Leyendo
<1>2. result \in Int
  BY <1>1
<1>3. \A r \in Int : Delta(r) \in Int
  BY DEF Delta
<1>4. lat \in Int /\ lon \in Int
  <2>1. Delta(result) \in Int
    BY <1>2, <1>3
  <2>2. a.lat \in Int /\ a.lon \in Int
    BY DEF Leyendo
  <2> QED BY <2>1, <2>2
<1>5. puntos \in Seq(Int \X Int)
  <2> HIDE DEF lon
  <2> QED BY <1>4 DEF Leyendo
<1>6. Leer(a, c) = IF byte >= 31 THEN [a EXCEPT !.result = result, !.peso = a.peso * 32]
                   ELSE IF ~a.leeLon THEN [a EXCEPT !.lat = lat, !.leeLon = TRUE, !.result = 1, !.peso = 1]
                   ELSE [a EXCEPT !.lon = lon, !.leeLon = FALSE, !.result = 1, !.peso = 1, !.puntos = puntos]
  BY DEF Leer, Leyendo
<1> HIDE DEF byte, result, lat, lon, puntos
<1>7. ASSUME NEW r \in Int, NEW q \in Nat
      PROVE  [a EXCEPT !.result = r, !.peso = q] \in Leyendo
  <2>1. [a EXCEPT !.result = r] \in Leyendo
    BY UnCampo
  <2>2. [[a EXCEPT !.result = r] EXCEPT !.peso = q] \in Leyendo
    BY <2>1, UnCampo
  <2> QED BY <2>2
<1>8. ASSUME NEW b \in Leyendo, NEW f \in BOOLEAN
      PROVE  [b EXCEPT !.leeLon = f, !.result = 1, !.peso = 1] \in Leyendo
  <2>0. 1 \in Int /\ 1 \in Nat
    OBVIOUS
  <2>1. [b EXCEPT !.leeLon = f] \in Leyendo
    BY UnCampo
  <2>2. [[b EXCEPT !.leeLon = f] EXCEPT !.result = 1] \in Leyendo
    BY <2>0, <2>1, UnCampo, Zenon
  <2>3. [[[b EXCEPT !.leeLon = f] EXCEPT !.result = 1] EXCEPT !.peso = 1] \in Leyendo
    BY <2>0, <2>2, UnCampo, Zenon
  <2> QED BY <2>3
<1>9. ASSUME NEW x \in Int
      PROVE  [a EXCEPT !.lat = x, !.leeLon = TRUE, !.result = 1, !.peso = 1] \in Leyendo
  <2>1. [a EXCEPT !.lat = x] \in Leyendo
    BY UnCampo
  <2>2. [[a EXCEPT !.lat = x] EXCEPT !.leeLon = TRUE, !.result = 1, !.peso = 1] \in Leyendo
    BY <2>1, <1>8
  <2> QED BY <2>2
<1>10. ASSUME NEW x \in Int, NEW z \in Seq(Int \X Int)
       PROVE  [a EXCEPT !.lon = x, !.leeLon = FALSE, !.result = 1, !.peso = 1, !.puntos = z] \in Leyendo
  <2>1. [a EXCEPT !.lon = x] \in Leyendo
    BY UnCampo
  <2>2. [[a EXCEPT !.lon = x] EXCEPT !.leeLon = FALSE, !.result = 1, !.peso = 1] \in Leyendo
    BY <2>1, <1>8
  <2>3. [[[a EXCEPT !.lon = x] EXCEPT !.leeLon = FALSE, !.result = 1, !.peso = 1] EXCEPT !.puntos = z] \in Leyendo
    BY <2>2, UnCampo
  <2> QED BY <2>3
<1>11. /\ [a EXCEPT !.result = result, !.peso = a.peso * 32] \in Leyendo
       /\ [a EXCEPT !.lat = lat, !.leeLon = TRUE, !.result = 1, !.peso = 1] \in Leyendo
       /\ [a EXCEPT !.lon = lon, !.leeLon = FALSE, !.result = 1, !.peso = 1, !.puntos = puntos] \in Leyendo
  BY <1>1, <1>2, <1>4, <1>5, <1>7, <1>9, <1>10
<1> QED BY <1>6, <1>11

\* The decoder character by character.
LEMMA DeDescifrado ==
  /\ Descifrado(<<>>) = Lector
  /\ \A s \in Seq(Nat) : Descifrado(s) \in Leyendo
  /\ \A s \in Seq(Nat) : \A c \in Nat : Descifrado(Append(s, c)) = Leer(Descifrado(s), c)
<1> DEFINE A == Leyendo
           G == [x \in A \X Nat |-> Leer(x[1], x[2])]
           Regla(s, it) ==
             it = [T \in SUBSET DOMAIN s |->
                     IF T = {} THEN Lector ELSE Leer(it[T \ {Max(T)}], s[Max(T)])]
<1>1. EsTabla(A, Nat, Lector, G)
  <2>1. <<>> \in Seq(Int \X Int)
    OBVIOUS
  <2>2. Lector \in A
    BY <2>1 DEF Lector, Leyendo
  <2>3. \A x \in A \X Nat : Leer(x[1], x[2]) \in A
    BY DeLeer
  <2> QED BY <2>2, <2>3 DEF EsTabla
<1>2. ASSUME NEW a \in A, NEW c \in Nat PROVE G[<<a, c>>] = Leer(a, c)
  OBVIOUS
<1> HIDE DEF G, A
<1>3. ASSUME NEW s \in Seq(Nat) PROVE Descifrado(s) = PliegueIzq(s, A, Lector, G)
  <2> DEFINE N == 1 .. Len(s)
  <2>1. Descifrado(s) = (CHOOSE it : Regla(s, it))[DOMAIN s]
    BY DEF Descifrado, FoldLeft, MapThenFoldSet
  <2>2. DOMAIN s = N /\ Len(s) \in Nat /\ \A i \in N : s[i] \in Nat
    OBVIOUS
  <2>3. \A T \in (SUBSET N) \ {{}} : Max(T) \in T /\ T \ {Max(T)} \in SUBSET N
    BY <2>2, LaUltima
  <2>4. PICK g \in [SUBSET N -> A] : Recorre(g, s, A, Lector, G)
    BY <1>1, RecorreHay
  <2>5. Regla(s, g)
    <3>1. ASSUME NEW T \in SUBSET N, T # {} PROVE g[T] = Leer(g[T \ {Max(T)}], s[Max(T)])
      <4>1. g[T \ {Max(T)}] \in A /\ s[Max(T)] \in Nat
        BY <2>2, <2>3, <2>4, <3>1
      <4> QED BY <1>2, <2>4, <3>1, <4>1 DEF Recorre
    <3>2. g[{}] = Lector
      BY <2>4 DEF Recorre
    <3>3. g = [T \in SUBSET DOMAIN s |-> g[T]]
      BY <2>2, <2>4
    <3> QED BY <2>2, <3>1, <3>2, <3>3
  <2> DEFINE it == CHOOSE it : Regla(s, it)
  <2>6. Regla(s, it)
    BY <2>5
  <2> HIDE DEF it
  <2>7. Recorre(it, s, A, Lector, G)
    <3>1. \A T \in SUBSET N : it[T] = IF T = {} THEN Lector ELSE Leer(it[T \ {Max(T)}], s[Max(T)])
      BY <2>2, <2>6
    <3>2. it = [T \in SUBSET N |-> it[T]]
      BY <2>2, <2>6
    <3>3. ASSUME NEW T \in (SUBSET N) \ {{}}, it[T \ {Max(T)}] \in A
          PROVE  it[T] = G[<<it[T \ {Max(T)}], s[Max(T)]>>]
      BY <1>2, <2>2, <2>3, <3>1, <3>3
    <3> QED BY <3>1, <3>2, <3>3 DEF Recorre
  <2>8. it[1 .. Len(s)] = PliegueIzq(s, A, Lector, G)
    BY <1>1, <2>7, Izquierda
  <2> QED BY <2>1, <2>2, <2>8 DEF it
<1>4. <<>> \in Seq(Nat) /\ \A s \in Seq(Nat) : \A c \in Nat : Append(s, c) \in Seq(Nat)
  OBVIOUS
<1>5. /\ PliegueIzq(<<>>, A, Lector, G) = Lector
      /\ \A s \in Seq(Nat) : PliegueIzq(s, A, Lector, G) \in A
      /\ \A s \in Seq(Nat) : \A c \in Nat :
           PliegueIzq(Append(s, c), A, Lector, G) = G[<<PliegueIzq(s, A, Lector, G), c>>]
  BY <1>1, Izquierda
<1>6. ASSUME NEW s \in Seq(Nat), NEW c \in Nat PROVE Descifrado(Append(s, c)) = Leer(Descifrado(s), c)
  <2>1. Descifrado(Append(s, c)) = G[<<PliegueIzq(s, A, Lector, G), c>>] /\ Descifrado(s) = PliegueIzq(s, A, Lector, G)
    BY <1>3, <1>4, <1>5
  <2>2. Descifrado(s) \in A
    BY <1>3, <1>5
  <2> QED BY <1>2, <2>1, <2>2
<1> QED BY <1>3, <1>4, <1>5, <1>6 DEF A

------------------------------------------------------------------------------
(* Rutas: the groups of a number *)

\* The recursive function Trozos exists.
LEMMA EsTrozos ==
  \A n \in Nat : Trozos[n] = IF n < 32 THEN <<n + 63>> ELSE <<(n % 32) + 32 + 63>> \o Trozos[n \div 32]
<1> DEFINE Hasta(k, f) == f = [n \in 0 .. k |->
             IF n < 32 THEN <<n + 63>> ELSE <<(n % 32) + 32 + 63>> \o f[n \div 32]]
           Falta == {k \in Nat : ~\E f : Hasta(k, f)}
           g(k) == CHOOSE f : Hasta(k, f)
<1>1. ASSUME NEW n \in Nat, n >= 32 PROVE n \div 32 \in Nat /\ n \div 32 < n
  BY <1>1
<1>2. ASSUME NEW k \in Nat, NEW f, k # 0 => Hasta(k - 1, f) PROVE \E h : Hasta(k, h)
  <2> DEFINE h == [n \in 0 .. k |-> IF n < k THEN f[n]
                                    ELSE IF k < 32 THEN <<k + 63>> ELSE <<(k % 32) + 32 + 63>> \o f[k \div 32]]
  <2>1. ASSUME NEW n \in 0 .. k
        PROVE  h[n] = IF n < 32 THEN <<n + 63>> ELSE <<(n % 32) + 32 + 63>> \o h[n \div 32]
    <3>1. n >= 32 => n \div 32 \in 0 .. k /\ n \div 32 < n /\ n \div 32 < k
      BY <1>1
    <3>2. n >= 32 => h[n \div 32] = f[n \div 32]
      BY <3>1
    <3>3. CASE n < k
      <4>1. k # 0 /\ n \in 0 .. (k - 1)
        BY <3>3
      <4>2. f[n] = IF n < 32 THEN <<n + 63>> ELSE <<(n % 32) + 32 + 63>> \o f[n \div 32]
        BY <1>2, <4>1
      <4>3. h[n] = f[n]
        BY <3>3
      <4> HIDE DEF h
      <4> QED BY <3>2, <4>2, <4>3
    <3>4. CASE n = k
      <4>1. h[n] = IF k < 32 THEN <<k + 63>> ELSE <<(k % 32) + 32 + 63>> \o f[k \div 32]
        BY <3>4
      <4> HIDE DEF h
      <4> QED BY <3>2, <3>4, <4>1
    <3> QED BY <3>3, <3>4
  <2>2. h = [n \in 0 .. k |-> h[n]]
    OBVIOUS
  <2> HIDE DEF h
  <2>3. Hasta(k, h)
    BY <2>1, <2>2
  <2> QED BY <2>3
<1>3. Falta = {}
  <2> SUFFICES ASSUME Falta # {} PROVE FALSE
    OBVIOUS
  <2> HIDE DEF Hasta
  <2>1. PICK k \in Falta : \A j \in Falta : k <= j
    BY Minimo
  <2>2. k # 0 => k - 1 \in Nat /\ k - 1 \notin Falta
    BY <2>1
  <2>3. PICK f : k # 0 => Hasta(k - 1, f)
    BY <2>2
  <2> QED BY <1>2, <2>1, <2>3
<1>4. ASSUME NEW k \in Nat PROVE Hasta(k, g(k))
  <2>1. \E f : Hasta(k, f)
    BY <1>3
  <2> QED BY <2>1
<1>5. ASSUME NEW k \in Nat, NEW j \in Nat, j <= k PROVE \A n \in 0 .. j : g(k)[n] = g(j)[n]
  <2> DEFINE Mal == {n \in 0 .. j : g(k)[n] # g(j)[n]}
  <2> SUFFICES Mal = {}
    OBVIOUS
  <2> SUFFICES ASSUME Mal # {} PROVE FALSE
    OBVIOUS
  <2>1. Hasta(k, g(k)) /\ Hasta(j, g(j))
    BY <1>4, <1>5
  <2> HIDE DEF g
  <2>2. Mal \in SUBSET Nat
    OBVIOUS
  <2>3. PICK n \in Mal : \A m \in Mal : n <= m
    BY <2>2, Minimo
  <2>4. n \in Nat /\ n \in 0 .. j /\ n \in 0 .. k /\ g(k)[n] # g(j)[n]
    BY <1>5
  <2>5. /\ g(k)[n] = IF n < 32 THEN <<n + 63>> ELSE <<(n % 32) + 32 + 63>> \o g(k)[n \div 32]
        /\ g(j)[n] = IF n < 32 THEN <<n + 63>> ELSE <<(n % 32) + 32 + 63>> \o g(j)[n \div 32]
    BY <2>1, <2>4
  <2>6. n >= 32 => n \div 32 \in 0 .. j /\ n \div 32 < n
    BY <1>1, <2>4
  <2>7. n >= 32 => n \div 32 \notin Mal
    BY <2>3, <2>4, <2>6
  <2>8. n >= 32 => g(k)[n \div 32] = g(j)[n \div 32]
    BY <2>6, <2>7
  <2> QED BY <2>4, <2>5, <2>8
<1> DEFINE F == [n \in Nat |-> g(n)[n]]
           Todo(f) == f = [n \in Nat |-> IF n < 32 THEN <<n + 63>> ELSE <<(n % 32) + 32 + 63>> \o f[n \div 32]]
<1>6. ASSUME NEW n \in Nat
      PROVE  F[n] = IF n < 32 THEN <<n + 63>> ELSE <<(n % 32) + 32 + 63>> \o F[n \div 32]
  <2>0. n \in 0 .. n /\ \A m \in Nat : F[m] = g(m)[m]
    OBVIOUS
  <2> HIDE DEF g, F, Hasta
  <2>1. Hasta(n, g(n))
    BY <1>4
  <2> USE DEF Hasta
  <2>3. g(n)[n] = IF n < 32 THEN <<n + 63>> ELSE <<(n % 32) + 32 + 63>> \o g(n)[n \div 32]
    BY <2>0, <2>1
  <2>4. n >= 32 => n \div 32 \in Nat /\ n \div 32 <= n /\ n \div 32 \in 0 .. n \div 32
    BY <1>1
  <2>5. n >= 32 => g(n)[n \div 32] = g(n \div 32)[n \div 32]
    BY <1>5, <2>4
  <2> QED BY <2>0, <2>3, <2>4, <2>5
<1>7. F = [n \in Nat |-> F[n]]
  OBVIOUS
<1> HIDE DEF F, g, Hasta
<1>8. Todo(F)
  BY <1>6, <1>7
<1>9. Trozos = CHOOSE f : Todo(f)
  BY DEF Trozos
<1> HIDE DEF Todo
<1>10. Todo(Trozos)
  BY <1>8, <1>9
<1> QED BY <1>10 DEF Todo

\* Each number is a text of its own, not an empty one.
LEMMA TiposTrozos == \A n \in Nat : Trozos[n] \in Seq(Nat) /\ Trozos[n] # <<>>
<1> DEFINE Mal == {n \in Nat : ~(Trozos[n] \in Seq(Nat) /\ Trozos[n] # <<>>)}
<1> SUFFICES ASSUME Mal # {} PROVE FALSE
  OBVIOUS
<1>1. PICK n \in Mal : \A m \in Mal : n <= m
  BY Minimo
<1>2. CASE n < 32
  <2>1. n \in Nat /\ n + 63 \in Nat
    OBVIOUS
  <2>2. Trozos[n] = <<n + 63>>
    BY <1>2, <2>1, EsTrozos
  <2>3. \A c \in Nat : <<c>> \in Seq(Nat) /\ <<c>> # <<>>
    OBVIOUS
  <2> QED BY <2>1, <2>2, <2>3
<1>3. CASE n >= 32
  <2>0. n \in Nat /\ ~(n < 32)
    BY <1>3
  <2>1. n \div 32 \in Nat /\ n \div 32 < n /\ (n % 32) + 32 + 63 \in Nat
    BY <1>3
  <2>2. Trozos[n \div 32] \in Seq(Nat)
    BY <1>1, <2>1
  <2>3. Trozos[n] = <<(n % 32) + 32 + 63>> \o Trozos[n \div 32]
    BY <2>0, EsTrozos, Zenon
  <2> DEFINE c == (n % 32) + 32 + 63
             R == Trozos[n \div 32]
  <2>4. c \in Nat /\ R \in Seq(Nat)
    BY <2>1, <2>2
  <2> HIDE DEF c, R
  <2>5. <<c>> \o R \in Seq(Nat) /\ <<c>> \o R # <<>>
    BY <2>4
  <2> QED BY <2>3, <2>5 DEF c, R
<1> QED BY <1>2, <1>3

\* The sign in the lowest bit comes back.
LEMMA DeSignado ==
  ASSUME NEW d \in Int
  PROVE  Signado(d) \in Nat /\ Delta(Signado(d)) = d
<1>1. CASE d < 0
  <2>1. Signado(d) = -2 * d - 1 /\ (-2 * d - 1) \in Nat
    BY <1>1 DEF Signado
  <2>2. (-2 * d - 1) % 2 = 1 /\ (-2 * d - 1) \div 2 = -d - 1
    BY <1>1
  <2> QED BY <2>1, <2>2 DEF Delta
<1>2. CASE d >= 0
  <2>1. Signado(d) = 2 * d /\ 2 * d \in Nat
    BY <1>2 DEF Signado
  <2>2. (2 * d) % 2 = 0 /\ (2 * d) \div 2 = d
    BY <1>2
  <2> QED BY <2>1, <2>2 DEF Delta
<1> QED BY <1>1, <1>2

\* b is what a becomes when the value that it is reading is r.
Terminado(a, r, b) ==
  /\ b.result = 1 /\ b.peso = 1
  /\ b.leeLon = ~a.leeLon
  /\ b.lat = IF a.leeLon THEN a.lat ELSE a.lat + Delta(r)
  /\ b.lon = IF a.leeLon THEN a.lon + Delta(r) ELSE a.lon
  /\ b.puntos = IF a.leeLon THEN Append(a.puntos, <<a.lon + Delta(r), a.lat>>) ELSE a.puntos

\* The last group of a value, below 32, finishes it;
LEMMA LeeUltimo ==
  ASSUME NEW a \in Leyendo, NEW n \in 0 .. 31
  PROVE  Terminado(a, a.result + (n - 1) * a.peso, Leer(a, n + 63))
<1> DEFINE r == a.result + (n - 1) * a.peso
<1>1. (n + 63) - 64 = n - 1 /\ ~(n - 1 >= 31)
  OBVIOUS
<1>2. Leer(a, n + 63) = IF ~a.leeLon
                          THEN [a EXCEPT !.lat = a.lat + Delta(r), !.leeLon = TRUE, !.result = 1, !.peso = 1]
                          ELSE [a EXCEPT !.lon = a.lon + Delta(r), !.leeLon = FALSE, !.result = 1, !.peso = 1,
                                         !.puntos = Append(a.puntos, <<a.lon + Delta(r), a.lat>>)]
  BY <1>1 DEF Leer, Leyendo
<1> HIDE DEF r
<1>3. Terminado(a, r, Leer(a, n + 63))
  BY <1>2, ZenonT(40) DEF Terminado, Leyendo
<1> QED BY <1>3 DEF r

\* another one adds to it, and the next weighs 32 times more.
LEMMA LeeOtro ==
  ASSUME NEW a \in Leyendo, NEW n \in 0 .. 31
  PROVE  LET b == Leer(a, n + 32 + 63)
         IN  /\ b.result = a.result + (n + 31) * a.peso /\ b.peso = a.peso * 32
             /\ b.leeLon = a.leeLon /\ b.lat = a.lat /\ b.lon = a.lon /\ b.puntos = a.puntos
<1>1. (n + 32 + 63) - 64 = n + 31 /\ n + 31 >= 31
  OBVIOUS
<1>2. Leer(a, n + 32 + 63) = [a EXCEPT !.result = a.result + (n + 31) * a.peso, !.peso = a.peso * 32]
  BY <1>1 DEF Leer, Leyendo
<1> QED BY <1>2 DEF Leyendo

\* What a group and those after it add: each byte is one less than its group.
LEMMA Sumando ==
  ASSUME NEW r \in Int, NEW p \in Int, NEW k \in Int, NEW m \in Int
  PROVE  (r + (k + 31) * p) + (m - 1) * (p * 32) = r + ((k + 32 * m) - 1) * p
<1>1. (k + 31) * p = k * p + 31 * p
  OBVIOUS
<1>2. (m - 1) * (p * 32) = 32 * (m * p) - 32 * p
  OBVIOUS
<1>3. ((k + 32 * m) - 1) * p = k * p + 32 * (m * p) - p
  OBVIOUS
<1> QED BY <1>1, <1>2, <1>3

\* Reading the groups of n adds n - 1 and finishes a value; without the last one
\* the reader waits for more of the same value.
LEMMA LeeTrozos ==
  ASSUME NEW n \in Nat
  PROVE  \A t \in Seq(Nat) :
           LET a == Descifrado(t)
           IN  /\ Terminado(a, a.result + (n - 1) * a.peso, Descifrado(t \o Trozos[n]))
               /\ Descifrado(Front(t \o Trozos[n])).leeLon = a.leeLon
<1> DEFINE Bien(m) == \A t \in Seq(Nat) :
             LET a == Descifrado(t)
             IN  /\ Terminado(a, a.result + (m - 1) * a.peso, Descifrado(t \o Trozos[m]))
                 /\ Descifrado(Front(t \o Trozos[m])).leeLon = a.leeLon
           Mal == {m \in Nat : ~Bien(m)}
<1>0. \A t \in Seq(Nat) : \A c \in Nat : \A R \in Seq(Nat) :
        Append(t, c) \in Seq(Nat) /\ t \o (<<c>> \o R) = Append(t, c) \o R
  BY Pegar
<1>1. ASSUME NEW m \in 0 .. 31 PROVE Bien(m)
  <2> SUFFICES ASSUME NEW t \in Seq(Nat)
               PROVE  LET a == Descifrado(t)
                      IN  /\ Terminado(a, a.result + (m - 1) * a.peso, Descifrado(t \o Trozos[m]))
                          /\ Descifrado(Front(t \o Trozos[m])).leeLon = a.leeLon
    OBVIOUS
  <2>1. m \in Nat /\ m < 32 /\ m + 63 \in Nat
    OBVIOUS
  <2>2. Trozos[m] = <<m + 63>>
    BY <2>1, EsTrozos
  <2>3. t \o Trozos[m] = Append(t, m + 63) /\ Front(t \o Trozos[m]) = t
    BY <2>1, <2>2, Pegar
  <2>4. Descifrado(t \o Trozos[m]) = Leer(Descifrado(t), m + 63) /\ Descifrado(t) \in Leyendo
    BY <2>1, <2>3, DeDescifrado
  <2> QED BY <2>3, <2>4, LeeUltimo
<1>2. ASSUME NEW m \in Nat, m >= 32, Bien(m \div 32) PROVE Bien(m)
  <2> SUFFICES ASSUME NEW t \in Seq(Nat)
               PROVE  LET a == Descifrado(t)
                      IN  /\ Terminado(a, a.result + (m - 1) * a.peso, Descifrado(t \o Trozos[m]))
                          /\ Descifrado(Front(t \o Trozos[m])).leeLon = a.leeLon
    OBVIOUS
  <2> DEFINE k == m % 32
             q == m \div 32
             c == k + 32 + 63
             u == Append(t, c)
             a == Descifrado(t)
             b == Descifrado(u)
  <2>1. k \in 0 .. 31 /\ q \in Nat /\ m = k + 32 * q /\ c \in Nat
    BY <1>2
  <2>2. Trozos[m] = <<c>> \o Trozos[q]
    <3>1. ~(m < 32)
      BY <1>2
    <3> QED BY <3>1, EsTrozos, Zenon
  <2>3. Bien(q)
    BY <1>2
  <2> HIDE DEF k, q, c
  <2>4. Trozos[q] \in Seq(Nat)
    BY <2>1, TiposTrozos
  <2>5. u \in Seq(Nat) /\ t \o Trozos[m] = u \o Trozos[q]
    <3> DEFINE R == Trozos[q]
    <3>1. R \in Seq(Nat) /\ c \in Nat
      BY <2>1, <2>4
    <3> HIDE DEF R
    <3>2. /\ Append(t, c) \in Seq(Nat)
          /\ t \o (<<c>> \o R) = Append(t, c) \o R
      BY <1>0, <3>1, Zenon
    <3>3. u \in Seq(Nat) /\ t \o (<<c>> \o R) = u \o R
      BY <3>2
    <3> QED BY <2>2, <3>3 DEF R
  <2>6. a \in Leyendo /\ b = Leer(a, k + 32 + 63)
    <3>1. t \in Seq(Nat) /\ a \in Leyendo /\ b = Leer(a, c)
      BY <2>1, DeDescifrado
    <3> QED BY <3>1 DEF c
  <2>7. Terminado(b, b.result + (q - 1) * b.peso, Descifrado(u \o Trozos[q]))
        /\ Descifrado(Front(u \o Trozos[q])).leeLon = b.leeLon
    BY <2>3, <2>5
  <2> HIDE DEF u, a, b, Bien
  <2>8. /\ b.result = a.result + (k + 31) * a.peso /\ b.peso = a.peso * 32
        /\ b.leeLon = a.leeLon /\ b.lat = a.lat /\ b.lon = a.lon /\ b.puntos = a.puntos
    BY <2>1, <2>6, LeeOtro, ZenonT(40)
  <2>9. a.result \in Int /\ a.peso \in Int
    BY <2>6 DEF Leyendo
  <2>10. b.result + (q - 1) * b.peso = a.result + (m - 1) * a.peso
    <3> DEFINE r == a.result
               p == a.peso
    <3>0. k \in Int /\ q \in Int /\ r \in Int /\ p \in Int
      BY <2>1, <2>9
    <3> HIDE DEF r, p
    <3>1. (r + (k + 31) * p) + (q - 1) * (p * 32) = r + ((k + 32 * q) - 1) * p
      BY <3>0, Sumando
    <3>2. (a.result + (k + 31) * a.peso) + (q - 1) * (a.peso * 32) = a.result + ((k + 32 * q) - 1) * a.peso
      BY <3>1 DEF r, p
    <3> QED BY <2>1, <2>8, <3>2
  <2> DEFINE v == a.result + (m - 1) * a.peso
             d == Descifrado(u \o Trozos[q])
  <2>11. Terminado(b, v, d)
    BY <2>7, <2>10
  <2> HIDE DEF v, d
  <2>12. Terminado(a, v, d)
    BY <2>8, <2>11 DEF Terminado
  <2> QED BY <2>5, <2>7, <2>8, <2>12 DEF v, d, a
<1>3. Mal = {}
  <2> SUFFICES ASSUME Mal # {} PROVE FALSE
    OBVIOUS
  <2> HIDE DEF Bien
  <2>1. PICK m \in Mal : \A j \in Mal : m <= j
    BY Minimo
  <2>2. m \in Nat /\ m >= 32
    BY <1>1, <2>1
  <2>3. m \div 32 \in Nat /\ m \div 32 < m
    BY <2>2
  <2>4. Bien(m \div 32)
    BY <2>1, <2>2, <2>3
  <2> QED BY <1>2, <2>1, <2>2, <2>4
<1> QED BY <1>3


------------------------------------------------------------------------------
(* Rutas: decoding undoes encoding *)

\* A point; the encoder after some of them.
Punto == Int \X Int

Cifra(s) == FoldLeft(Cifrar, Cifrando, s)
EnCifra == [texto : Seq(Nat), de : Punto]

\* A point more for the encoder.
LEMMA DeCifrar ==
  ASSUME NEW a \in EnCifra, NEW p \in Punto
  PROVE  /\ Cifrar(a, p) \in EnCifra
         /\ Signado(p[2] - a.de[2]) \in Nat /\ Signado(p[1] - a.de[1]) \in Nat
         /\ a.texto \in Seq(Nat) /\ a.de \in Punto
<1>1. a.texto \in Seq(Nat) /\ a.de \in Punto
  BY DEF EnCifra
<1>2. p[1] - a.de[1] \in Int /\ p[2] - a.de[2] \in Int
  BY <1>1 DEF Punto
<1> DEFINE x == Signado(p[2] - a.de[2])
           y == Signado(p[1] - a.de[1])
<1>3. x \in Nat /\ y \in Nat
  BY <1>2, DeSignado
<1>4. Cifrar(a, p) = [texto |-> a.texto \o Trozos[x] \o Trozos[y], de |-> p]
  BY DEF Cifrar
<1> HIDE DEF x, y
<1>5. Trozos[x] \in Seq(Nat) /\ Trozos[y] \in Seq(Nat)
  BY <1>3, TiposTrozos
<1>6. a.texto \o Trozos[x] \o Trozos[y] \in Seq(Nat)
  BY <1>1, <1>5
<1>7. Cifrar(a, p) \in EnCifra
  BY <1>4, <1>6 DEF EnCifra
<1> QED BY <1>1, <1>3, <1>7 DEF x, y

\* The encoder point by point.
LEMMA DeCifra ==
  /\ Cifra(<<>>) = Cifrando
  /\ \A s \in Seq(Punto) : Cifra(s) \in EnCifra
  /\ \A s \in Seq(Punto) : \A x \in Punto : Cifra(Append(s, x)) = Cifrar(Cifra(s), x)
<1> DEFINE A == EnCifra
           B == Punto
           G == [x \in A \X B |-> Cifrar(x[1], x[2])]
           Regla(s, it) ==
             it = [T \in SUBSET DOMAIN s |->
                     IF T = {} THEN Cifrando ELSE Cifrar(it[T \ {Max(T)}], s[Max(T)])]
<1>1. EsTabla(A, B, Cifrando, G)
  <2>1. Cifrando \in A
    BY DEF Cifrando, EnCifra, Punto
  <2>2. \A x \in A \X B : Cifrar(x[1], x[2]) \in A
    BY DeCifrar
  <2> QED BY <2>1, <2>2 DEF EsTabla
<1>2. ASSUME NEW a \in A, NEW x \in B PROVE G[<<a, x>>] = Cifrar(a, x)
  OBVIOUS
<1> HIDE DEF G, A, B
<1>3. ASSUME NEW s \in Seq(B) PROVE Cifra(s) = PliegueIzq(s, A, Cifrando, G)
  <2> DEFINE N == 1 .. Len(s)
  <2>1. Cifra(s) = (CHOOSE it : Regla(s, it))[DOMAIN s]
    BY DEF Cifra, FoldLeft, MapThenFoldSet
  <2>2. DOMAIN s = N /\ Len(s) \in Nat /\ \A i \in N : s[i] \in B
    OBVIOUS
  <2>3. \A T \in (SUBSET N) \ {{}} : Max(T) \in T /\ T \ {Max(T)} \in SUBSET N
    BY <2>2, LaUltima
  <2>4. PICK g \in [SUBSET N -> A] : Recorre(g, s, A, Cifrando, G)
    BY <1>1, RecorreHay
  <2>5. Regla(s, g)
    <3>1. ASSUME NEW T \in SUBSET N, T # {} PROVE g[T] = Cifrar(g[T \ {Max(T)}], s[Max(T)])
      <4>1. g[T \ {Max(T)}] \in A /\ s[Max(T)] \in B
        BY <2>2, <2>3, <2>4, <3>1
      <4> QED BY <1>2, <2>4, <3>1, <4>1 DEF Recorre
    <3>2. g[{}] = Cifrando
      BY <2>4 DEF Recorre
    <3>3. g = [T \in SUBSET DOMAIN s |-> g[T]]
      BY <2>2, <2>4
    <3> QED BY <2>2, <3>1, <3>2, <3>3
  <2> DEFINE it == CHOOSE it : Regla(s, it)
  <2>6. Regla(s, it)
    BY <2>5
  <2> HIDE DEF it
  <2>7. Recorre(it, s, A, Cifrando, G)
    <3>1. \A T \in SUBSET N : it[T] = IF T = {} THEN Cifrando ELSE Cifrar(it[T \ {Max(T)}], s[Max(T)])
      BY <2>2, <2>6
    <3>2. it = [T \in SUBSET N |-> it[T]]
      BY <2>2, <2>6
    <3>3. ASSUME NEW T \in (SUBSET N) \ {{}}, it[T \ {Max(T)}] \in A
          PROVE  it[T] = G[<<it[T \ {Max(T)}], s[Max(T)]>>]
      BY <1>2, <2>2, <2>3, <3>1, <3>3
    <3> QED BY <3>1, <3>2, <3>3 DEF Recorre
  <2>8. it[1 .. Len(s)] = PliegueIzq(s, A, Cifrando, G)
    BY <1>1, <2>7, Izquierda
  <2> QED BY <2>1, <2>2, <2>8 DEF it
<1>4. <<>> \in Seq(B) /\ \A s \in Seq(B) : \A x \in B : Append(s, x) \in Seq(B)
  OBVIOUS
<1>5. /\ PliegueIzq(<<>>, A, Cifrando, G) = Cifrando
      /\ \A s \in Seq(B) : PliegueIzq(s, A, Cifrando, G) \in A
      /\ \A s \in Seq(B) : \A x \in B :
           PliegueIzq(Append(s, x), A, Cifrando, G) = G[<<PliegueIzq(s, A, Cifrando, G), x>>]
  BY <1>1, Izquierda
<1>6. ASSUME NEW s \in Seq(B), NEW x \in B PROVE Cifra(Append(s, x)) = Cifrar(Cifra(s), x)
  <2>1. Cifra(Append(s, x)) = G[<<PliegueIzq(s, A, Cifrando, G), x>>] /\ Cifra(s) = PliegueIzq(s, A, Cifrando, G)
    BY <1>3, <1>4, <1>5
  <2>2. Cifra(s) \in A
    BY <1>3, <1>5
  <2> QED BY <1>2, <2>1, <2>2
<1> QED BY <1>3, <1>4, <1>5, <1>6 DEF A, B

\* A point more: the reader ends at it, with the points so far; a text that stops
\* short of its last character leaves the reader in the longitude.
LEMMA LeePunto ==
  ASSUME NEW s \in Seq(Punto), NEW p \in Punto,
         Descifrado(Cifra(s).texto).puntos = s,
         Descifrado(Cifra(s).texto).lat = Cifra(s).de[2],
         Descifrado(Cifra(s).texto).lon = Cifra(s).de[1],
         ~Descifrado(Cifra(s).texto).leeLon,
         Descifrado(Cifra(s).texto).result = 1,
         Descifrado(Cifra(s).texto).peso = 1
  PROVE  LET z == Descifrado(Cifra(Append(s, p)).texto)
         IN  /\ z.puntos = Append(s, p) /\ z.lat = p[2] /\ z.lon = p[1]
             /\ ~z.leeLon /\ z.result = 1 /\ z.peso = 1
             /\ Descifrado(Front(Cifra(Append(s, p)).texto)).leeLon
             /\ Cifra(Append(s, p)).de = p /\ Cifra(Append(s, p)).texto # <<>>
<1> DEFINE a == Cifra(s)
           x == Signado(p[2] - a.de[2])
           y == Signado(p[1] - a.de[1])
           t == a.texto
           u == t \o Trozos[x]
           w == u \o Trozos[y]
<1>1. a \in EnCifra /\ Cifra(Append(s, p)) = Cifrar(a, p)
  BY DeCifra
<1>2. Cifra(Append(s, p)).texto = w /\ Cifra(Append(s, p)).de = p
  <2> HIDE DEF a
  <2>1. Cifrar(a, p) = [texto |-> a.texto \o Trozos[x] \o Trozos[y], de |-> p]
    BY Zenon DEF Cifrar
  <2>2. Cifrar(a, p) = [texto |-> w, de |-> p]
    BY <2>1, Zenon
  <2> HIDE DEF w
  <2> QED BY <1>1, <2>2
<1> HIDE DEF a
<1>3. x \in Nat /\ y \in Nat /\ t \in Seq(Nat) /\ a.de \in Punto
  BY <1>1, DeCifrar
<1>4. Delta(x) = p[2] - a.de[2] /\ Delta(y) = p[1] - a.de[1]
  <2>1. p[2] - a.de[2] \in Int /\ p[1] - a.de[1] \in Int
    BY <1>3 DEF Punto
  <2> QED BY <2>1, DeSignado
<1> DEFINE z0 == Descifrado(t)
           z1 == Descifrado(u)
           z2 == Descifrado(w)
<1>5. /\ z0.puntos = s /\ z0.lat = a.de[2] /\ z0.lon = a.de[1] /\ ~z0.leeLon /\ z0.result = 1 /\ z0.peso = 1
      /\ a.de[1] \in Int /\ a.de[2] \in Int /\ p[1] \in Int /\ p[2] \in Int /\ p = <<p[1], p[2]>>
  BY <1>3 DEF a, Punto
<1> HIDE DEF x, y, t
<1>6. Trozos[x] \in Seq(Nat) /\ Trozos[y] \in Seq(Nat) /\ Trozos[y] # <<>>
  BY <1>3, TiposTrozos
<1>7. u \in Seq(Nat)
  BY <1>3, <1>6
<1>8. Terminado(z0, z0.result + (x - 1) * z0.peso, z1)
  BY <1>3, LeeTrozos
<1>9. /\ Terminado(z1, z1.result + (y - 1) * z1.peso, z2)
      /\ Descifrado(Front(w)).leeLon = z1.leeLon
  <2> HIDE DEF u
  <2> QED BY <1>3, <1>7, LeeTrozos
<1>10. w # <<>>
  <2> DEFINE R == Trozos[y]
  <2> HIDE DEF R, u
  <2>1. R \in Seq(Nat) /\ R # <<>> /\ u \in Seq(Nat)
    BY <1>6, <1>7 DEF R
  <2>2. u \o R # <<>>
    BY <2>1, ConcatEqualIffEmpty
  <2> QED BY <2>2 DEF R
<1> HIDE DEF z0, z1, z2, u, w
<1>11. Terminado(z0, x, z1)
  <2>1. z0.result + (x - 1) * z0.peso = x
    BY <1>3, <1>5
  <2> QED BY <1>8, <2>1
<1>12. z1.puntos = s /\ z1.lat = p[2] /\ z1.lon = a.de[1] /\ z1.leeLon /\ z1.result = 1 /\ z1.peso = 1
  <2>1. a.de[2] + (p[2] - a.de[2]) = p[2]
    BY <1>5
  <2> QED BY <1>4, <1>5, <1>11, <2>1 DEF Terminado
<1>13. Terminado(z1, y, z2)
  <2>1. z1.result + (y - 1) * z1.peso = y
    BY <1>3, <1>12
  <2> QED BY <1>9, <2>1
<1>14. z2.puntos = Append(s, p) /\ z2.lat = p[2] /\ z2.lon = p[1] /\ ~z2.leeLon /\ z2.result = 1 /\ z2.peso = 1
  <2>1. a.de[1] + (p[1] - a.de[1]) = p[1]
    BY <1>5
  <2> QED BY <1>4, <1>5, <1>12, <1>13, <2>1, ZenonT(40) DEF Terminado
<1>15. Descifrado(Front(w)).leeLon
  BY <1>9, <1>12
<1> QED BY <1>2, <1>10, <1>14, <1>15 DEF z2

\* What the reader holds after the whole text of some points, and after the text
\* without its last character.
Leido(s) ==
  LET z == Descifrado(Cifrado(s))
  IN  /\ z.puntos = s /\ ~z.leeLon /\ z.result = 1 /\ z.peso = 1
      /\ z.lat = Cifra(s).de[2] /\ z.lon = Cifra(s).de[1]
      /\ (s # <<>> => Cifrado(s) # <<>>)
      /\ (Cifrado(s) # <<>> => Descifrado(Front(Cifrado(s))).leeLon)

\* a is a beginning of s.
Principio(a, s) == \E r \in Seq(Punto) : s = a \o r

LEMMA EsPrincipio ==
  ASSUME NEW a \in Seq(Punto), NEW s \in Seq(Punto), Principio(a, s)
  PROVE  IsPrefix(a, s)
<1>1. PICK r \in Seq(Punto) : s = a \o r
  BY DEF Principio
<1> DEFINE n == Len(a)
<1>2. /\ n \in Nat /\ Len(r) \in Nat /\ Len(s) = n + Len(r)
      /\ \A i \in 1 .. n : s[i] = a[i] /\ a[i] \in Punto
  BY <1>1, ConcatProperties, LenProperties, ElementOfSeq
<1> HIDE DEF n
<1>3. /\ SubSeq(s, 1, n) \in Seq(Punto) /\ Len(SubSeq(s, 1, n)) = n
      /\ \A i \in 1 .. n : SubSeq(s, 1, n)[i] = s[i]
  BY <1>2, SubSeqProperties
<1>4. /\ SubSeq(a, 1, n) \in Seq(Punto) /\ Len(SubSeq(a, 1, n)) = n
      /\ \A i \in 1 .. n : SubSeq(a, 1, n)[i] = a[i]
  BY <1>2, SubSeqProperties
<1>5. SubSeq(a, 1, n) = SubSeq(s, 1, n)
  BY <1>2, <1>3, <1>4, SeqEqual
<1> QED BY <1>2, <1>5 DEF IsPrefix, n

\* A line is a beginning of itself, and of what it is a beginning of and more.
LEMMA Principios ==
  ASSUME NEW a \in Seq(Punto), NEW s \in Seq(Punto)
  PROVE  /\ Principio(a, a)
         /\ \A r \in Seq(Punto) : Principio(a, s) => Principio(a, s \o r)
<1>1. Principio(a, a)
  <2>1. a = a \o <<>> /\ <<>> \in Seq(Punto)
    BY ConcatEmptySeq
  <2> QED BY <2>1 DEF Principio
<1>2. ASSUME NEW r \in Seq(Punto), Principio(a, s) PROVE Principio(a, s \o r)
  <2>1. PICK q \in Seq(Punto) : s = a \o q
    BY <1>2 DEF Principio
  <2>2. s \o r = a \o (q \o r) /\ q \o r \in Seq(Punto)
    BY <2>1, ConcatAssociative, ConcatProperties
  <2> QED BY <2>2 DEF Principio
<1> QED BY <1>1, <1>2

\* A character more adds a point or none.
LEMMA UnoMas ==
  ASSUME NEW b \in Leyendo, NEW x \in Nat, b.puntos \in Seq(Punto)
  PROVE  \E q \in Seq(Punto) : Leer(b, x).puntos = b.puntos \o q
<1>1. Leer(b, x).puntos = b.puntos \/ \E y : Leer(b, x).puntos = Append(b.puntos, y)
  BY DEF Leer, Leyendo
<1>2. Leer(b, x).puntos \in Seq(Punto)
  BY DeLeer DEF Leyendo, Punto
<1>3. CASE Leer(b, x).puntos = b.puntos
  <2>1. b.puntos = b.puntos \o <<>> /\ <<>> \in Seq(Punto)
    BY ConcatEmptySeq
  <2> QED BY <1>3, <2>1
<1>4. ASSUME NEW y, Leer(b, x).puntos = Append(b.puntos, y)
      PROVE  \E q \in Seq(Punto) : Leer(b, x).puntos = b.puntos \o q
  <2> DEFINE g == b.puntos
  <2>1. g \in Seq(Punto) /\ Append(g, y) \in Seq(Punto)
    BY <1>2, <1>4
  <2> HIDE DEF g
  <2>2. y \in Punto
    <3>1. Len(g) \in Nat /\ Len(Append(g, y)) = Len(g) + 1 /\ Append(g, y)[Len(g) + 1] = y
      BY <2>1
    <3>2. Len(g) + 1 \in 1 .. Len(Append(g, y))
      BY <3>1
    <3> QED BY <2>1, <3>1, <3>2, ElementOfSeq
  <2>3. Append(g, y) = g \o <<y>> /\ <<y>> \in Seq(Punto)
    BY <2>1, <2>2, AppendIsConcat
  <2> QED BY <1>4, <2>3 DEF g
<1> QED BY <1>1, <1>3, <1>4

\* What has been read when only the beginning of a text arrives.
LEMMA LeeMas ==
  ASSUME NEW c \in Seq(Nat)
  PROVE  \A r \in Seq(Nat) : Principio(Descifrado(c).puntos, Descifrado(c \o r).puntos)
<1> DEFINE a == Descifrado(c).puntos
           Mal == {r \in Seq(Nat) : ~Principio(a, Descifrado(c \o r).puntos)}
<1>0. a \in Seq(Punto)
  BY DeDescifrado DEF Leyendo, Punto
<1> HIDE DEF a
<1>1. <<>> \notin Mal
  <2>1. c \o <<>> = c
    BY ConcatEmptySeq
  <2> QED BY <1>0, <2>1, Principios DEF a
<1>2. ASSUME NEW r \in Seq(Nat), NEW x \in Nat, r \notin Mal PROVE Append(r, x) \notin Mal
  <2> DEFINE b == Descifrado(c \o r)
  <2>1. c \o r \in Seq(Nat) /\ c \o Append(r, x) = Append(c \o r, x)
    <3>1. <<x>> \in Seq(Nat) /\ Append(r, x) = r \o <<x>> /\ c \o r \in Seq(Nat)
      BY AppendIsConcat, ConcatProperties
    <3>2. c \o (r \o <<x>>) = (c \o r) \o <<x>>
      BY <3>1, ConcatAssociative
    <3>3. Append(c \o r, x) = (c \o r) \o <<x>>
      BY <3>1, AppendIsConcat
    <3> QED BY <3>1, <3>2, <3>3
  <2>2. b \in Leyendo /\ Descifrado(c \o Append(r, x)) = Leer(b, x)
    BY <2>1, DeDescifrado
  <2>3. Principio(a, b.puntos)
    BY <1>2
  <2> HIDE DEF b
  <2>4. b.puntos \in Seq(Punto)
    BY <2>2 DEF Leyendo, Punto
  <2>5. \E q \in Seq(Punto) : Leer(b, x).puntos = b.puntos \o q
    BY <2>2, <2>4, UnoMas
  <2>6. Principio(a, Leer(b, x).puntos)
    BY <1>0, <2>3, <2>4, <2>5, Principios
  <2> QED BY <2>2, <2>6
<1>3. Mal = {}
  <2> SUFFICES ASSUME Mal # {} PROVE FALSE
    OBVIOUS
  <2>1. Mal \in SUBSET Seq(Nat)
    OBVIOUS
  <2> HIDE DEF Mal
  <2>2. PICK r \in Seq(Nat) \ Mal, x \in Nat : Append(r, x) \in Mal
    BY <1>1, <2>1, PorAppend
  <2> QED BY <1>2, <2>2
<1> QED BY <1>3 DEF a

\* A text up to one of its characters and what follows.
LEMMA Partido ==
  ASSUME NEW t \in Seq(Nat), NEW k \in 0 .. Len(t)
  PROVE  /\ SubSeq(t, 1, k) \in Seq(Nat)
         /\ \E r \in Seq(Nat) : t = SubSeq(t, 1, k) \o r
<1> DEFINE c == SubSeq(t, 1, k)
           r == SubSeq(t, k + 1, Len(t))
           n == Len(t)
<1>1. n \in Nat /\ k \in Nat /\ k <= n /\ \A i \in 1 .. n : t[i] \in Nat
  BY LenProperties, ElementOfSeq
<1>2. /\ c \in Seq(Nat) /\ Len(c) = k /\ \A i \in 1 .. k : c[i] = t[i]
  <2>1. \A i \in 1 .. k : t[i] \in Nat
    BY <1>1
  <2>2. /\ c \in Seq(Nat) /\ Len(c) = IF 1 <= k THEN k - 1 + 1 ELSE 0
        /\ \A i \in 1 .. k - 1 + 1 : c[i] = t[1 + i - 1]
    BY <1>1, <2>1, SubSeqProperties
  <2> HIDE DEF c
  <2> QED BY <1>1, <2>2
<1>3. /\ r \in Seq(Nat) /\ Len(r) = n - k /\ \A i \in 1 .. n - k : r[i] = t[k + i]
  <2>1. \A i \in k + 1 .. n : t[i] \in Nat
    BY <1>1
  <2>2. /\ r \in Seq(Nat) /\ Len(r) = IF k + 1 <= n THEN n - (k + 1) + 1 ELSE 0
        /\ \A i \in 1 .. n - (k + 1) + 1 : r[i] = t[(k + 1) + i - 1]
    BY <1>1, <2>1, SubSeqProperties
  <2> HIDE DEF r
  <2> QED BY <1>1, <2>2
<1> HIDE DEF c, r
<1> DEFINE w == c \o r
<1>4. /\ w \in Seq(Nat) /\ Len(w) = Len(c) + Len(r)
      /\ \A i \in 1 .. Len(c) + Len(r) : w[i] = IF i <= Len(c) THEN c[i] ELSE r[i - Len(c)]
  <2>1. c \in Seq(Nat) /\ r \in Seq(Nat)
    BY <1>2, <1>3
  <2> QED BY <2>1, ConcatProperties
<1> HIDE DEF w
<1>5. w \in Seq(Nat) /\ Len(w) = n /\ \A i \in 1 .. n : w[i] = IF i <= k THEN c[i] ELSE r[i - k]
  <2>1. Len(c) = k /\ Len(r) = n - k /\ k + (n - k) = n
    BY <1>1, <1>2, <1>3
  <2> QED BY <1>4, <2>1
<1>6. \A i \in 1 .. n : w[i] = t[i]
  <2> SUFFICES ASSUME NEW i \in 1 .. n PROVE w[i] = t[i]
    OBVIOUS
  <2>1. CASE i <= k
    BY <1>1, <1>2, <1>5, <2>1
  <2>2. CASE ~(i <= k)
    <3>1. i - k \in 1 .. n - k /\ k + (i - k) = i
      BY <1>1, <2>2
    <3> QED BY <1>3, <1>5, <2>2, <3>1
  <2> QED BY <2>1, <2>2
<1>7. w = t
  BY <1>5, <1>6, SeqEqual
<1> QED BY <1>2, <1>3, <1>7 DEF w, c

\* Decoding undoes encoding, for every sequence of points; of a text that arrives
\* only up to some character come, if it does not raise, the points that it began
\* with, and without its last character it raises.
THEOREM IdaYVuelta ==
  \A s \in Seq(Punto) :
    /\ Cifrado(s) \in Seq(Nat)
    /\ Descifrado(Cifrado(s)).puntos = s /\ Entero(Cifrado(s))
    /\ (Cifrado(s) # <<>> => ~Entero(Front(Cifrado(s))))
    /\ \A k \in 0 .. Len(Cifrado(s)) : IsPrefix(Descifrado(SubSeq(Cifrado(s), 1, k)).puntos, s)
<1>0. \A s : Cifrado(s) = Cifra(s).texto
  BY DEF Cifrado, Cifra
<1>1. Leido(<<>>)
  <2>1. Cifra(<<>>) = Cifrando
    BY DeCifra
  <2>2. Cifrado(<<>>) = <<>>
    BY <1>0, <2>1 DEF Cifrando
  <2>3. Descifrado(<<>>) = Lector
    BY DeDescifrado
  <2> QED BY <2>1, <2>2, <2>3 DEF Leido, Lector, Cifrando
<1>2. ASSUME NEW s \in Seq(Punto), NEW p \in Punto, Leido(s) PROVE Leido(Append(s, p))
  <2>1. LET z == Descifrado(Cifra(s).texto)
        IN  /\ z.puntos = s /\ ~z.leeLon /\ z.result = 1 /\ z.peso = 1
            /\ z.lat = Cifra(s).de[2] /\ z.lon = Cifra(s).de[1]
    BY <1>0, <1>2 DEF Leido
  <2>2. LET z == Descifrado(Cifra(Append(s, p)).texto)
        IN  /\ z.puntos = Append(s, p) /\ z.lat = p[2] /\ z.lon = p[1]
            /\ ~z.leeLon /\ z.result = 1 /\ z.peso = 1
            /\ Descifrado(Front(Cifra(Append(s, p)).texto)).leeLon
            /\ Cifra(Append(s, p)).de = p /\ Cifra(Append(s, p)).texto # <<>>
    BY <2>1, LeePunto
  <2> QED BY <1>0, <2>2 DEF Leido
<1> DEFINE Mal == {s \in Seq(Punto) : ~Leido(s)}
<1>3. Mal = {}
  <2> SUFFICES ASSUME Mal # {} PROVE FALSE
    OBVIOUS
  <2>1. Mal \in SUBSET Seq(Punto) /\ <<>> \notin Mal
    BY <1>1
  <2> HIDE DEF Mal
  <2>2. PICK r \in Seq(Punto) \ Mal, x \in Punto : Append(r, x) \in Mal
    BY <2>1, PorAppend
  <2> QED BY <1>2, <2>2 DEF Mal
<1>4. ASSUME NEW s \in Seq(Punto) PROVE Leido(s) /\ Cifrado(s) \in Seq(Nat)
  <2>1. Leido(s)
    BY <1>3
  <2>2. Cifra(s) \in EnCifra
    BY DeCifra
  <2> QED BY <1>0, <2>1, <2>2 DEF EnCifra
<1>5. ASSUME NEW s \in Seq(Punto), NEW k \in 0 .. Len(Cifrado(s))
      PROVE  IsPrefix(Descifrado(SubSeq(Cifrado(s), 1, k)).puntos, s)
  <2> DEFINE c == SubSeq(Cifrado(s), 1, k)
  <2>1. c \in Seq(Nat) /\ \E r \in Seq(Nat) : Cifrado(s) = c \o r
    BY <1>4, Partido
  <2> HIDE DEF c
  <2>2. Principio(Descifrado(c).puntos, Descifrado(Cifrado(s)).puntos)
    BY <2>1, LeeMas
  <2>3. Principio(Descifrado(c).puntos, s) /\ Descifrado(c).puntos \in Seq(Punto)
    BY <1>4, <2>1, <2>2, DeDescifrado DEF Leido, Leyendo, Punto
  <2> QED BY <2>3, EsPrincipio DEF c
<1> QED BY <1>4, <1>5 DEF Leido, Entero

------------------------------------------------------------------------------
(* Rutas: the line that is drawn *)

\* A point more for a collapsed line.
LEMMA DeColapsar == \A a \in Seq(Punto) : \A p \in Punto : Colapsar(a, p) \in Seq(Punto)
BY AppendProperties DEF Colapsar

\* The collapsed line point by point.
LEMMA DeColapsada ==
  /\ Colapsada(<<>>) = <<>>
  /\ \A s \in Seq(Punto) : Colapsada(s) \in Seq(Punto)
  /\ \A s \in Seq(Punto) : \A x \in Punto : Colapsada(Append(s, x)) = Colapsar(Colapsada(s), x)
<1> DEFINE A == Seq(Punto)
           B == Punto
           G == [x \in A \X B |-> Colapsar(x[1], x[2])]
           Regla(s, it) ==
             it = [T \in SUBSET DOMAIN s |->
                     IF T = {} THEN <<>> ELSE Colapsar(it[T \ {Max(T)}], s[Max(T)])]
<1>1. EsTabla(A, B, <<>>, G)
  <2>1. <<>> \in A
    OBVIOUS
  <2>2. \A x \in A \X B : Colapsar(x[1], x[2]) \in A
    BY DeColapsar
  <2> QED BY <2>1, <2>2 DEF EsTabla
<1>2. ASSUME NEW a \in A, NEW x \in B PROVE G[<<a, x>>] = Colapsar(a, x)
  OBVIOUS
<1> HIDE DEF G, A, B
<1>3. ASSUME NEW s \in Seq(B) PROVE Colapsada(s) = PliegueIzq(s, A, <<>>, G)
  <2> DEFINE N == 1 .. Len(s)
  <2>1. Colapsada(s) = (CHOOSE it : Regla(s, it))[DOMAIN s]
    BY DEF Colapsada, FoldLeft, MapThenFoldSet
  <2>2. DOMAIN s = N /\ Len(s) \in Nat /\ \A i \in N : s[i] \in B
    OBVIOUS
  <2>3. \A T \in (SUBSET N) \ {{}} : Max(T) \in T /\ T \ {Max(T)} \in SUBSET N
    BY <2>2, LaUltima
  <2>4. PICK g \in [SUBSET N -> A] : Recorre(g, s, A, <<>>, G)
    BY <1>1, RecorreHay
  <2>5. Regla(s, g)
    <3>1. ASSUME NEW T \in SUBSET N, T # {} PROVE g[T] = Colapsar(g[T \ {Max(T)}], s[Max(T)])
      <4>1. g[T \ {Max(T)}] \in A /\ s[Max(T)] \in B
        BY <2>2, <2>3, <2>4, <3>1
      <4> QED BY <1>2, <2>4, <3>1, <4>1 DEF Recorre
    <3>2. g[{}] = <<>>
      BY <2>4 DEF Recorre
    <3>3. g = [T \in SUBSET DOMAIN s |-> g[T]]
      BY <2>2, <2>4
    <3> QED BY <2>2, <3>1, <3>2, <3>3
  <2> DEFINE it == CHOOSE it : Regla(s, it)
  <2>6. Regla(s, it)
    BY <2>5
  <2> HIDE DEF it
  <2>7. Recorre(it, s, A, <<>>, G)
    <3>1. \A T \in SUBSET N : it[T] = IF T = {} THEN <<>> ELSE Colapsar(it[T \ {Max(T)}], s[Max(T)])
      BY <2>2, <2>6
    <3>2. it = [T \in SUBSET N |-> it[T]]
      BY <2>2, <2>6
    <3>3. ASSUME NEW T \in (SUBSET N) \ {{}}, it[T \ {Max(T)}] \in A
          PROVE  it[T] = G[<<it[T \ {Max(T)}], s[Max(T)]>>]
      BY <1>2, <2>2, <2>3, <3>1, <3>3
    <3> QED BY <3>1, <3>2, <3>3 DEF Recorre
  <2>8. it[1 .. Len(s)] = PliegueIzq(s, A, <<>>, G)
    BY <1>1, <2>7, Izquierda
  <2> QED BY <2>1, <2>2, <2>8 DEF it
<1>4. <<>> \in Seq(B) /\ \A s \in Seq(B) : \A x \in B : Append(s, x) \in Seq(B)
  OBVIOUS
<1>5. /\ PliegueIzq(<<>>, A, <<>>, G) = <<>>
      /\ \A s \in Seq(B) : PliegueIzq(s, A, <<>>, G) \in A
      /\ \A s \in Seq(B) : \A x \in B :
           PliegueIzq(Append(s, x), A, <<>>, G) = G[<<PliegueIzq(s, A, <<>>, G), x>>]
  BY <1>1, Izquierda
<1>6. ASSUME NEW s \in Seq(B), NEW x \in B PROVE Colapsada(Append(s, x)) = Colapsar(Colapsada(s), x)
  <2>1. Colapsada(Append(s, x)) = G[<<PliegueIzq(s, A, <<>>, G), x>>] /\ Colapsada(s) = PliegueIzq(s, A, <<>>, G)
    BY <1>3, <1>4, <1>5
  <2>2. Colapsada(s) \in A
    BY <1>3, <1>5
  <2> QED BY <1>2, <2>1, <2>2
<1> QED BY <1>3, <1>4, <1>5, <1>6 DEF A, B

\* Two lines joined: a point where they meet is written once.
LEMMA DeUnir ==
  \A g \in Seq(Punto) : \A d \in Seq(Punto) :
    /\ Unir(g, d) \in Seq(Punto)
    /\ (g # <<>> /\ d # <<>> /\ g[Len(g)] = d[1]) => Unir(g, d) = g \o Tail(d)
    /\ ~(g # <<>> /\ d # <<>> /\ g[Len(g)] = d[1]) => Unir(g, d) = g \o d
<1> SUFFICES ASSUME NEW g \in Seq(Punto), NEW d \in Seq(Punto)
             PROVE  /\ Unir(g, d) \in Seq(Punto)
                    /\ (g # <<>> /\ d # <<>> /\ g[Len(g)] = d[1]) => Unir(g, d) = g \o Tail(d)
                    /\ ~(g # <<>> /\ d # <<>> /\ g[Len(g)] = d[1]) => Unir(g, d) = g \o d
  OBVIOUS
<1>1. Last(g) = g[Len(g)] /\ Head(d) = d[1]
  BY DEF Last
<1>2. (g # <<>> /\ d # <<>> /\ g[Len(g)] = d[1]) => Unir(g, d) = g \o Tail(d)
  BY <1>1, Zenon DEF Unir
<1>3. ~(g # <<>> /\ d # <<>> /\ g[Len(g)] = d[1]) => Unir(g, d) = g \o d
  BY <1>1, Zenon DEF Unir
<1>4. g \o d \in Seq(Punto) /\ (d # <<>> => Tail(d) \in Seq(Punto) /\ g \o Tail(d) \in Seq(Punto))
  BY HeadTailProperties, ConcatProperties
<1> QED BY <1>2, <1>3, <1>4


\* The legs joined one by one.
LEMMA DeUnido ==
  /\ Unido(<<>>) = <<>>
  /\ \A s \in Seq(Seq(Punto)) : Unido(s) \in Seq(Punto)
  /\ \A s \in Seq(Seq(Punto)) : \A x \in Seq(Punto) : Unido(Append(s, x)) = Unir(Unido(s), x)
<1> DEFINE A == Seq(Punto)
           B == Seq(Punto)
           G == [x \in A \X B |-> Unir(x[1], x[2])]
           Regla(s, it) ==
             it = [T \in SUBSET DOMAIN s |->
                     IF T = {} THEN <<>> ELSE Unir(it[T \ {Max(T)}], s[Max(T)])]
<1>1. EsTabla(A, B, <<>>, G)
  <2>1. <<>> \in A
    OBVIOUS
  <2>2. \A x \in A \X B : Unir(x[1], x[2]) \in A
    BY DeUnir
  <2> QED BY <2>1, <2>2 DEF EsTabla
<1>2. ASSUME NEW a \in A, NEW x \in B PROVE G[<<a, x>>] = Unir(a, x)
  OBVIOUS
<1> HIDE DEF G, A, B
<1>3. ASSUME NEW s \in Seq(B) PROVE Unido(s) = PliegueIzq(s, A, <<>>, G)
  <2> DEFINE N == 1 .. Len(s)
  <2>1. Unido(s) = (CHOOSE it : Regla(s, it))[DOMAIN s]
    BY DEF Unido, FoldLeft, MapThenFoldSet
  <2>2. DOMAIN s = N /\ Len(s) \in Nat /\ \A i \in N : s[i] \in B
    OBVIOUS
  <2>3. \A T \in (SUBSET N) \ {{}} : Max(T) \in T /\ T \ {Max(T)} \in SUBSET N
    BY <2>2, LaUltima
  <2>4. PICK g \in [SUBSET N -> A] : Recorre(g, s, A, <<>>, G)
    BY <1>1, RecorreHay
  <2>5. Regla(s, g)
    <3>1. ASSUME NEW T \in SUBSET N, T # {} PROVE g[T] = Unir(g[T \ {Max(T)}], s[Max(T)])
      <4>1. g[T \ {Max(T)}] \in A /\ s[Max(T)] \in B
        BY <2>2, <2>3, <2>4, <3>1
      <4> QED BY <1>2, <2>4, <3>1, <4>1 DEF Recorre
    <3>2. g[{}] = <<>>
      BY <2>4 DEF Recorre
    <3>3. g = [T \in SUBSET DOMAIN s |-> g[T]]
      BY <2>2, <2>4
    <3> QED BY <2>2, <3>1, <3>2, <3>3
  <2> DEFINE it == CHOOSE it : Regla(s, it)
  <2>6. Regla(s, it)
    BY <2>5
  <2> HIDE DEF it
  <2>7. Recorre(it, s, A, <<>>, G)
    <3>1. \A T \in SUBSET N : it[T] = IF T = {} THEN <<>> ELSE Unir(it[T \ {Max(T)}], s[Max(T)])
      BY <2>2, <2>6
    <3>2. it = [T \in SUBSET N |-> it[T]]
      BY <2>2, <2>6
    <3>3. ASSUME NEW T \in (SUBSET N) \ {{}}, it[T \ {Max(T)}] \in A
          PROVE  it[T] = G[<<it[T \ {Max(T)}], s[Max(T)]>>]
      BY <1>2, <2>2, <2>3, <3>1, <3>3
    <3> QED BY <3>1, <3>2, <3>3 DEF Recorre
  <2>8. it[1 .. Len(s)] = PliegueIzq(s, A, <<>>, G)
    BY <1>1, <2>7, Izquierda
  <2> QED BY <2>1, <2>2, <2>8 DEF it
<1>4. <<>> \in Seq(B) /\ \A s \in Seq(B) : \A x \in B : Append(s, x) \in Seq(B)
  OBVIOUS
<1>5. /\ PliegueIzq(<<>>, A, <<>>, G) = <<>>
      /\ \A s \in Seq(B) : PliegueIzq(s, A, <<>>, G) \in A
      /\ \A s \in Seq(B) : \A x \in B :
           PliegueIzq(Append(s, x), A, <<>>, G) = G[<<PliegueIzq(s, A, <<>>, G), x>>]
  BY <1>1, Izquierda
<1>6. ASSUME NEW s \in Seq(B), NEW x \in B PROVE Unido(Append(s, x)) = Unir(Unido(s), x)
  <2>1. Unido(Append(s, x)) = G[<<PliegueIzq(s, A, <<>>, G), x>>] /\ Unido(s) = PliegueIzq(s, A, <<>>, G)
    BY <1>3, <1>4, <1>5
  <2>2. Unido(s) \in A
    BY <1>3, <1>5
  <2> QED BY <1>2, <2>1, <2>2
<1> QED BY <1>3, <1>4, <1>5, <1>6 DEF A, B

\* A line has a point where its collapsed line has one, and ends where it ends.
LEMMA Final ==
  \A s \in Seq(Punto) :
    /\ s = <<>> <=> Colapsada(s) = <<>>
    /\ s # <<>> => Last(Colapsada(s)) = Last(s)
<1> SUFFICES ASSUME NEW s \in Seq(Punto)
             PROVE  /\ s = <<>> <=> Colapsada(s) = <<>>
                    /\ s # <<>> => Last(Colapsada(s)) = Last(s)
  OBVIOUS
<1>1. CASE s = <<>>
  BY <1>1, DeColapsada
<1>2. CASE s # <<>>
  <2>1. PICK r \in Seq(Punto), p \in Punto : s = Append(r, p)
    BY <1>2, SequenceEmptyOrAppend
  <2> DEFINE c == Colapsada(r)
  <2>2. Colapsada(s) = Colapsar(c, p) /\ c \in Seq(Punto)
    BY <2>1, DeColapsada
  <2> HIDE DEF c
  <2>3. Last(s) = p
    BY <2>1 DEF Last
  <2>4. Append(c, p) # <<>> /\ Last(Append(c, p)) = p
    <3>1. /\ Append(c, p) # <<>> /\ Len(Append(c, p)) = Len(c) + 1
          /\ Append(c, p)[Len(c) + 1] = p
      BY <2>2, AppendProperties, SMTT(30)
    <3> QED BY <3>1 DEF Last
  <2>5. Colapsar(c, p) # <<>> /\ Last(Colapsar(c, p)) = p
    BY <2>4, Zenon DEF Colapsar
  <2> QED BY <1>2, <2>2, <2>3, <2>5
<1> QED BY <1>1, <1>2

\* Lines that collapse to the same do so with the same points after them.
LEMMA Seguidas ==
  ASSUME NEW s \in Seq(Punto), NEW t \in Seq(Punto), Colapsada(s) = Colapsada(t)
  PROVE  \A r \in Seq(Punto) : Colapsada(s \o r) = Colapsada(t \o r)
<1> DEFINE Mal == {r \in Seq(Punto) : Colapsada(s \o r) # Colapsada(t \o r)}
<1>1. ASSUME NEW r \in Seq(Punto), NEW p \in Punto, r \notin Mal PROVE Append(r, p) \notin Mal
  <2>1. s \o r \in Seq(Punto) /\ t \o r \in Seq(Punto)
    OBVIOUS
  <2>2. s \o Append(r, p) = Append(s \o r, p) /\ t \o Append(r, p) = Append(t \o r, p)
    <3>1. ASSUME NEW x \in Seq(Punto) PROVE x \o Append(r, p) = Append(x \o r, p)
      <4>1. <<p>> \in Seq(Punto) /\ Append(r, p) = r \o <<p>> /\ x \o r \in Seq(Punto)
        BY AppendIsConcat
      <4>2. x \o (r \o <<p>>) = (x \o r) \o <<p>>
        BY <4>1, ConcatAssociative
      <4>3. Append(x \o r, p) = (x \o r) \o <<p>>
        BY <4>1, AppendIsConcat
      <4> QED BY <4>1, <4>2, <4>3
    <3> QED BY <3>1
  <2>3. /\ Colapsada(Append(s \o r, p)) = Colapsar(Colapsada(s \o r), p)
        /\ Colapsada(Append(t \o r, p)) = Colapsar(Colapsada(t \o r), p)
    BY <2>1, DeColapsada, Zenon
  <2>4. Colapsada(s \o r) = Colapsada(t \o r)
    BY <1>1
  <2> QED BY <2>2, <2>3, <2>4
<1>2. <<>> \notin Mal
  <2>1. s \o <<>> = s /\ t \o <<>> = t
    BY ConcatEmptySeq
  <2> QED BY <2>1
<1>3. Mal = {}
  <2> SUFFICES ASSUME Mal # {} PROVE FALSE
    OBVIOUS
  <2>1. Mal \in SUBSET Seq(Punto)
    OBVIOUS
  <2> HIDE DEF Mal
  <2>2. PICK r \in Seq(Punto) \ Mal, x \in Punto : Append(r, x) \in Mal
    BY <1>2, <2>1, PorAppend
  <2> QED BY <1>1, <2>2
<1> QED BY <1>3

\* Joining two lines draws the one after the other.
LEMMA UnirDibuja ==
  ASSUME NEW g \in Seq(Punto), NEW d \in Seq(Punto)
  PROVE  Colapsada(Unir(g, d)) = Colapsada(g \o d)
<1>1. CASE ~(g # <<>> /\ d # <<>> /\ g[Len(g)] = d[1])
  BY <1>1, DeUnir
<1>2. CASE g # <<>> /\ d # <<>> /\ g[Len(g)] = d[1]
  <2> DEFINE p == d[1]
             R == Tail(d)
  <2>1. p \in Punto /\ R \in Seq(Punto) /\ d = <<p>> \o R
    <3>1. Len(d) \in Nat /\ Len(d) # 0
      BY <1>2
    <3>2. p \in Punto /\ R \in Seq(Punto) /\ Len(R) = Len(d) - 1 /\ \A i \in 1 .. Len(R) : R[i] = d[i + 1]
      BY <1>2, <3>1, HeadTailProperties
    <3>3. <<p>> \in Seq(Punto) /\ Len(<<p>>) = 1 /\ <<p>>[1] = p
      BY <3>2
    <3> DEFINE q == <<p>>
    <3>4. /\ q \o R \in Seq(Punto) /\ Len(q \o R) = Len(q) + Len(R)
          /\ \A i \in 1 .. Len(q) + Len(R) : (q \o R)[i] = IF i <= Len(q) THEN q[i] ELSE R[i - Len(q)]
      <4> HIDE DEF q, R
      <4> QED BY <3>2, <3>3, ConcatProperties DEF q
    <3> HIDE DEF q, R, p
    <3>5. Len(q \o R) = Len(d)
      BY <3>1, <3>2, <3>3, <3>4 DEF q
    <3>6. \A i \in 1 .. Len(d) : (q \o R)[i] = d[i]
      <4> SUFFICES ASSUME NEW i \in 1 .. Len(d) PROVE (q \o R)[i] = d[i]
        OBVIOUS
      <4>1. Len(q) = 1 /\ q[1] = d[1]
        BY <3>3 DEF q, p
      <4>2. CASE i = 1
        BY <3>1, <3>2, <3>4, <4>1, <4>2
      <4>3. CASE i # 1
        BY <3>1, <3>2, <3>4, <4>1, <4>3
      <4> QED BY <4>2, <4>3
    <3>7. q \o R = d
      BY <3>4, <3>5, <3>6, SeqEqual
    <3> QED BY <3>2, <3>7 DEF q
  <2>2. g \o d = Append(g, p) \o R /\ Append(g, p) \in Seq(Punto)
    <3> HIDE DEF p, R
    <3> QED BY <2>1, Pegar, SMTT(30)
  <2>3. Colapsada(Append(g, p)) = Colapsada(g)
    <3>1. Colapsada(Append(g, p)) = Colapsar(Colapsada(g), p)
      BY <2>1, DeColapsada
    <3>2. Colapsada(g) # <<>> /\ Last(Colapsada(g)) = p
      BY <1>2, Final DEF Last
    <3> QED BY <3>1, <3>2 DEF Colapsar
  <2>4. Unir(g, d) = g \o R
    BY <1>2, DeUnir
  <2> HIDE DEF p, R
  <2>5. Colapsada(Append(g, p) \o R) = Colapsada(g \o R)
    BY <2>1, <2>2, <2>3, Seguidas
  <2> QED BY <2>2, <2>4, <2>5
<1> QED BY <1>1, <1>2

\* No point repeats the one before.
Distintas(s) == \A i \in 1 .. Len(s) - 1 : s[i] # s[i + 1]

\* A point more repeats nothing unless the line ends at it.
LEMMA DistintasAppend ==
  ASSUME NEW s \in Seq(Punto), NEW p \in Punto
  PROVE  Distintas(Append(s, p)) <=> Distintas(s) /\ (s = <<>> \/ Last(s) # p)
<1> DEFINE t == Append(s, p)
           n == Len(s)
<1>1. n \in Nat /\ Len(t) = n + 1 /\ t[n + 1] = p /\ (\A i \in 1 .. n : t[i] = s[i]) /\ (s = <<>> <=> n = 0)
  BY EmptySeq
<1> HIDE DEF t
<1>2. ASSUME Distintas(t) PROVE Distintas(s) /\ (s = <<>> \/ Last(s) # p)
  <2>1. ASSUME NEW i \in 1 .. n - 1 PROVE s[i] # s[i + 1]
    BY <1>1, <1>2 DEF Distintas
  <2>2. ASSUME n # 0 PROVE s[n] # p
    BY <1>1, <1>2, <2>2 DEF Distintas
  <2> QED BY <1>1, <2>1, <2>2 DEF Distintas, Last
<1>3. ASSUME Distintas(s), s = <<>> \/ Last(s) # p PROVE Distintas(t)
  <2> SUFFICES ASSUME NEW i \in 1 .. Len(t) - 1 PROVE t[i] # t[i + 1]
    BY DEF Distintas
  <2>1. CASE i = n
    BY <1>1, <1>3, <2>1 DEF Last
  <2>2. CASE i # n
    <3>1. i \in 1 .. n - 1 /\ i \in 1 .. n /\ i + 1 \in 1 .. n
      BY <1>1, <2>2
    <3> QED BY <1>1, <1>3, <3>1 DEF Distintas
  <2> QED BY <2>1, <2>2
<1> QED BY <1>2, <1>3 DEF t

\* Exactly the lines without repeated points are as they were when collapsed.
LEMMA SinRepetidas ==
  \A s \in Seq(Punto) : Distintas(Colapsada(s)) /\ (Distintas(s) <=> Colapsada(s) = s)
<1> DEFINE Bien(s) == Distintas(Colapsada(s)) /\ (Distintas(s) => Colapsada(s) = s)
           Mal == {s \in Seq(Punto) : ~Bien(s)}
<1>1. Bien(<<>>)
  BY DeColapsada DEF Distintas
<1>2. ASSUME NEW s \in Seq(Punto), NEW p \in Punto, Bien(s) PROVE Bien(Append(s, p))
  <2> DEFINE c == Colapsada(s)
  <2>1. c \in Seq(Punto) /\ Colapsada(Append(s, p)) = Colapsar(c, p)
    BY DeColapsada
  <2>2. Distintas(c) /\ (Distintas(s) => c = s)
    BY <1>2
  <2> HIDE DEF c
  <2>3. Distintas(Colapsar(c, p))
    <3>1. CASE c # <<>> /\ Last(c) = p
      BY <2>2, <3>1 DEF Colapsar
    <3>2. CASE ~(c # <<>> /\ Last(c) = p)
      <4>1. Colapsar(c, p) = Append(c, p)
        BY <3>2 DEF Colapsar
      <4> QED BY <2>1, <2>2, <3>2, <4>1, DistintasAppend
    <3> QED BY <3>1, <3>2
  <2>4. ASSUME Distintas(Append(s, p)) PROVE Colapsar(c, p) = Append(s, p)
    <3>1. Distintas(s) /\ (s = <<>> \/ Last(s) # p)
      BY <2>4, DistintasAppend
    <3>2. c = s
      BY <2>2, <3>1
    <3> QED BY <3>1, <3>2 DEF Colapsar
  <2> QED BY <2>1, <2>3, <2>4
<1>3. Mal = {}
  <2> SUFFICES ASSUME Mal # {} PROVE FALSE
    OBVIOUS
  <2> HIDE DEF Bien
  <2>1. Mal \in SUBSET Seq(Punto) /\ <<>> \notin Mal
    BY <1>1
  <2> HIDE DEF Mal
  <2>2. PICK r \in Seq(Punto) \ Mal, x \in Punto : Append(r, x) \in Mal
    BY <2>1, PorAppend
  <2> QED BY <1>2, <2>2 DEF Mal
<1> QED BY <1>3

\* Two lines without repeated points stay so when they are joined.
LEMMA UnirDistintas ==
  ASSUME NEW g \in Seq(Punto), NEW d \in Seq(Punto), Distintas(g), Distintas(d)
  PROVE  Distintas(Unir(g, d))
<1> DEFINE n == Len(g)
<1>1. n \in Nat /\ Len(d) \in Nat /\ (g = <<>> <=> n = 0) /\ (d = <<>> <=> Len(d) = 0)
  BY EmptySeq
<1>2. ASSUME NEW h \in Seq(Punto), Distintas(h), g = <<>> \/ h = <<>> \/ g[n] # h[1]
      PROVE  Distintas(g \o h)
  <2>1. Len(h) \in Nat /\ (h = <<>> <=> Len(h) = 0)
    BY EmptySeq
  <2>2. Len(g \o h) = n + Len(h) /\ \A i \in 1 .. n + Len(h) : (g \o h)[i] = IF i <= n THEN g[i] ELSE h[i - n]
    BY ConcatProperties
  <2> DEFINE w == g \o h
  <2> HIDE DEF w
  <2> SUFFICES ASSUME NEW i \in 1 .. Len(w) - 1 PROVE w[i] # w[i + 1]
    BY DEF Distintas, w
  <2>3. Len(w) = n + Len(h) /\ \A j \in 1 .. n + Len(h) : w[j] = IF j <= n THEN g[j] ELSE h[j - n]
    BY <2>2 DEF w
  <2>4. CASE i < n
    <3>1. i \in 1 .. n - 1 /\ w[i] = g[i] /\ w[i + 1] = g[i + 1]
      BY <1>1, <2>1, <2>3, <2>4
    <3> QED BY <3>1 DEF Distintas
  <2>5. CASE i = n
    <3>0. /\ i \in 1 .. n + Len(h) /\ i + 1 \in 1 .. n + Len(h) /\ i <= n /\ ~(i + 1 <= n) /\ (i + 1) - n = 1
          /\ n # 0 /\ Len(h) # 0
      BY <1>1, <2>1, <2>3, <2>5
    <3>1. w[i] = g[n] /\ w[i + 1] = h[1] /\ n # 0 /\ Len(h) # 0
      BY <2>3, <2>5, <3>0
    <3> QED BY <1>1, <1>2, <2>1, <3>1
  <2>6. CASE i > n
    <3>1. i - n \in 1 .. Len(h) - 1 /\ w[i] = h[i - n] /\ w[i + 1] = h[(i - n) + 1]
      BY <1>1, <2>1, <2>3, <2>6
    <3> QED BY <1>2, <3>1 DEF Distintas
  <2> QED BY <1>1, <2>4, <2>5, <2>6
<1>3. CASE ~(g # <<>> /\ d # <<>> /\ g[n] = d[1])
  BY <1>2, <1>3, DeUnir
<1>4. CASE g # <<>> /\ d # <<>> /\ g[n] = d[1]
  <2> DEFINE R == Tail(d)
  <2>1. R \in Seq(Punto) /\ Len(R) = Len(d) - 1 /\ \A i \in 1 .. Len(R) : R[i] = d[i + 1]
    BY <1>4, HeadTailProperties
  <2>2. Unir(g, d) = g \o R
    BY <1>4, DeUnir
  <2> HIDE DEF R
  <2>3. Distintas(R)
    <3> SUFFICES ASSUME NEW i \in 1 .. Len(R) - 1 PROVE R[i] # R[i + 1]
      BY DEF Distintas
    <3>0. i \in 1 .. Len(R) /\ i + 1 \in 1 .. Len(R) /\ i + 1 \in 1 .. Len(d) - 1
      BY <1>1, <2>1
    <3>1. R[i] = d[i + 1] /\ R[i + 1] = d[(i + 1) + 1] /\ i + 1 \in 1 .. Len(d) - 1
      BY <2>1, <3>0, Zenon
    <3> QED BY <3>1 DEF Distintas
  <2>4. R = <<>> \/ g[n] # R[1]
    <3> SUFFICES ASSUME R # <<>> PROVE g[n] # R[1]
      OBVIOUS
    <3>1. Len(R) \in Nat \ {0}
      BY <2>1, EmptySeq
    <3>2. R[1] = d[1 + 1] /\ 1 \in 1 .. Len(d) - 1
      BY <1>1, <2>1, <3>1
    <3> QED BY <1>4, <3>2 DEF Distintas
  <2> QED BY <1>2, <2>1, <2>2, <2>3, <2>4
<1> QED BY <1>3, <1>4

\* The legs joined draw what they draw one after another, and stand still only
\* where one of them does.
LEMMA UnidoDibuja ==
  \A ts \in Seq(Seq(Punto)) :
    /\ Colapsada(Unido(ts)) = Colapsada(FlattenSeq(ts))
    /\ (\A i \in 1 .. Len(ts) : Distintas(ts[i])) => Distintas(Unido(ts))
<1> DEFINE Bien(ts) ==
             /\ Colapsada(Unido(ts)) = Colapsada(FlattenSeq(ts))
             /\ (\A i \in 1 .. Len(ts) : Distintas(ts[i])) => Distintas(Unido(ts))
           Mal == {ts \in Seq(Seq(Punto)) : ~Bien(ts)}
<1>1. Bien(<<>>)
  BY DeUnido, Aplanadas DEF Distintas
<1>2. ASSUME NEW ts \in Seq(Seq(Punto)), NEW d \in Seq(Punto), Bien(ts) PROVE Bien(Append(ts, d))
  <2> DEFINE u == Unido(ts)
             f == FlattenSeq(ts)
             n == Len(ts)
             tt == Append(ts, d)
  <2>1. u \in Seq(Punto) /\ Unido(tt) = Unir(u, d) /\ f \in Seq(Punto) /\ FlattenSeq(tt) = f \o d
    BY DeUnido, Aplanadas
  <2>2. Colapsada(u) = Colapsada(f)
    BY <1>2
  <2>3. (\A i \in 1 .. n : Distintas(ts[i])) => Distintas(u)
    BY <1>2
  <2>4. n \in Nat /\ Len(tt) = n + 1 /\ tt[n + 1] = d /\ \A i \in 1 .. n : tt[i] = ts[i]
    OBVIOUS
  <2> HIDE DEF u, f, n, tt
  <2>5. Colapsada(Unido(tt)) = Colapsada(FlattenSeq(tt))
    <3>1. Colapsada(Unir(u, d)) = Colapsada(u \o d)
      BY <2>1, UnirDibuja
    <3>2. Colapsada(u \o d) = Colapsada(f \o d)
      BY <2>1, <2>2, Seguidas
    <3> QED BY <2>1, <3>1, <3>2
  <2>6. ASSUME \A i \in 1 .. Len(tt) : Distintas(tt[i]) PROVE Distintas(Unido(tt))
    <3>1. Distintas(d) /\ \A i \in 1 .. n : Distintas(ts[i])
      <4>1. \A i \in 1 .. n + 1 : Distintas(tt[i])
        BY <2>4, <2>6
      <4>2. n + 1 \in 1 .. n + 1 /\ \A i \in 1 .. n : i \in 1 .. n + 1
        BY <2>4
      <4>3. Distintas(tt[n + 1])
        BY <4>1, <4>2
      <4>4. \A i \in 1 .. n : Distintas(tt[i])
        BY <4>1, <4>2
      <4> QED BY <2>4, <4>3, <4>4
    <3>2. Distintas(u)
      BY <2>3, <3>1
    <3>3. Distintas(Unir(u, d))
      BY <2>1, <3>1, <3>2, UnirDistintas
    <3> QED BY <2>1, <3>3
  <2> QED BY <2>5, <2>6 DEF tt
<1>3. Mal = {}
  <2> SUFFICES ASSUME Mal # {} PROVE FALSE
    OBVIOUS
  <2> HIDE DEF Bien
  <2>1. Mal \in SUBSET Seq(Seq(Punto)) /\ <<>> \notin Mal
    BY <1>1
  <2> HIDE DEF Mal
  <2>2. PICK r \in Seq(Seq(Punto)) \ Mal, x \in Seq(Punto) : Append(r, x) \in Mal
    BY <2>1, PorAppend
  <2> QED BY <1>2, <2>2 DEF Mal
<1> QED BY <1>3

------------------------------------------------------------------------------
(* Rutas: an answer that lost its end *)

\* Of a beginning of a leg, joined to the legs before, comes a beginning of the line.
LEMMA UnirPrincipio ==
  ASSUME NEW g \in Seq(Punto), NEW d \in Seq(Punto), NEW e \in Seq(Punto), Principio(e, d)
  PROVE  Principio(Unir(g, e), Unir(g, d))
<1>1. PICK r \in Seq(Punto) : d = e \o r
  BY DEF Principio
<1>2. CASE e = <<>>
  <2>1. Unir(g, e) = g
    BY <1>2, DeUnir, ConcatEmptySeq
  <2>2. \E q \in Seq(Punto) : Unir(g, d) = g \o q
    <3>1. d # <<>> => Tail(d) \in Seq(Punto)
      BY HeadTailProperties
    <3> QED BY <3>1, DeUnir
  <2> QED BY <2>1, <2>2 DEF Principio
<1>3. CASE e # <<>>
  <2>1. /\ Len(e) \in Nat \ {0} /\ Len(r) \in Nat /\ Len(d) = Len(e) + Len(r)
        /\ \A i \in 1 .. Len(e) + Len(r) : d[i] = IF i <= Len(e) THEN e[i] ELSE r[i - Len(e)]
    BY <1>1, <1>3, ConcatProperties, EmptySeq
  <2>2. d # <<>> /\ d[1] = e[1]
    <3>1. 1 \in 1 .. Len(e) + Len(r) /\ 1 <= Len(e) /\ Len(d) # 0
      BY <2>1
    <3> QED BY <2>1, <3>1, EmptySeq
  <2>3. CASE ~(g # <<>> /\ g[Len(g)] = e[1])
    <3>1. Unir(g, e) = g \o e /\ Unir(g, d) = g \o d
      BY <1>3, <2>2, <2>3, DeUnir
    <3>2. g \o d = (g \o e) \o r
      BY <1>1, ConcatAssociative
    <3> QED BY <3>1, <3>2 DEF Principio
  <2>4. CASE g # <<>> /\ g[Len(g)] = e[1]
    <3> DEFINE E == Tail(e)
               D == Tail(d)
    <3>1. /\ E \in Seq(Punto) /\ Len(E) = Len(e) - 1 /\ \A i \in 1 .. Len(E) : E[i] = e[i + 1]
          /\ D \in Seq(Punto) /\ Len(D) = Len(d) - 1 /\ \A i \in 1 .. Len(D) : D[i] = d[i + 1]
      BY <1>3, <2>2, HeadTailProperties
    <3>2. Unir(g, e) = g \o E /\ Unir(g, d) = g \o D
      BY <1>3, <2>2, <2>4, DeUnir
    <3> HIDE DEF E, D
    <3> DEFINE w == E \o r
    <3>3. E \in Seq(Punto)
      BY <3>1
    <3>4. /\ w \in Seq(Punto) /\ Len(w) = Len(E) + Len(r)
          /\ \A i \in 1 .. Len(E) + Len(r) : w[i] = IF i <= Len(E) THEN E[i] ELSE r[i - Len(E)]
      BY <3>3, ConcatProperties
    <3> HIDE DEF w
    <3>5. Len(w) = Len(D)
      BY <2>1, <3>1, <3>4
    <3>6. ASSUME NEW i \in 1 .. Len(D) PROVE w[i] = D[i]
      <4>0. /\ i \in 1 .. Len(E) + Len(r) /\ i + 1 \in 1 .. Len(e) + Len(r) /\ i \in Nat
            /\ D[i] = d[i + 1]
        BY <2>1, <3>1
      <4>1. CASE i <= Len(E)
        <5>1. i + 1 <= Len(e) /\ i \in 1 .. Len(E)
          BY <2>1, <3>1, <4>0, <4>1
        <5>2. w[i] = e[i + 1] /\ d[i + 1] = e[i + 1]
          BY <2>1, <3>1, <3>4, <4>0, <4>1, <5>1
        <5> QED BY <4>0, <5>2
      <4>2. CASE ~(i <= Len(E))
        <5>1. ~(i + 1 <= Len(e)) /\ (i + 1) - Len(e) = i - Len(E)
          BY <2>1, <3>1, <4>0, <4>2
        <5>2. w[i] = r[i - Len(E)] /\ d[i + 1] = r[(i + 1) - Len(e)]
          BY <2>1, <3>4, <4>0, <4>2, <5>1
        <5> QED BY <4>0, <5>1, <5>2
      <4> QED BY <4>1, <4>2
    <3>7. w = D
      BY <3>1, <3>4, <3>5, <3>6, SeqEqual
    <3>8. PICK q \in Seq(Punto) : q = E
      BY <3>3
    <3>9. Unir(g, e) = g \o q /\ Unir(g, d) = g \o (q \o r)
      BY <3>2, <3>7, <3>8, Zenon DEF w
    <3>10. g \o (q \o r) = (g \o q) \o r
      BY ConcatAssociative
    <3> QED BY <1>1, <3>9, <3>10 DEF Principio
  <2> QED BY <2>3, <2>4
<1> QED BY <1>2, <1>3

\* A beginning of a line collapses to a beginning of what the line collapses to,
\* and repeats no point unless the line does.
LEMMA PrincipioDibuja ==
  ASSUME NEW a \in Seq(Punto), NEW s \in Seq(Punto), Principio(a, s)
  PROVE  /\ Principio(Colapsada(a), Colapsada(s))
         /\ Distintas(s) => Distintas(a)
<1>1. PICK r \in Seq(Punto) : s = a \o r
  BY DEF Principio
<1> DEFINE c == Colapsada(a)
           Mal == {q \in Seq(Punto) : ~Principio(c, Colapsada(a \o q))}
<1>2. c \in Seq(Punto)
  BY DeColapsada
<1>3. <<>> \notin Mal
  <2>1. a \o <<>> = a
    BY ConcatEmptySeq
  <2>2. Principio(c, c)
    BY <1>2, Principios
  <2> QED BY <2>1, <2>2
<1> HIDE DEF c
<1>4. ASSUME NEW q \in Seq(Punto), NEW p \in Punto, q \notin Mal PROVE Append(q, p) \notin Mal
  <2> DEFINE b == Colapsada(a \o q)
  <2>1. a \o q \in Seq(Punto) /\ a \o Append(q, p) = Append(a \o q, p)
    <3>1. <<p>> \in Seq(Punto) /\ Append(q, p) = q \o <<p>> /\ a \o q \in Seq(Punto)
      BY AppendIsConcat, ConcatProperties
    <3>2. a \o (q \o <<p>>) = (a \o q) \o <<p>>
      BY <3>1, ConcatAssociative
    <3>3. Append(a \o q, p) = (a \o q) \o <<p>>
      BY <3>1, AppendIsConcat
    <3> QED BY <3>1, <3>2, <3>3
  <2>2. b \in Seq(Punto) /\ Colapsada(a \o Append(q, p)) = Colapsar(b, p)
    BY <2>1, DeColapsada
  <2>3. Principio(c, b)
    BY <1>4
  <2> HIDE DEF b
  <2>4. Append(b, p) = b \o <<p>> /\ <<p>> \in Seq(Punto)
    BY <2>2, AppendIsConcat
  <2>5. Principio(c, Append(b, p))
    BY <1>2, <2>2, <2>3, <2>4, Principios
  <2>6. Principio(c, Colapsar(b, p))
    BY <2>3, <2>5 DEF Colapsar
  <2> QED BY <2>2, <2>6
<1>5. Mal = {}
  <2> SUFFICES ASSUME Mal # {} PROVE FALSE
    OBVIOUS
  <2>1. Mal \in SUBSET Seq(Punto)
    OBVIOUS
  <2> HIDE DEF Mal
  <2>2. PICK q \in Seq(Punto) \ Mal, x \in Punto : Append(q, x) \in Mal
    BY <1>3, <2>1, PorAppend
  <2> QED BY <1>4, <2>2
<1>6. ASSUME Distintas(s) PROVE Distintas(a)
  <2>1. /\ Len(a) \in Nat /\ Len(r) \in Nat /\ Len(s) = Len(a) + Len(r)
        /\ \A i \in 1 .. Len(a) + Len(r) : s[i] = IF i <= Len(a) THEN a[i] ELSE r[i - Len(a)]
    BY <1>1, ConcatProperties, LenProperties
  <2> SUFFICES ASSUME NEW i \in 1 .. Len(a) - 1 PROVE a[i] # a[i + 1]
    BY DEF Distintas
  <2>2. /\ i \in 1 .. Len(a) + Len(r) /\ i + 1 \in 1 .. Len(a) + Len(r) /\ i \in 1 .. Len(s) - 1
        /\ i <= Len(a) /\ i + 1 <= Len(a)
    BY <2>1
  <2>3. s[i] = a[i] /\ s[i + 1] = a[i + 1]
    BY <2>1, <2>2
  <2> QED BY <1>6, <2>2, <2>3 DEF Distintas
<1> QED BY <1>1, <1>5, <1>6 DEF c

\* Of the texts of some lines, whole or the last up to some character, comes a
\* beginning of the lines joined, and all of it of the whole texts.
LEMMA Recibidas ==
  ASSUME NEW ls \in Seq(Seq(Punto)), ls # <<>>,
         NEW enviados, enviados = [i \in 1 .. Len(ls) |-> Cifrado(ls[i])],
         NEW textos \in Cortados(enviados)
  PROVE  LET g == FoldLeft(Unir, <<>>, [i \in DOMAIN textos |-> Descifrado(textos[i]).puntos])
         IN  /\ g \in Seq(Punto) /\ Principio(g, Unido(ls))
             /\ textos = enviados => g = Unido(ls)
<1>1. PICK ts \in Seq(Seq(Punto)), d \in Seq(Punto) : ls = Append(ts, d)
  BY SequenceEmptyOrAppend
<1> DEFINE m == Len(ts)
           n == m + 1
<1>2. /\ m \in Nat /\ Len(ls) = n /\ ls[n] = d /\ n \in 1 .. n
      /\ \A i \in 1 .. m : ls[i] = ts[i] /\ ts[i] \in Seq(Punto)
  BY <1>1, ElementOfSeq
<1> HIDE DEF m
<1>3. /\ DOMAIN enviados = 1 .. n /\ Len(enviados) = n
      /\ enviados[n] = Cifrado(d) /\ \A i \in 1 .. m : enviados[i] = Cifrado(ts[i])
  BY <1>2
<1>4. PICK k \in 0 .. Len(Cifrado(d)) : textos = [enviados EXCEPT ![n] = SubSeq(Cifrado(d), 1, k)]
  <2>1. enviados # <<>>
    <3>1. Len(enviados) # 0
      BY <1>2, <1>3
    <3> QED BY <3>1
  <2>2. Last(enviados) = Cifrado(d)
    BY <1>3 DEF Last
  <2>3. \E k \in 0 .. Len(Last(enviados)) :
          textos = [enviados EXCEPT ![Len(enviados)] = SubSeq(enviados[Len(enviados)], 1, k)]
    BY <2>1, Zenon DEF Cortados
  <2> QED BY <1>3, <2>2, <2>3
<1> DEFINE c == SubSeq(Cifrado(d), 1, k)
           e == Descifrado(c).puntos
<1>5. /\ DOMAIN textos = 1 .. n /\ textos[n] = c
      /\ \A i \in 1 .. m : textos[i] = Cifrado(ts[i])
  BY <1>2, <1>3, <1>4
<1>6. c \in Seq(Nat) /\ e \in Seq(Punto) /\ Principio(e, d)
  <2>1. Cifrado(d) \in Seq(Nat) /\ Descifrado(Cifrado(d)).puntos = d
    BY IdaYVuelta
  <2>2. c \in Seq(Nat) /\ \E r \in Seq(Nat) : Cifrado(d) = c \o r
    BY <2>1, Partido
  <2> HIDE DEF c
  <2>3. Principio(Descifrado(c).puntos, Descifrado(Cifrado(d)).puntos)
    BY <2>2, LeeMas
  <2> QED BY <2>1, <2>2, <2>3, DeDescifrado DEF Leyendo, Punto
<1>7. ASSUME textos = enviados PROVE e = d
  <2>1. c = Cifrado(d)
    BY <1>2, <1>3, <1>5, <1>7
  <2> HIDE DEF c
  <2> QED BY <2>1, IdaYVuelta
<1> HIDE DEF c, e
<1> DEFINE leidas == [i \in DOMAIN textos |-> Descifrado(textos[i]).puntos]
<1>8. leidas = Append(ts, e)
  <2>1. /\ Append(ts, e) \in Seq(Seq(Punto)) /\ Len(Append(ts, e)) = n
        /\ Append(ts, e)[n] = e /\ \A i \in 1 .. m : Append(ts, e)[i] = ts[i]
    BY <1>2, <1>6 DEF m
  <2>2. ASSUME NEW i \in 1 .. n PROVE Descifrado(textos[i]).puntos = Append(ts, e)[i]
    <3>1. CASE i = n
      BY <1>5, <2>1, <3>1 DEF e
    <3>2. CASE i # n
      <4>1. i \in 1 .. m
        BY <1>2, <3>2
      <4>2. textos[i] = Cifrado(ts[i]) /\ ts[i] \in Seq(Punto) /\ Append(ts, e)[i] = ts[i]
        BY <1>2, <1>5, <2>1, <4>1
      <4> QED BY <4>2, IdaYVuelta
    <3> QED BY <3>1, <3>2
  <2> DEFINE z == Append(ts, e)
  <2> HIDE DEF z
  <2>3. z = [i \in 1 .. n |-> z[i]]
    <3>1. z \in Seq(Seq(Punto)) /\ Len(z) = n
      BY <2>1 DEF z
    <3>2. z = [i \in 1 .. Len(z) |-> z[i]]
      BY <3>1
    <3> QED BY <3>1, <3>2
  <2>4. leidas = [i \in 1 .. n |-> z[i]]
    BY <1>5, <2>2 DEF z
  <2> QED BY <2>3, <2>4 DEF z
<1> HIDE DEF leidas
<1>9. /\ FoldLeft(Unir, <<>>, leidas) = Unir(Unido(ts), e) /\ Unido(ls) = Unir(Unido(ts), d)
      /\ Unido(ts) \in Seq(Punto) /\ Unir(Unido(ts), e) \in Seq(Punto)
  <2>1. FoldLeft(Unir, <<>>, leidas) = Unido(Append(ts, e))
    BY <1>8 DEF Unido
  <2> QED BY <1>1, <1>6, <2>1, DeUnido, DeUnir
<1>10. Principio(Unir(Unido(ts), e), Unir(Unido(ts), d))
  BY <1>6, <1>9, UnirPrincipio
<1> QED BY <1>7, <1>9, <1>10 DEF leidas

\* One line joined is that line.
LEMMA UnaSola ==
  ASSUME NEW u \in Seq(Punto)
  PROVE  Unido(<<u>>) = u
<1>1. <<>> \in Seq(Seq(Punto)) /\ Append(<<>>, u) = <<u>> /\ <<>> \in Seq(Punto)
  OBVIOUS
<1>2. Unido(<<u>>) = Unir(<<>>, u)
  BY <1>1, DeUnido
<1>3. Unir(<<>>, u) = <<>> \o u
  BY <1>1, DeUnir
<1> QED BY <1>2, <1>3, ConcatEmptySeq

\* What was drawn, or a beginning of it if the answer was not whole.
Dibuja(geometry, tramos, entera) ==
  /\ geometry \in Seq(Punto) /\ Principio(geometry, Unido(tramos))
  /\ entera => geometry = Unido(tramos)

\* What any provider draws, or nothing.
LEMMA Trazada ==
  ASSUME NEW tramos \in Seq(Seq(Punto)), tramos # <<>>, NEW prov \in {"google", "osrm", "valhalla"},
         NEW textos \in Cortados(Envio(prov, tramos))
  PROVE  LET geometry == Geometria(prov, tramos, textos)
         IN  geometry = <<>> \/ Dibuja(geometry, tramos, textos = Envio(prov, tramos))
<1> DEFINE u == Unido(tramos)
           enviados == Envio(prov, tramos)
           geometry == Geometria(prov, tramos, textos)
<1>0. u \in Seq(Punto) /\ Principio(u, u)
  BY DeUnido, Principios
<1>1. CASE prov = "osrm"
  <2>1. geometry = u
    BY <1>1 DEF Geometria
  <2> HIDE DEF geometry, enviados
  <2> QED BY <1>0, <2>1 DEF Dibuja, geometry, enviados
<1>2. ASSUME prov # "osrm", ~(\A i \in DOMAIN textos : Entero(textos[i]))
      PROVE  geometry = <<>>
  BY <1>2 DEF Geometria
<1>3. ASSUME prov # "osrm", \A i \in DOMAIN textos : Entero(textos[i])
      PROVE  geometry = FoldLeft(Unir, <<>>, [i \in DOMAIN textos |-> Descifrado(textos[i]).puntos])
  BY <1>3 DEF Geometria
<1>4. \E ls \in Seq(Seq(Punto)) :
        prov # "osrm" => /\ ls # <<>> /\ Unido(ls) = u
                         /\ enviados = [i \in 1 .. Len(ls) |-> Cifrado(ls[i])]
  <2>1. CASE prov = "valhalla"
    <3>1. DOMAIN tramos = 1 .. Len(tramos)
      OBVIOUS
    <3>2. enviados = [i \in 1 .. Len(tramos) |-> Cifrado(tramos[i])]
      BY <2>1, <3>1 DEF Envio
    <3> QED BY <3>2
  <2>2. CASE prov = "google"
    <3> DEFINE ls == <<u>>
    <3>1. enviados = <<Cifrado(u)>>
      BY <2>2 DEF Envio
    <3> HIDE DEF u
    <3>2. ls \in Seq(Seq(Punto)) /\ ls # <<>> /\ Len(ls) = 1 /\ ls[1] = u
      BY <1>0
    <3>3. enviados = [i \in 1 .. 1 |-> Cifrado(u)]
      BY <3>1
    <3>4. Unido(ls) = u
      BY <1>0, UnaSola
    <3> HIDE DEF enviados, ls
    <3>5. enviados = [i \in 1 .. Len(ls) |-> Cifrado(ls[i])]
      BY <3>2, <3>3
    <3> QED BY <3>2, <3>4, <3>5
  <2> QED BY <1>1, <2>1, <2>2
<1>5. PICK ls \in Seq(Seq(Punto)) :
        prov # "osrm" => /\ ls # <<>> /\ Unido(ls) = u
                         /\ enviados = [i \in 1 .. Len(ls) |-> Cifrado(ls[i])]
  BY <1>4
<1> HIDE DEF u
<1>6. ASSUME prov # "osrm", \A i \in DOMAIN textos : Entero(textos[i])
      PROVE  /\ geometry \in Seq(Punto) /\ Principio(geometry, u)
             /\ textos = enviados => geometry = u
  <2>1. textos \in Cortados(enviados)
    OBVIOUS
  <2> HIDE DEF geometry, enviados
  <2> QED BY <1>3, <1>5, <1>6, <2>1, Recibidas
<1> QED BY <1>1, <1>2, <1>6 DEF Dibuja, u

\* A route that was given is a beginning of one drawing's legs joined, or all of
\* it; while one is asked for there is a provider left to ask.
IInvRutas ==
  \/ ruta \in [fase : {"sin", "error"}]
  \/ ruta \in [fase : {"pedida"}, quedan : Seq({"google", "osrm", "valhalla"}) \ {<<>>}]
  \/ /\ ruta.fase = "dada" /\ ruta.tramos \in Trazados /\ ruta.entera \in BOOLEAN
     /\ Dibuja(ruta.geometry, ruta.tramos, ruta.entera)

\* One provider has answered or failed.
LEMMA TrasProveedorSigue ==
  ASSUME IInvRutas, ruta.fase = "pedida", NEW tramos, NEW geometry, NEW entera \in BOOLEAN,
         TrasProveedor(tramos, geometry, entera),
         geometry # <<>> => tramos \in Trazados /\ Dibuja(geometry, tramos, entera)
  PROVE  IInvRutas'
<1>1. ruta \in [fase : {"pedida"}, quedan : Seq({"google", "osrm", "valhalla"}) \ {<<>>}]
  BY DEF IInvRutas
<1>2. CASE geometry # <<>>
  <2>1. ruta' = [fase |-> "dada", tramos |-> tramos, geometry |-> geometry, entera |-> entera]
    BY <1>2 DEF TrasProveedor
  <2>2. /\ ruta'.fase = "dada" /\ ruta'.tramos = tramos /\ ruta'.geometry = geometry
        /\ ruta'.entera = entera
    BY <2>1
  <2> QED BY <1>2, <2>2 DEF IInvRutas, Dibuja
<1>3. CASE geometry = <<>> /\ Tail(ruta.quedan) = <<>>
  BY <1>3 DEF TrasProveedor, IInvRutas
<1>4. CASE geometry = <<>> /\ Tail(ruta.quedan) # <<>>
  <2>1. Tail(ruta.quedan) \in Seq({"google", "osrm", "valhalla"})
    BY <1>1
  <2>2. ruta' = [ruta EXCEPT !.quedan = Tail(ruta.quedan)]
    BY <1>4 DEF TrasProveedor
  <2>3. ruta' \in [fase : {"pedida"}, quedan : Seq({"google", "osrm", "valhalla"}) \ {<<>>}]
    BY <1>1, <1>4, <2>1, <2>2
  <2> QED BY <2>3 DEF IInvRutas
<1> QED BY <1>2, <1>3, <1>4

\* Every step keeps it.
LEMMA PasoRutas == IInvRutas /\ [NextRutas]_ruta => IInvRutas'
<1> USE ConstantesRutas
<1> SUFFICES ASSUME IInvRutas, [NextRutas]_ruta PROVE IInvRutas'
  OBVIOUS
<1>1. CASE PedirRuta
  BY <1>1 DEF PedirRuta, IInvRutas
<1>2. ASSUME NEW tramos \in Trazados, ProveedorTraza(tramos)
      PROVE  IInvRutas'
  <2> DEFINE prov == Head(ruta.quedan)
             enviados == Envio(prov, tramos)
  <2>1. PICK textos \in Cortados(enviados) :
          /\ ruta.fase = "pedida"
          /\ TrasProveedor(tramos, Geometria(prov, tramos, textos), textos = enviados)
    BY <1>2 DEF ProveedorTraza
  <2>2. ruta.quedan \in Seq({"google", "osrm", "valhalla"}) /\ ruta.quedan # <<>>
    BY <2>1 DEF IInvRutas
  <2>3. prov \in {"google", "osrm", "valhalla"}
    BY <2>2
  <2>4. tramos \in Seq(Seq(Punto)) /\ tramos # <<>>
    BY DEF Punto
  <2> DEFINE geometry == Geometria(prov, tramos, textos)
             entera == textos = enviados
  <2> HIDE DEF prov
  <2>5. geometry = <<>> \/ Dibuja(geometry, tramos, entera)
    BY <2>1, <2>3, <2>4, Trazada
  <2>6. entera \in BOOLEAN /\ ruta.fase = "pedida" /\ TrasProveedor(tramos, geometry, entera)
    BY <2>1
  <2> HIDE DEF geometry, enviados, entera
  <2> QED BY <2>5, <2>6, TrasProveedorSigue
<1>3. CASE ProveedorFalla
  <2>1. ruta.fase = "pedida" /\ TrasProveedor(<<>>, <<>>, FALSE)
    BY <1>3 DEF ProveedorFalla
  <2> QED BY <2>1, TrasProveedorSigue
<1>4. CASE UNCHANGED ruta
  BY <1>4 DEF IInvRutas, Dibuja
<1> QED BY <1>1, <1>2, <1>3, <1>4 DEF NextRutas

\* RutaFiel: the line drawn is the one that the provider encoded, point by point,
\* for every route, number of groups and sign, and a beginning of it when the
\* answer lost its end, at whatever character.
THEOREM Fiel == SpecRutas => []RutaFiel
<1> USE ConstantesRutas
<1>1. InitRutas => IInvRutas
  BY DEF InitRutas, SinRuta, IInvRutas
<1>2. IInvRutas => RutaFiel
  <2> SUFFICES ASSUME IInvRutas, ruta.fase = "dada"
               PROVE  LET dibujo == Colapsada(FlattenSeq(ruta.tramos))
                      IN /\ IsPrefix(Colapsada(ruta.geometry), dibujo)
                         /\ ruta.entera => Colapsada(ruta.geometry) = dibujo
                         /\ (\A i \in DOMAIN ruta.tramos : Colapsada(ruta.tramos[i]) = ruta.tramos[i])
                              => Colapsada(ruta.geometry) = ruta.geometry
    BY DEF RutaFiel
  <2> DEFINE tramos == ruta.tramos
             g == ruta.geometry
             u == Unido(tramos)
             dibujo == Colapsada(FlattenSeq(tramos))
  <2>1. tramos \in Seq(Seq(Punto)) /\ Dibuja(g, tramos, ruta.entera)
    BY DEF IInvRutas, Punto
  <2> HIDE DEF tramos, g
  <2>2. g \in Seq(Punto) /\ Principio(g, u) /\ (ruta.entera => g = u)
    BY <2>1 DEF Dibuja
  <2>3. /\ u \in Seq(Punto) /\ Colapsada(u) = dibujo
        /\ (\A i \in 1 .. Len(tramos) : Distintas(tramos[i])) => Distintas(u)
    BY <2>1, UnidoDibuja, DeUnido
  <2> HIDE DEF u, dibujo
  <2>4. /\ Principio(Colapsada(g), dibujo) /\ Colapsada(g) \in Seq(Punto) /\ dibujo \in Seq(Punto)
        /\ Distintas(u) => Distintas(g)
    BY <2>2, <2>3, PrincipioDibuja, DeColapsada
  <2>5. IsPrefix(Colapsada(g), dibujo)
    BY <2>4, EsPrincipio
  <2>6. DOMAIN tramos = 1 .. Len(tramos) /\ \A i \in 1 .. Len(tramos) : tramos[i] \in Seq(Punto)
    BY <2>1
  <2>7. ASSUME \A i \in DOMAIN tramos : Colapsada(tramos[i]) = tramos[i] PROVE Colapsada(g) = g
    <3>1. \A i \in 1 .. Len(tramos) : Distintas(tramos[i])
      BY <2>6, <2>7, SinRepetidas
    <3>2. Distintas(g)
      BY <2>3, <2>4, <3>1
    <3> QED BY <2>2, <3>2, SinRepetidas
  <2> QED BY <2>2, <2>3, <2>5, <2>7 DEF tramos, g, dibujo
<1> QED BY <1>1, <1>2, PasoRutas, PTL DEF SpecRutas
=============================================================================
