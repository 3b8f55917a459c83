------------------------------- MODULE Rutas --------------------------------
(***************************************************************************)
(* RouteService of the monolith and of the geo microservice: providers are *)
(* asked in turn until one draws the route, whose legs two of them encode  *)
(* as a polyline: each coordinate as the difference to the one before, its *)
(* sign in the lowest bit, in groups of five bits, the least first, each a *)
(* character 63 above, 32 more when another follows.                       *)
(***************************************************************************)
EXTENDS Integers, Sequences, SequencesExt

CONSTANTS
  Proveedores,  \* the providers in the order they are asked
  Trazados      \* legs a provider may draw: sequences of points <<lon, lat>>

ASSUME ConstantesRutas ==
  /\ Proveedores \in Seq({"google", "osrm", "valhalla"}) /\ Proveedores # <<>>
  /\ \A tramos \in Trazados : tramos \in Seq(Seq(Int \X Int)) /\ tramos # <<>>

VARIABLE ruta  \* the request being answered

------------------------------------------------------------------------------
(* The encoding of the providers *)

Trozos[n \in Nat] ==
  IF n < 32 THEN <<n + 63>> ELSE <<(n % 32) + 32 + 63>> \o Trozos[n \div 32]

Signado(n) == IF n < 0 THEN -2 * n - 1 ELSE 2 * n

\* One point more: the text so far and the point it ends at.
Cifrando == [texto |-> <<>>, de |-> <<0, 0>>]
Cifrar(a, p) ==
  [texto |-> a.texto \o Trozos[Signado(p[2] - a.de[2])] \o Trozos[Signado(p[1] - a.de[1])], de |-> p]

Cifrado(puntos) == FoldLeft(Cifrar, Cifrando, puntos).texto

------------------------------------------------------------------------------
(* _decode_polyline5 and _decode_polyline6 *)

\* The state of the two nested loops: whose value is read, what it is so far.
Lector == [puntos |-> <<>>, lat |-> 0, lon |-> 0, leeLon |-> FALSE, result |-> 1, peso |-> 1]

\* ~(result >> 1) if result & 1 else result >> 1
Delta(result) == IF result % 2 = 1 THEN -(result \div 2) - 1 ELSE result \div 2

\* Mutant: the byte is not shifted down by one.
LeerDesplazado(a, c) ==
  LET byte == c - 63
      result == a.result + byte * a.peso
  IN IF byte >= 31
       THEN [a EXCEPT !.result = result, !.peso = @ * 32]
     ELSE IF ~a.leeLon
       THEN [a EXCEPT !.lat = @ + Delta(result), !.leeLon = TRUE, !.result = 1, !.peso = 1]
     ELSE LET lon == a.lon + Delta(result)
          IN [a EXCEPT !.lon = lon, !.leeLon = FALSE, !.result = 1, !.peso = 1,
                       !.puntos = Append(@, <<lon, a.lat>>)]

\* One character.
Leer(a, c) ==
  LET byte == c - 64
      result == a.result + byte * a.peso
  IN IF byte >= 31
       THEN [a EXCEPT !.result = result, !.peso = @ * 32]
     ELSE IF ~a.leeLon
       THEN [a EXCEPT !.lat = @ + Delta(result), !.leeLon = TRUE, !.result = 1, !.peso = 1]
     ELSE LET lon == a.lon + Delta(result)
          IN [a EXCEPT !.lon = lon, !.leeLon = FALSE, !.result = 1, !.peso = 1,
                       !.puntos = Append(@, <<lon, a.lat>>)]

\* A text that ends inside a point raises IndexError.
Descifrado(texto) == FoldLeft(Leer, Lector, texto)
Entero(texto) == LET fin == Descifrado(texto) IN ~fin.leeLon /\ fin.peso = 1

------------------------------------------------------------------------------
(* The providers *)

\* _fetch_valhalla_route: the legs one after another, a shared point once.
Unir(geometry, decoded) ==
  IF geometry # <<>> /\ decoded # <<>> /\ Last(geometry) = Head(decoded)
    THEN geometry \o Tail(decoded)
    ELSE geometry \o decoded

\* What the provider sends: one encoded overview (Google), a list of points
\* (OSRM), one encoded shape per leg (Valhalla).
Unido(tramos) == FoldLeft(Unir, <<>>, tramos)
Envio(prov, tramos) ==
  CASE prov = "google" -> <<Cifrado(Unido(tramos))>>
    [] prov = "valhalla" -> [i \in DOMAIN tramos |-> Cifrado(tramos[i])]
    [] prov = "osrm" -> <<>>

\* What arrives of it: all, or the last text only up to some character.
Cortados(textos) ==
  IF textos = <<>> THEN {textos}
  ELSE {[textos EXCEPT ![Len(textos)] = SubSeq(@, 1, k)] : k \in 0 .. Len(Last(textos))}

\* _fetch_google_route, _fetch_osrm_route, _fetch_valhalla_route: <<>> stands for
\* None and for the exception that get_route swallows.
Geometria(prov, tramos, textos) ==
  IF prov = "osrm" THEN Unido(tramos)
  ELSE IF \A i \in DOMAIN textos : Entero(textos[i])
    THEN FoldLeft(Unir, <<>>, [i \in DOMAIN textos |-> Descifrado(textos[i]).puntos])
  ELSE <<>>

------------------------------------------------------------------------------

SinRuta == [fase |-> "sin"]

PedirRuta ==
  /\ ruta.fase \in {"sin", "dada", "error"}
  /\ ruta' = [fase |-> "pedida", quedan |-> Proveedores]

\* get_route after one provider: the route, the next provider, or None (a 502).
\* entera: nothing of the answer was lost.
TrasProveedor(tramos, geometry, entera) ==
  ruta' = IF geometry # <<>>
            THEN [fase |-> "dada", tramos |-> tramos, geometry |-> geometry, entera |-> entera]
          ELSE IF Tail(ruta.quedan) = <<>> THEN [fase |-> "error"]
          ELSE [ruta EXCEPT !.quedan = Tail(@)]

ProveedorTraza(tramos) ==
  /\ ruta.fase = "pedida"
  /\ LET prov == Head(ruta.quedan)
         enviados == Envio(prov, tramos)
     IN \E textos \in Cortados(enviados) :
          TrasProveedor(tramos, Geometria(prov, tramos, textos), textos = enviados)

\* No key, a time out, a status other than OK, no routes.
ProveedorFalla ==
  /\ ruta.fase = "pedida"
  /\ TrasProveedor(<<>>, <<>>, FALSE)

InitRutas == ruta = SinRuta

NextRutas ==
  \/ PedirRuta
  \/ \E tramos \in Trazados : ProveedorTraza(tramos)
  \/ ProveedorFalla

SpecRutas == InitRutas /\ [][NextRutas]_ruta

------------------------------------------------------------------------------
(* Properties *)

\* Without the points that repeat the one before.
Colapsar(a, p) == IF a # <<>> /\ Last(a) = p THEN a ELSE Append(a, p)
Colapsada(s) == FoldLeft(Colapsar, <<>>, s)

\* The line drawn for the courier is the one the provider drew, point by point in
\* order, and where two legs meet it has one point, so that it stands still only
\* where a leg does: decoding undoes the encoding at every number of groups and
\* sign.  If the end of the answer was lost the line is a beginning of that one:
\* between two points the decoder stops without an error and the line ends there,
\* inside a point it raises, and a point that was not drawn never comes out.
RutaFiel ==
  ruta.fase = "dada" =>
    LET dibujo == Colapsada(FlattenSeq(ruta.tramos))
    IN /\ IsPrefix(Colapsada(ruta.geometry), dibujo)
       /\ ruta.entera => Colapsada(ruta.geometry) = dibujo
       /\ (\A i \in DOMAIN ruta.tramos : Colapsada(ruta.tramos[i]) = ruta.tramos[i])
            => Colapsada(ruta.geometry) = ruta.geometry
=============================================================================
