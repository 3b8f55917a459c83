--------------------------- MODULE DireccionesCo ----------------------------
(***************************************************************************)
(* What the geo microservice does to the text of an address before it asks *)
(* Nominatim.  A text is a record of what its regular expressions look at: *)
(* the kind of road, whether its number ends in a letter ("Calle 80C"),    *)
(* how much of the house number is there, and how that is written.  The    *)
(* tokens of a text are separated by spaces.                               *)
(***************************************************************************)
EXTENDS Integers, Sequences

\* casa: N "80", L "80C", NP "80-125", LP "80C-125" or "80C125"
Texto ==
  [via : {"calle", "avenida", "lugar"}, letra : BOOLEAN, casa : {"", "N", "L", "NP", "LP"},
   gato : BOOLEAN,     \* "#" before the house number
   guion : BOOLEAN,    \* "-" before its last part
   abrev : BOOLEAN,    \* "cl" for "Calle", "av" for "Avenida"
   prefijo : BOOLEAN,  \* a place named "Parque ...", "Universidad ..."
   medellin : BOOLEAN, pais : BOOLEAN,
   otraVia : BOOLEAN]  \* the text no longer names the road that was typed

SinTexto == <<>>

\* _detect_query_scope and _looks_like_co_street_query
EsColombia(t) == t.via # "lugar" \/ t.gato \/ t.medellin

\* _looks_like_place_query
PareceLugar(t) == t.via = "lugar" /\ ~t.gato

\* query_has_house_detail: a "#", or a digit followed by a letter
TieneDetalle(t) == t.gato \/ t.letra \/ t.casa \in {"L", "LP"}

\* _add_default_context_if_needed
ConContexto(t) == IF EsColombia(t) THEN [t EXCEPT !.pais = TRUE] ELSE t

\* _strip_place_noise
SinPrefijo(t) == IF t.prefijo THEN [t EXCEPT !.prefijo = FALSE] ELSE SinTexto

\* _normalize_co_address_query: abbreviations, and "80c125" as "#80C-125"; with
\* neither "#" nor Calle or Carrera, or with a dash but no "#", it stays.
Normalizada(t) ==
  LET plena == [t EXCEPT !.abrev = FALSE]
  IN IF plena.via = "calle" /\ plena.casa = "LP" /\ (plena.gato \/ ~plena.guion)
       THEN [plena EXCEPT !.gato = TRUE, !.guion = TRUE]
       ELSE plena

\* The two variants without "#", and then without "-".
SinGato(t) == [t EXCEPT !.gato = FALSE]
SinGatoNiGuion(t) == [t EXCEPT !.gato = FALSE, !.guion = FALSE]

\* _generalize_co_house_number_variant.  Its second pattern takes the number of
\* a road that has none for a house: "Calle 80C" becomes "Calle 8 #0C".
SinPlaca(t) ==
  IF t.gato /\ t.guion /\ t.casa = "LP"
    THEN [t EXCEPT !.casa = "L", !.guion = FALSE]
  ELSE IF t.via = "calle" /\ t.casa = "L"
    THEN [t EXCEPT !.gato = TRUE]
  ELSE IF t.via = "calle" /\ t.casa = "" /\ t.letra
    THEN [t EXCEPT !.casa = "L", !.gato = TRUE, !.letra = FALSE, !.otraVia = TRUE]
  ELSE SinTexto

\* _road_only_variant
SoloVia(t) ==
  IF t.via = "calle"
    THEN [Normalizada(t) EXCEPT !.casa = "", !.gato = FALSE, !.guion = FALSE]
    ELSE SinTexto

\* add_variant: neither empty texts nor repetitions
Agrega(s, t) == IF t = SinTexto \/ \E i \in DOMAIN s : s[i] = t THEN s ELSE Append(s, t)

\* The variants in the order of the calls.
Variantes(textos) ==
  LET hasta[n \in 0 .. Len(textos)] ==
        IF n = 0 THEN <<>> ELSE Agrega(hasta[n - 1], textos[n])
  IN hasta[Len(textos)]

\* suggest_addresses: the variants in the order they are added
VariantesDeSugerencia(t) ==
  LET ctx == ConContexto(t)
      norm == Normalizada(ctx)
      lugar == IF PareceLugar(t) THEN SinPrefijo(t) ELSE SinTexto
  IN IF EsColombia(t)
       THEN Variantes(<<norm, IF ctx = t THEN SinTexto ELSE t, lugar, SinGato(norm), SinGatoNiGuion(norm),
                        SinPlaca(norm), SoloVia(norm)>>)
       ELSE Variantes(<<t, lugar>>)

\* variants_to_try
VariantesAProbar(t) ==
  LET todas == VariantesDeSugerencia(t)
      n == IF EsColombia(t) /\ TieneDetalle(t) THEN 4 ELSE 1
  IN SubSeq(todas, 1, IF Len(todas) < n THEN Len(todas) ELSE n)

\* fallback_variant: road_only or general or no_hash or no_hash_no_dash, when it
\* is not what was asked first.
VarianteDeReserva(t) ==
  LET norm == Normalizada(ConContexto(t))
      reserva == IF SoloVia(norm) # SinTexto THEN SoloVia(norm)
                 ELSE IF SinPlaca(norm) # SinTexto THEN SinPlaca(norm) ELSE SinGato(norm)
  IN IF EsColombia(t) /\ reserva # VariantesDeSugerencia(t)[1] THEN reserva ELSE SinTexto

\* _fallback_queries_for_co: the house number without its last part; the
\* variant that needs it at the end of the text never applies, for the text
\* ends in ", Colombia".
VariantesDeGeocodigo(t) ==
  LET ctx == ConContexto(t)
      corta == [ctx EXCEPT !.casa = IF @ = "LP" THEN "L" ELSE "N", !.guion = FALSE]
  IN IF EsColombia(t) /\ t.gato /\ t.guion /\ t.casa \in {"NP", "LP"}
       THEN <<ctx, corta>>
       ELSE <<ctx>>
=============================================================================
