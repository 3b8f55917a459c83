---------------------------- MODULE CicloEntrega -----------------------------
(***************************************************************************)
(* What delivery promises, whatever its handlers do: an order's delivery   *)
(* goes through the five stages one by one and never back, it stays with   *)
(* the courier who took it, and a courier carries one order at a time.     *)
(* The order may disappear, and its delivery with it.                      *)
(***************************************************************************)
EXTENDS Naturals, Sequences

CONSTANTS Pedidos, Repartidores, Nadie

VARIABLES etapa, quien

Camino ==
  <<"ASIGNADO", "LLEGO_RECOGIDA", "EN_CAMINO_ENTREGA", "LLEGO_ENTREGA", "FINALIZADO">>

EnCurso(o) == etapa[o] \notin {"NINGUNA", "FINALIZADO"}

Init ==
  /\ etapa = [o \in Pedidos |-> "NINGUNA"]
  /\ quien = [o \in Pedidos |-> Nadie]

Tomar(o, r) ==
  /\ etapa[o] = "NINGUNA"
  /\ \A q \in Pedidos : quien[q] = r => ~EnCurso(q)
  /\ etapa' = [etapa EXCEPT ![o] = Camino[1]]
  /\ quien' = [quien EXCEPT ![o] = r]

Seguir(o) ==
  /\ \E i \in 1..(Len(Camino) - 1) :
       etapa[o] = Camino[i] /\ etapa' = [etapa EXCEPT ![o] = Camino[i + 1]]
  /\ UNCHANGED quien

Perder(S) ==
  /\ etapa' = [o \in Pedidos |-> IF o \in S THEN "NINGUNA" ELSE etapa[o]]
  /\ quien' = [o \in Pedidos |-> IF o \in S THEN Nadie ELSE quien[o]]

Next ==
  \/ \E o \in Pedidos, r \in Repartidores : Tomar(o, r)
  \/ \E o \in Pedidos : Seguir(o)
  \/ \E S \in SUBSET Pedidos : Perder(S)

Spec == Init /\ [][Next]_<<etapa, quien>>
=============================================================================
