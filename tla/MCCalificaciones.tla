-------------------------- MODULE MCCalificaciones ---------------------------
EXTENDS Calificaciones, TLC

CONSTANTS o1, o2, o3, ana, beto, caro, h1, h2

\* Two orders of one buyer and one of another, from the same seller.
DosCompradores == [o \in PedidoIds |-> IF o = o2 THEN beto ELSE ana]
UnVendedor == [o \in PedidoIds |-> caro]

Simetria == Permutations(Hilos)
=============================================================================
