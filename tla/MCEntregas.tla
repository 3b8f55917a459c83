----------------------------- MODULE MCEntregas ------------------------------
EXTENDS Entregas, TLC

CONSTANTS ana, beto, arepa, o1, o2, h1, k1, k2, r1, r2

UnVendedor == [p \in Publicaciones |-> beto]

EnLasPuertas == {{"recogida"}, {"entrega"}}

\* Buyer and seller live next door: every position is near both.
PuertasVecinas == {{"recogida", "entrega"}}

Simetria == Permutations(PedidoIds) \cup Permutations(Repartidores) \cup Permutations(HilosR)
=============================================================================
